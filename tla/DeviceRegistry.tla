--------------------------- MODULE DeviceRegistry ---------------------------
(***************************************************************************)
(* DeviceRegistry (src/core/device-registry.ts): devices in memory, an     *)
(* index from MQTT topics to devices, and a write-behind batch to SQLite.  *)
(* Telemetry is batched behind a timer; a command profile, which an        *)
(* operator sets once, is flushed before the call returns.  A flush may    *)
(* fail and the process may stop at any time.                              *)
(***************************************************************************)
EXTENDS Integers

CONSTANTS
    Topics,        \* MQTT state topics
    Ids,           \* device ids
    LegacyId,      \* the readable id parsed from a topic; topics may share one
    HashedId,      \* the id with a hash of the topic, used on a collision
    ConnectorIds,  \* the ids under which connectors report devices
    MaxUpdates,    \* bound: events and profile changes
    MaxFaults,     \* bound: failing database writes
    MaxRestarts    \* bound: process restarts

None == "none"

(* SHA-256 is taken to be injective: hashed ids differ from each other and *)
(* from all other ids.                                                     *)
ASSUME RegistryAssumption ==
    /\ None \notin Topics \cup Ids
    /\ LegacyId \in [Topics -> Ids] /\ HashedId \in [Topics -> Ids]
    /\ ConnectorIds \subseteq Ids
    /\ \A t, u \in Topics : /\ HashedId[t] = HashedId[u] => t = u
                            /\ HashedId[t] # LegacyId[u]
                            /\ HashedId[t] \notin ConnectorIds
    /\ MaxUpdates \in Nat /\ MaxFaults \in Nat /\ MaxRestarts \in Nat

VARIABLES
    up,        \* is the process running?
    disposed,  \* has dispose() been called?
    mem,       \* devices
    index,     \* mqttDeviceIdsByTopic
    dirty,     \* pendingWrites: the snapshot to be written, by id
    timer,     \* is flushTimer armed?
    disk,      \* the devices table
    updates,   \* updates so far; also the version of the newest one
    faults,    \* failed writes so far
    restarts,  \* ends of the process so far
    promised,  \* the last profile accepted from an operator, by id (history)
    undeleted  \* ids whose DELETE failed (history)

vars == <<up, disposed, mem, index, dirty, timer, disk, updates, faults,
          restarts, promised, undeleted>>

(* A device: mqtt is integration = "mqtt", owned is "has a                 *)
(* connectorInstanceId", version stands for the device's state, and        *)
(* profile 0 is "no profile".                                              *)
Device == [mqtt : BOOLEAN, topic : Topics \cup {None}, owned : BOOLEAN,
           version : 0..MaxUpdates, profile : 0..MaxUpdates]

NoDevice ==
    [mqtt |-> FALSE, topic |-> None, owned |-> FALSE, version |-> 0, profile |-> 0]

(* A row written before topics were stored.                                *)
OldDevice == [NoDevice EXCEPT !.mqtt = TRUE]

Nothing == [id \in Ids |-> NoDevice]

HasTopic(device, t) == device.mqtt /\ device.topic = t

(* loadFromDb(): of several rows with one topic, the last one read wins.   *)
LoadFromDb ==
    /\ mem' = disk
    /\ index' \in [Topics -> Ids \cup {None}]
    /\ \A t \in Topics :
           LET rows == {id \in Ids : HasTopic(disk[id], t)}
           IN  IF rows = {} THEN index'[t] = None ELSE index'[t] \in rows

Init ==
    /\ up = TRUE
    /\ disposed = FALSE
    /\ \E old \in SUBSET {LegacyId[t] : t \in Topics} :
           disk = [id \in Ids |-> IF id \in old THEN OldDevice ELSE NoDevice]
    /\ mem = disk
    /\ index = [t \in Topics |-> None]
    /\ dirty = Nothing
    /\ timer = FALSE
    /\ updates = 0
    /\ faults = 0
    /\ restarts = 0
    /\ promised = [id \in Ids |-> 0]
    /\ undeleted = {}

-----------------------------------------------------------------------------
(* The table after a batch of upserts.                                     *)
Written(batch) ==
    [id \in Ids |-> IF batch[id] # NoDevice THEN batch[id] ELSE disk[id]]

(* Mutation: the failed batch is kept, but no timer will retry it.         *)
FlushForgetsTimer(batch, armed) ==
    \/ /\ disk' = Written(batch)
       /\ dirty' = Nothing
       /\ timer' = armed
       /\ UNCHANGED faults
    \/ /\ batch # Nothing /\ faults < MaxFaults
       /\ faults' = faults + 1
       /\ dirty' = batch
       /\ timer' = armed
       /\ UNCHANGED disk

(* flushPendingWrites(): one transaction.  If it fails, the batch is dirty *)
(* again and the timer is armed, unless the registry is disposed.          *)
Flush(batch, armed) ==
    \/ /\ disk' = Written(batch)
       /\ dirty' = Nothing
       /\ timer' = armed
       /\ UNCHANGED faults
    \/ /\ batch # Nothing /\ faults < MaxFaults
       /\ faults' = faults + 1
       /\ dirty' = batch
       /\ timer' = TRUE
       /\ UNCHANGED disk

(* schedulePersist().                                                      *)
SchedulePersist(id, device) ==
    /\ dirty' = IF disposed THEN dirty ELSE [dirty EXCEPT ![id] = device]
    /\ timer' = IF disposed THEN timer ELSE TRUE
    /\ UNCHANGED <<disk, faults>>

(* Mutation: a topic always gets its readable id.                          *)
ResolveLegacyOnly(topic) ==
    IF index[topic] # None THEN index[topic] ELSE LegacyId[topic]

(* resolveMqttDeviceId().                                                  *)
ResolveMqttDeviceId(topic) ==
    IF index[topic] # None /\ mem[index[topic]] # NoDevice THEN index[topic]
    ELSE IF \/ mem[LegacyId[topic]] = NoDevice
            \/ HasTopic(mem[LegacyId[topic]], None)
         THEN LegacyId[topic]
    ELSE HashedId[topic]

(* What upsert() does once the event is merged into the device.            *)
Store(id, device) ==
    /\ up /\ updates < MaxUpdates
    /\ updates' = updates + 1
    /\ mem' = [mem EXCEPT ![id] = device]
    /\ index' = IF device.mqtt /\ device.topic # None
                   THEN [index EXCEPT ![device.topic] = id] ELSE index
    /\ SchedulePersist(id, device)
    /\ UNCHANGED <<up, disposed, restarts, promised, undeleted>>

(* upsert() of an MQTT event; an existing device keeps its integration.    *)
UpsertMqtt(topic) ==
    LET id == ResolveMqttDeviceId(topic)
    IN  Store(id, [mem[id] EXCEPT !.mqtt = (mem[id] = NoDevice) \/ @,
                                  !.topic = topic, !.version = updates + 1])

(* upsert() of a connector's event: an existing device keeps its           *)
(* integration and topic.                                                  *)
UpsertConnector(id) ==
    Store(id, [mem[id] EXCEPT !.owned = TRUE, !.version = updates + 1])

(* Mutation: the snapshot that waits to be written is forgotten about.     *)
RemoveKeepsPending(id) ==
    /\ up /\ mem[id].owned
    /\ mem' = [mem EXCEPT ![id] = NoDevice]
    /\ index' = [t \in Topics |-> IF HasTopic(mem[id], t) THEN None ELSE index[t]]
    /\ promised' = [promised EXCEPT ![id] = 0]
    /\ disk' = [disk EXCEPT ![id] = NoDevice]
    /\ UNCHANGED <<up, disposed, dirty, timer, updates, faults, restarts, undeleted>>

(* remove(): from memory, index and batch, then the DELETE, which may      *)
(* throw.  Only connectors remove devices.                                 *)
Remove(id) ==
    /\ up /\ mem[id].owned
    /\ mem' = [mem EXCEPT ![id] = NoDevice]
    /\ index' = [t \in Topics |-> IF HasTopic(mem[id], t) THEN None ELSE index[t]]
    /\ dirty' = [dirty EXCEPT ![id] = NoDevice]
    /\ promised' = [promised EXCEPT ![id] = 0]
    /\ \/ /\ disk' = [disk EXCEPT ![id] = NoDevice]
          /\ UNCHANGED <<faults, undeleted>>
       \/ /\ faults < MaxFaults /\ disk[id] # NoDevice
          /\ faults' = faults + 1
          /\ undeleted' = undeleted \cup {id}
          /\ UNCHANGED disk
    /\ UNCHANGED <<up, disposed, timer, updates, restarts>>

(* Mutation: the profile waits in the batch like telemetry.                *)
SetMqttCommandProfileBatched(id) ==
    LET device == [mem[id] EXCEPT !.profile = updates + 1]
    IN  /\ up /\ ~disposed /\ updates < MaxUpdates /\ mem[id].mqtt
        /\ updates' = updates + 1
        /\ mem' = [mem EXCEPT ![id] = device]
        /\ promised' = [promised EXCEPT ![id] = updates + 1]
        /\ SchedulePersist(id, device)
        /\ UNCHANGED <<up, disposed, index, restarts, undeleted>>

(* setMqttCommandProfile(), through the route, which wants an MQTT device: *)
(* persistNow() flushes at once, and what the flush does with an error is  *)
(* not reported.  The HTTP server has closed before dispose() is called.   *)
SetMqttCommandProfile(id) ==
    LET device == [mem[id] EXCEPT !.profile = updates + 1]
    IN  /\ up /\ ~disposed /\ updates < MaxUpdates /\ mem[id].mqtt
        /\ updates' = updates + 1
        /\ mem' = [mem EXCEPT ![id] = device]
        /\ promised' = [promised EXCEPT ![id] = updates + 1]
        /\ Flush([dirty EXCEPT ![id] = device], TRUE)
        /\ UNCHANGED <<up, disposed, index, restarts, undeleted>>

(* The flush timer fires.                                                  *)
TimerFires ==
    /\ up /\ timer
    /\ Flush(dirty, FALSE)
    /\ UNCHANGED <<up, disposed, mem, index, updates, restarts, promised, undeleted>>

(* dispose(): a last flush, whose failure drops the batch.                 *)
Dispose ==
    /\ up /\ ~disposed
    /\ disposed' = TRUE
    /\ dirty' = Nothing
    /\ timer' = FALSE
    /\ \/ /\ disk' = Written(dirty)
          /\ UNCHANGED faults
       \/ /\ dirty # Nothing /\ faults < MaxFaults
          /\ faults' = faults + 1
          /\ UNCHANGED disk
    /\ UNCHANGED <<up, mem, index, updates, restarts, promised, undeleted>>

(* The process ends: a crash, or the end of a shutdown.                    *)
Stop ==
    /\ up /\ restarts < MaxRestarts
    /\ up' = FALSE
    /\ mem' = Nothing
    /\ index' = [t \in Topics |-> None]
    /\ dirty' = Nothing
    /\ timer' = FALSE
    /\ restarts' = restarts + 1
    /\ UNCHANGED <<disposed, disk, updates, faults, promised, undeleted>>

Restart ==
    /\ ~up
    /\ up' = TRUE
    /\ disposed' = FALSE
    /\ LoadFromDb
    /\ UNCHANGED <<dirty, timer, disk, updates, faults, restarts, promised, undeleted>>

Next ==
    \/ \E topic \in Topics : UpsertMqtt(topic)
    \/ \E id \in ConnectorIds : UpsertConnector(id)
    \/ \E id \in Ids : Remove(id)
    \/ \E id \in Ids : SetMqttCommandProfile(id)
    \/ TimerFires
    \/ Dispose
    \/ Stop
    \/ Restart

Spec == Init /\ [][Next]_vars

(* A setTimeout callback runs in the end.                                  *)
FairSpec == Spec /\ WF_vars(TimerFires)

-----------------------------------------------------------------------------
TypeOK ==
    /\ up \in BOOLEAN /\ disposed \in BOOLEAN /\ timer \in BOOLEAN
    /\ mem \in [Ids -> Device]
    /\ dirty \in [Ids -> Device]
    /\ disk \in [Ids -> Device]
    /\ index \in [Topics -> Ids \cup {None}]
    /\ updates \in 0..MaxUpdates
    /\ faults \in 0..MaxFaults
    /\ restarts \in 0..MaxRestarts
    /\ promised \in [Ids -> 0..MaxUpdates]
    /\ undeleted \subseteq Ids

(* Until it is disposed, the registry knows what the table lacks: a device *)
(* in memory is the snapshot that waits to be written or, if none waits,   *)
(* the row.  So a batch that fails is not lost, a late snapshot does not   *)
(* overwrite a newer one, and a removed device is not written again.  A    *)
(* removed device whose DELETE threw still has its row: remove() takes the *)
(* device from memory first.                                               *)
WriteBehind ==
    up /\ ~disposed =>
        \A id \in Ids :
            \/ mem[id] = IF dirty[id] # NoDevice THEN dirty[id] ELSE disk[id]
            \/ id \in undeleted /\ mem[id] = NoDevice /\ dirty[id] = NoDevice

(* Whatever waits to be written has a timer that will write it: an error   *)
(* in flushPendingWrites() arms the timer again.                           *)
FlushIsArmed == dirty # Nothing => timer

(* The topic index is exact: an MQTT topic names the one device that has   *)
(* it, through slug collisions, removals and restarts.  (A failed DELETE   *)
(* leaves a row behind that may claim a topic that another device has by   *)
(* the time of a restart.)                                                 *)
TopicsIdentify ==
    up /\ undeleted = {} =>
        \A t \in Topics, id \in Ids : index[t] = id <=> HasTopic(mem[id], t)

(* What the registry serves from memory is right on both counts: it is     *)
(* what the table has or will have, and it is found under its own topic.   *)
MemoryIsExact == WriteBehind /\ TopicsIdentify

(* A command profile survives a restart, as setMqttCommandProfile()        *)
(* promises, if no write fails.                                            *)
ProfileSurvives ==
    up /\ faults = 0 => \A id \in Ids : mem[id].profile = promised[id]

(* The same without the condition: "In-memory and SQLite stay in sync so   *)
(* the profile survives restart" (the doc of setMqttCommandProfile()).     *)
ProfileAlwaysSurvives ==
    up => \A id \in Ids : mem[id].profile = promised[id]

(* What waits to be written is written or dropped in the end: a database   *)
(* that recovers gets the batches it refused.                              *)
BatchIsWritten == dirty # Nothing ~> dirty = Nothing

-----------------------------------------------------------------------------
(* The inductive invariant.  A hashed id is only ever used for its topic,  *)
(* an index entry is never wrong, a batch exists only while it can be      *)
(* flushed, no two rows claim one topic, and the row of a device has its   *)
(* profile.                                                                *)
Reserved(devices) ==
    \A t \in Topics :
        devices[HashedId[t]] # NoDevice => HasTopic(devices[HashedId[t]], t)

TopicIsMqtt(devices) ==
    \A id \in Ids : devices[id].topic # None => devices[id].mqtt

RowsInv ==
    /\ Reserved(mem) /\ Reserved(dirty) /\ Reserved(disk)
    /\ TopicIsMqtt(mem) /\ TopicIsMqtt(dirty) /\ TopicIsMqtt(disk)
    /\ ~up \/ disposed => dirty = Nothing
    /\ \A t \in Topics : index[t] # None => HasTopic(mem[index[t]], t)
    /\ undeleted = {} =>
           \A t \in Topics, id, other \in Ids :
               HasTopic(disk[id], t) /\ HasTopic(disk[other], t) => id = other
    /\ faults = 0 => undeleted = {} /\ \A id \in Ids : disk[id].profile = promised[id]

RegistryInv ==
    /\ TypeOK /\ WriteBehind /\ FlushIsArmed /\ TopicsIdentify /\ ProfileSurvives
    /\ RowsInv
=============================================================================
