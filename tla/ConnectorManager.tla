-------------------------- MODULE ConnectorManager --------------------------
(***************************************************************************)
(* ConnectorManager and the connector half of ActionRouter                 *)
(* (src/connectors/): instances of connectors are enabled, polled,         *)
(* retried, disabled and, after a restart, restored.  The manager counts   *)
(* the instances of a type to know when to register and unregister the     *)
(* handlers the type contributes, and each device records the instance     *)
(* that owns it.                                                           *)
(*                                                                         *)
(* A call that awaits a connector is two actions: what it does before, and *)
(* what it does with the answer.  Between them anything else may happen.   *)
(***************************************************************************)
EXTENDS Integers, FiniteSets

CONSTANTS
    Instances,    \* instance ids; each is enabled at most once (a UUID)
    Types,        \* connector types
    TypeOf,       \* the type of an instance
    Devices,      \* device ids
    Reach,        \* the devices an instance may discover
    MaxDisables,  \* bound: disable() calls of one instance at one time
    MaxPolls,     \* bound: polls of one instance at one time
    MaxActions,   \* bound: device actions at one time
    MaxFaults,    \* bound: failing database writes
    MaxRestarts   \* bound: process restarts

Absent == "absent"    \* not in the device registry
Unowned == "unowned"  \* in the registry without connectorInstanceId

ASSUME ConnectorAssumption ==
    /\ {Absent, Unowned} \cap Instances = {} /\ Absent # Unowned
    /\ IsFiniteSet(Instances)
    /\ TypeOf \in [Instances -> Types]
    /\ Reach \in [Instances -> SUBSET Devices]
    /\ \A n \in {MaxDisables, MaxPolls, MaxActions, MaxFaults, MaxRestarts} : n \in Nat

VARIABLES
    phase,      \* "restoring", "serving", "closing" or "down"
    toRestore,  \* records that restoreFromStore() has yet to bring up
    skipped,    \* enabled records that restoreFromStore() left without an instance
    drawn,      \* the UUIDs that enable() has drawn
    enabling,   \* instances whose enable() awaits its connector
    live,       \* the keys of the instances map
    polling,    \* instances whose interval is set
    polls,      \* discoveries that the interval of an instance awaits
    retries,    \* instances whose retry() awaits its connector
    disables,   \* disable() calls that await the connector
    seen,       \* the devices set of an instance
    actions,    \* executeAction() calls that await a connector
    count,      \* activeInstanceCountByType
    handlers,   \* types whose contributions are registered
    owner,      \* connectorInstanceId of a device
    stored,     \* an instance's row: "none", "enabled" or "disabled"
    torn,       \* how often disable() released an instance's handlers (history)
    faults,     \* failed writes so far
    restarts    \* ends of the process so far

vars == <<phase, toRestore, skipped, drawn, enabling, live, polling, polls, retries,
          disables, seen, actions, count, handlers, owner, stored, torn, faults,
          restarts>>

process == <<phase, toRestore, skipped, drawn, restarts>>
contributions == <<count, handlers, torn>>

Serving == phase = "serving"
Running == phase # "down"

Init ==
    /\ phase = "serving"
    /\ toRestore = {} /\ skipped = {} /\ drawn = {} /\ enabling = {} /\ live = {} /\ polling = {}
    /\ retries = {}
    /\ polls = [i \in Instances |-> 0]
    /\ disables = [i \in Instances |-> 0]
    /\ seen = [i \in Instances |-> {}]
    /\ actions = {}
    /\ count = [t \in Types |-> 0]
    /\ handlers = {}
    /\ owner = [d \in Devices |-> Absent]
    /\ stored = [i \in Instances |-> "none"]
    /\ torn = [i \in Instances |-> 0]
    /\ faults = 0
    /\ restarts = 0

-----------------------------------------------------------------------------
(* emitDeviceEvent() for each device found: the finder becomes the owner.  *)
Claimed(found, i) == [d \in Devices |-> IF d \in found THEN i ELSE owner[d]]

(* What is left after deviceRegistry.remove() of some devices.             *)
Without(removed) == [d \in Devices |-> IF d \in removed THEN Absent ELSE owner[d]]

(* Mutation: only the first instance of a type is counted.                 *)
RegisterCountsOnce(type) ==
    /\ count' = [count EXCEPT ![type] = 1]
    /\ handlers' = handlers \cup {type}

(* registerContributions().                                                *)
RegisterContributions(type) ==
    /\ count' = [count EXCEPT ![type] = @ + 1]
    /\ handlers' = IF count[type] = 0 THEN handlers \cup {type} ELSE handlers

(* Mutation: off by one, the last instance does not release the handlers.  *)
UnregisterTooLate(type) ==
    /\ count' = [count EXCEPT ![type] = IF @ > 0 THEN @ - 1 ELSE 0]
    /\ handlers' = IF count[type] < 1 THEN handlers \ {type} ELSE handlers

(* unregisterContributions(): a count of zero is a missing map entry,      *)
(* which is read as one.                                                   *)
UnregisterContributions(type) ==
    /\ count' = [count EXCEPT ![type] = IF @ > 0 THEN @ - 1 ELSE 0]
    /\ handlers' = IF count[type] <= 1 THEN handlers \ {type} ELSE handlers

(* An instance comes up with the devices it found.                         *)
BringUp(i, found) ==
    /\ owner' = Claimed(found, i)
    /\ seen' = [seen EXCEPT ![i] = found]
    /\ RegisterContributions(TypeOf[i])
    /\ live' = live \cup {i}
    /\ polling' = polling \cup {i}

(* enable(), up to connect().                                              *)
EnableStart(i) ==
    /\ Serving /\ i \notin drawn
    /\ drawn' = drawn \cup {i}
    /\ enabling' = enabling \cup {i}
    /\ UNCHANGED <<phase, toRestore, skipped, restarts, live, polling, polls, retries,
                   disables, seen, actions, contributions, owner, stored, faults>>

(* enable() after discoverDevices(), which may have found nothing or       *)
(* failed; a failed connect() makes no difference.                         *)
EnableFinish(i) ==
    /\ i \in enabling
    /\ \E found \in SUBSET Reach[i] : BringUp(i, found)
    /\ enabling' = enabling \ {i}
    /\ stored' = [stored EXCEPT ![i] = "enabled"]
    /\ UNCHANGED <<process, polls, retries, disables, actions, torn, faults>>

(* enable() when store.save() throws: devices and handlers stay behind.    *)
EnableFails(i) ==
    /\ i \in enabling /\ faults < MaxFaults
    /\ faults' = faults + 1
    /\ \E found \in SUBSET Reach[i] : owner' = Claimed(found, i)
    /\ RegisterContributions(TypeOf[i])
    /\ enabling' = enabling \ {i}
    /\ UNCHANGED <<process, live, polling, polls, retries, disables, seen,
                   actions, stored, torn>>

(* disable(), up to disconnect().  The instance stays in the map.          *)
DisableStart(i) ==
    /\ Serving /\ i \in live /\ disables[i] < MaxDisables
    /\ disables' = [disables EXCEPT ![i] = @ + 1]
    /\ polling' = polling \ {i}
    /\ UnregisterContributions(TypeOf[i])
    /\ torn' = [torn EXCEPT ![i] = @ + 1]
    /\ UNCHANGED <<process, enabling, live, polls, retries, seen, actions, owner,
                   stored, faults>>

(* Mutation: the devices of the type are removed, not the instance's.      *)
OwnedByType(i) ==
    {d \in Devices : \/ \E j \in Instances : TypeOf[j] = TypeOf[i] /\ owner[d] = j
                     \/ owner[d] = Unowned /\ d \in seen[i]}

(* The devices disable() removes.                                          *)
Owned(i) == {d \in Devices : owner[d] = i \/ (owner[d] = Unowned /\ d \in seen[i])}

(* Mutation: the record stays enabled.                                     *)
DisableFinishKeepsRecord(i) ==
    /\ disables[i] > 0
    /\ disables' = [disables EXCEPT ![i] = @ - 1]
    /\ owner' = Without(Owned(i))
    /\ live' = live \ {i}
    /\ UNCHANGED <<process, enabling, polling, polls, retries, seen, actions,
                   contributions, stored, faults>>

(* Mutation: the instance stays in the map.                                *)
DisableFinishKeepsInstance(i) ==
    /\ disables[i] > 0
    /\ disables' = [disables EXCEPT ![i] = @ - 1]
    /\ owner' = Without(Owned(i))
    /\ stored' = [stored EXCEPT ![i] = "disabled"]
    /\ UNCHANGED <<process, enabling, live, polling, polls, retries, seen, actions,
                   contributions, faults>>

(* disable() after disconnect() and dispose().                             *)
DisableFinish(i) ==
    /\ disables[i] > 0
    /\ disables' = [disables EXCEPT ![i] = @ - 1]
    /\ owner' = Without(Owned(i))
    /\ stored' = [stored EXCEPT ![i] = "disabled"]
    /\ live' = live \ {i}
    /\ UNCHANGED <<process, enabling, polling, polls, retries, seen, actions,
                   contributions, faults>>

(* disable() when a write throws: the DELETE of a device, which is gone    *)
(* from memory by then, or the UPDATE of the record.                       *)
DisableFails(i) ==
    /\ disables[i] > 0 /\ faults < MaxFaults
    /\ faults' = faults + 1
    /\ disables' = [disables EXCEPT ![i] = @ - 1]
    /\ \E removed \in SUBSET Owned(i) :
           /\ removed = {} => Owned(i) = {}
           /\ owner' = Without(removed)
    /\ UNCHANGED <<process, enabling, live, polling, polls, retries, seen, actions,
                   contributions, stored>>

(* updateConfig(): saves the record, which says enabled.                   *)
UpdateConfig(i) ==
    /\ Serving /\ i \in live
    /\ stored' = [stored EXCEPT ![i] = "enabled"]
    /\ UNCHANGED <<process, enabling, live, polling, polls, retries, disables, seen,
                   actions, contributions, owner, faults>>

(* retry(), up to connect().                                               *)
RetryStart(i) ==
    /\ Serving /\ i \in live /\ i \notin retries
    /\ retries' = retries \cup {i}
    /\ UNCHANGED <<process, enabling, live, polling, polls, disables, seen, actions,
                   contributions, owner, stored, faults>>

(* retry() with what it found; nothing, if the connector failed.           *)
RetryFinish(i) ==
    /\ i \in retries
    /\ retries' = retries \ {i}
    /\ \E found \in SUBSET Reach[i] :
           /\ owner' = Claimed(found, i)
           /\ seen' = [seen EXCEPT ![i] = @ \cup found]
    /\ UNCHANGED <<process, enabling, live, polling, polls, disables, actions,
                   contributions, stored, faults>>

(* The interval of startPolling() fires; it does not wait for the last     *)
(* poll to end.                                                            *)
PollStart(i) ==
    /\ i \in polling /\ polls[i] < MaxPolls
    /\ polls' = [polls EXCEPT ![i] = @ + 1]
    /\ UNCHANGED <<process, enabling, live, polling, retries, disables, seen, actions,
                   contributions, owner, stored, faults>>

(* A poll's answer.  Nothing found, or an error, changes nothing.          *)
PollFinish(i) ==
    /\ polls[i] > 0
    /\ polls' = [polls EXCEPT ![i] = @ - 1]
    /\ \E found \in SUBSET Reach[i] :
           /\ owner' = Claimed(found, i)
           /\ seen' = IF found = {} THEN seen ELSE [seen EXCEPT ![i] = found]
    /\ UNCHANGED <<process, enabling, live, polling, retries, disables, actions,
                   contributions, stored, faults>>

(* resolveOwningInstance(): the owner, or any instance of the type if the  *)
(* device records none.                                                    *)
RoutesTo(d, i) ==
    /\ i \in live
    /\ owner[d] = i \/ (owner[d] = Unowned /\ d \in Reach[i])

(* executeAction() of a connector's device, up to execute().               *)
ActionStart(d, i) ==
    /\ phase \in {"serving", "closing"} /\ RoutesTo(d, i)
    /\ Cardinality(actions) < MaxActions
    /\ actions' = actions \cup {[device |-> d, instance |-> i, owner |-> owner[d]]}
    /\ UNCHANGED <<process, enabling, live, polling, polls, retries, disables, seen,
                   contributions, owner, stored, faults>>

(* The owner of a device after an event that names none.                   *)
Kept(d) == IF owner[d] = Absent THEN Unowned ELSE owner[d]

(* executeAction() with the connector's answer: an error, a deletion, a    *)
(* renaming (which discovers, and names no owner), or any other action,    *)
(* whose event is made from the device as it was before the call.          *)
ActionFinish(a) ==
    /\ actions' = actions \ {a}
    /\ \/ UNCHANGED owner
       \/ owner' = [owner EXCEPT ![a.device] = Absent]
       \/ \E found \in SUBSET Reach[a.instance] :
             owner' = [d \in Devices |-> IF d \in found THEN Kept(d) ELSE owner[d]]
       \/ owner' = [owner EXCEPT ![a.device] =
                        IF a.owner = Unowned THEN Kept(a.device) ELSE a.owner]
    /\ UNCHANGED <<process, enabling, live, polling, polls, retries, disables, seen,
                   contributions, stored, faults>>

(* Shutdown: the HTTP server has closed, so no request is being served.    *)
DisposeAllStart ==
    /\ Serving /\ enabling = {} /\ retries = {} /\ \A i \in Instances : disables[i] = 0
    /\ phase' = "closing"
    /\ UNCHANGED <<toRestore, skipped, drawn, restarts, enabling, live, polling, polls,
                   retries, disables, seen, actions, contributions, owner, stored, faults>>

(* disposeAll(): one instance, up to its disconnect().                     *)
DisposeInstance(i) ==
    /\ phase = "closing" /\ i \in polling
    /\ polling' = polling \ {i}
    /\ UNCHANGED <<process, enabling, live, polls, retries, disables, seen, actions,
                   contributions, owner, stored, faults>>

(* disposeAll() clears the map.                                            *)
DisposeAllFinish ==
    /\ phase = "closing" /\ polling = {} /\ live # {}
    /\ live' = {}
    /\ UNCHANGED <<process, enabling, polling, polls, retries, disables, seen, actions,
                   contributions, owner, stored, faults>>

(* The process ends: a crash, or the end of a shutdown.  Devices and       *)
(* records are in the database (DeviceRegistry has the window in which a   *)
(* device is not there yet).                                               *)
Stop ==
    /\ Running /\ restarts < MaxRestarts
    /\ phase' = "down"
    /\ toRestore' = {} /\ skipped' = {} /\ enabling' = {} /\ live' = {}
    /\ polling' = {} /\ retries' = {}
    /\ polls' = [i \in Instances |-> 0]
    /\ disables' = [i \in Instances |-> 0]
    /\ seen' = [i \in Instances |-> {}]
    /\ actions' = {}
    /\ count' = [t \in Types |-> 0]
    /\ handlers' = {}
    /\ torn' = [i \in Instances |-> 0]
    /\ restarts' = restarts + 1
    /\ UNCHANGED <<drawn, owner, stored, faults>>

Restart ==
    /\ ~Running
    /\ phase' = "restoring"
    /\ toRestore' = {i \in Instances : stored[i] = "enabled"}
    /\ UNCHANGED <<skipped, drawn, restarts, enabling, live, polling, polls, retries,
                   disables, seen, actions, contributions, owner, stored, faults>>

(* restoreFromStore(): one record.  Nothing else is served meanwhile,      *)
(* except the polls of the instances that are up.  createConnector() is    *)
(* not guarded: if it throws, main() ends the process, which is Stop.      *)
Restore(i) ==
    /\ i \in toRestore
    /\ toRestore' = toRestore \ {i}
    /\ \E found \in SUBSET Reach[i] : BringUp(i, found)
    /\ UNCHANGED <<phase, skipped, drawn, restarts, enabling, polls, retries, disables,
                   actions, stored, torn, faults>>

(* restoreFromStore() of a record whose type no module of this build       *)
(* provides, or whose config is not JSON: a warning, and the row stays as  *)
(* it is, enabled.  Any record may be of that kind.                        *)
Skip(i) ==
    /\ i \in toRestore
    /\ toRestore' = toRestore \ {i}
    /\ skipped' = skipped \cup {i}
    /\ UNCHANGED <<phase, drawn, restarts, enabling, live, polling, polls, retries,
                   disables, seen, actions, contributions, owner, stored, faults>>

RestoreFinish ==
    /\ phase = "restoring" /\ toRestore = {}
    /\ phase' = "serving"
    /\ UNCHANGED <<toRestore, skipped, drawn, restarts, enabling, live, polling, polls,
                   retries, disables, seen, actions, contributions, owner, stored, faults>>

Request(i) ==
    \/ EnableStart(i) \/ EnableFinish(i) \/ EnableFails(i)
    \/ DisableStart(i) \/ DisableFinish(i) \/ DisableFails(i)
    \/ UpdateConfig(i) \/ RetryStart(i) \/ RetryFinish(i)

Process ==
    \/ DisposeAllStart \/ DisposeAllFinish \/ Stop \/ Restart \/ RestoreFinish

Next ==
    \/ \E i \in Instances : Request(i)
    \/ \E i \in Instances : PollStart(i) \/ PollFinish(i)
    \/ \E d \in Devices, i \in Instances : ActionStart(d, i)
    \/ \E a \in actions : ActionFinish(a)
    \/ \E i \in Instances : DisposeInstance(i) \/ Restore(i) \/ Skip(i)
    \/ Process

Spec == Init /\ [][Next]_vars

-----------------------------------------------------------------------------
TypeOK ==
    /\ phase \in {"restoring", "serving", "closing", "down"}
    /\ toRestore \subseteq Instances /\ skipped \subseteq Instances /\ drawn \subseteq Instances
    /\ enabling \subseteq Instances /\ live \subseteq Instances
    /\ polling \subseteq Instances /\ retries \subseteq Instances
    /\ polls \in [Instances -> 0..MaxPolls]
    /\ disables \in [Instances -> 0..MaxDisables]
    /\ seen \in [Instances -> SUBSET Devices]
    /\ actions \subseteq [device : Devices, instance : Instances,
                         owner : Instances \cup {Unowned}]
    /\ count \in [Types -> Nat]
    /\ handlers \subseteq Types
    /\ owner \in [Devices -> Instances \cup {Absent, Unowned}]
    /\ stored \in [Instances -> {"none", "enabled", "disabled"}]
    /\ torn \in [Instances -> Nat]
    /\ faults \in 0..MaxFaults /\ restarts \in 0..MaxRestarts

(* Memory and table agree on what is enabled while the process serves,     *)
(* whatever failed, overlapped or was cut off by a crash before: the       *)
(* enabled records are those of the instances in the map and those that    *)
(* restoreFromStore() skipped.  A skipped record has no instance, and no   *)
(* request of this process changes it: it waits for a restart.             *)
StoreAgrees ==
    Serving => /\ live \cap skipped = {}
               /\ \A i \in Instances : i \in live \cup skipped <=> stored[i] = "enabled"

(* An interval belongs to an instance in the map, so no connector is       *)
(* polled after disable() or disposeAll(); and an instance that nobody     *)
(* tried to disable is polled.                                             *)
PollingFollowsInstances ==
    /\ polling \subseteq live
    /\ phase \in {"serving", "restoring"} => \A i \in live : torn[i] = 0 => i \in polling

NobodyTornTwice == \A i \in Instances : torn[i] <= 1

(* While an instance is enabled the contributions of its type are          *)
(* registered, if disable() ran at most once for each instance.            *)
SiblingKeepsHandlers ==
    NobodyTornTwice => \A i \in live : torn[i] = 0 => TypeOf[i] \in handlers

(* Registered contributions have an enabled instance of the type, if in    *)
(* addition no write failed: the last disable() releases them.             *)
HandlersAreReleased ==
    Serving /\ NobodyTornTwice /\ faults = 0 =>
        \A t \in handlers : \E i \in live : TypeOf[i] = t /\ torn[i] = 0

(* The reference count does both: contributions are there exactly while an *)
(* enabled instance needs them.                                            *)
HandlersFollowInstances == SiblingKeepsHandlers /\ HandlersAreReleased

(* A device is taken from an instance only by a disable() of that instance *)
(* or by a delete action on the device: never by a sibling's disable().    *)
SiblingKeepsDevices ==
    [][\A d \in Devices, i \in Instances :
          owner[d] = i /\ owner'[d] = Absent =>
              \/ disables'[i] < disables[i]
              \/ \E a \in actions \ actions' : a.device = d]_vars

(* A disabled instance stays disabled: no configuration update, retry or   *)
(* restart that overlaps disable() enables it again.                       *)
DisabledStaysDisabled ==
    [][\A i \in Instances : stored[i] = "disabled" => stored'[i] = "disabled"]_vars

(* "torn down only when its last instance is disabled, so a sibling never  *)
(* loses functionality" (docs/reference/connectors.md:54).                 *)
SiblingAlwaysKeepsHandlers ==
    \A i \in live : torn[i] = 0 => TypeOf[i] \in handlers

(* "Disable a connector: stop polling, disconnect, dispose, remove         *)
(* devices" (the doc of disable()): a disabled instance owns no device.    *)
DisabledOwnsNothing ==
    \A i \in Instances, d \in Devices : stored[i] = "disabled" => owner[d] # i

-----------------------------------------------------------------------------
(* The inductive invariant.  Requests are only in progress while the       *)
(* process serves, records and instances agree at each phase of a restart, *)
(* and a type's count, which says whether its handlers are registered, is  *)
(* never below the number of its instances that still rely on it.          *)
Relying(t) == {i \in live : TypeOf[i] = t /\ torn[i] = 0}

PhaseInv ==
    /\ ~Serving => enabling = {} /\ \A i \in Instances : disables[i] = 0
    /\ phase # "restoring" => toRestore = {}
    /\ phase = "down" => live = {} /\ skipped = {}
    /\ phase = "restoring" =>
           /\ live \cap skipped = {} /\ toRestore \cap (live \cup skipped) = {}
           /\ \A i \in Instances :
                 i \in live \cup toRestore \cup skipped <=> stored[i] = "enabled"
    /\ \A i \in enabling : stored[i] = "none" /\ i \in drawn
    /\ \A i \in Instances \ drawn : stored[i] = "none"
    /\ \A i \in Instances : disables[i] > 0 => i \in drawn \ (enabling \cup polling \cup skipped)

CountInv ==
    \A t \in Types :
        /\ t \in handlers <=> count[t] > 0
        /\ NobodyTornTwice => count[t] >= Cardinality(Relying(t))

ConnectorInv == TypeOK /\ PhaseInv /\ StoreAgrees /\ PollingFollowsInstances /\ CountInv
=============================================================================
