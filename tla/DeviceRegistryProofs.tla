------------------------ MODULE DeviceRegistryProofs ------------------------
(***************************************************************************)
(* For any topics, ids and bounds: write-behind loses nothing that the     *)
(* process still knows, a waiting batch has a timer, topics identify       *)
(* devices, and profiles survive restarts if no write fails.               *)
(***************************************************************************)
EXTENDS DeviceRegistry, TLAPS

LEMMA Shapes ==
    /\ NoDevice \in Device /\ OldDevice \in Device
    /\ NoDevice # OldDevice
    /\ Nothing \in [Ids -> Device] /\ \A id \in Ids : Nothing[id] = NoDevice
    /\ NoDevice.topic = None /\ ~NoDevice.mqtt /\ NoDevice.profile = 0 /\ ~NoDevice.owned
    /\ OldDevice.topic = None /\ OldDevice.mqtt /\ OldDevice.profile = 0
    /\ None \notin Topics /\ None \notin Ids
    /\ MaxUpdates \in Nat /\ MaxFaults \in Nat /\ MaxRestarts \in Nat
    /\ \A t \in Topics : LegacyId[t] \in Ids /\ HashedId[t] \in Ids
  <1>1. /\ None \notin Topics /\ None \notin Ids
        /\ MaxUpdates \in Nat /\ MaxFaults \in Nat /\ MaxRestarts \in Nat
        /\ \A t \in Topics : LegacyId[t] \in Ids /\ HashedId[t] \in Ids
    BY RegistryAssumption DEF RegistryAssumption
  <1>2. /\ NoDevice.topic = None /\ ~NoDevice.mqtt /\ NoDevice.profile = 0 /\ ~NoDevice.owned
        /\ OldDevice.topic = None /\ OldDevice.mqtt /\ OldDevice.profile = 0
    BY DEF NoDevice, OldDevice
  <1>3. 0 \in 0..MaxUpdates
    BY <1>1
  <1>4. NoDevice \in Device /\ OldDevice \in Device
    BY <1>3, Zenon DEF Device, NoDevice, OldDevice
  <1>5. Nothing \in [Ids -> Device] /\ \A id \in Ids : Nothing[id] = NoDevice
    BY <1>4 DEF Nothing
  <1>6. QED
    BY <1>1, <1>2, <1>4, <1>5

LEMMA InitEstablishesInv == Init => RegistryInv
  <1> SUFFICES ASSUME Init PROVE RegistryInv
    OBVIOUS
  <1> USE Shapes
  <1>1. PICK old \in SUBSET {LegacyId[t] : t \in Topics} :
           disk = [id \in Ids |-> IF id \in old THEN OldDevice ELSE NoDevice]
    BY Zenon DEF Init
  <1>2. disk \in [Ids -> Device] /\ \A id \in Ids : disk[id] \in {OldDevice, NoDevice}
    BY <1>1
  <1>3. TypeOK
    <2>1. mem \in [Ids -> Device] /\ dirty \in [Ids -> Device] /\ disk \in [Ids -> Device]
      BY <1>2 DEF Init
    <2>2. index \in [Topics -> Ids \cup {None}] /\ promised \in [Ids -> 0..MaxUpdates]
      BY DEF Init
    <2>3. /\ updates \in 0..MaxUpdates /\ faults \in 0..MaxFaults
          /\ restarts \in 0..MaxRestarts /\ undeleted \subseteq Ids
      BY DEF Init
    <2>4. up \in BOOLEAN /\ disposed \in BOOLEAN /\ timer \in BOOLEAN
      BY Zenon DEF Init
    <2>5. QED
      BY <2>1, <2>2, <2>3, <2>4 DEF TypeOK
  <1>4. WriteBehind /\ FlushIsArmed
    BY DEF Init, WriteBehind, FlushIsArmed
  <1>5. \A id \in Ids, t \in Topics : ~HasTopic(mem[id], t)
    BY <1>2, Zenon DEF Init, HasTopic
  <1>6. TopicsIdentify /\ ProfileSurvives
    BY <1>2, <1>5 DEF Init, TopicsIdentify, ProfileSurvives
  <1>7. \A t \in Topics : disk[HashedId[t]] = NoDevice
    <2> SUFFICES ASSUME NEW t \in Topics PROVE HashedId[t] \notin old
      BY <1>1, Zenon
    <2>1. \A u \in Topics : HashedId[t] # LegacyId[u]
      BY RegistryAssumption DEF RegistryAssumption
    <2>2. QED
      BY <2>1
  <1>8. RowsInv
    BY <1>2, <1>5, <1>7 DEF Init, RowsInv, Reserved, TopicIsMqtt
  <1>9. QED
    BY <1>3, <1>4, <1>6, <1>8 DEF RegistryInv

(* The table after a batch, device by device.                              *)
LEMMA WrittenIs ==
    ASSUME NEW batch \in [Ids -> Device], TypeOK
    PROVE  /\ Written(batch) \in [Ids -> Device]
           /\ \A id \in Ids : Written(batch)[id] =
                 IF batch[id] # NoDevice THEN batch[id] ELSE disk[id]
  BY DEF Written, TypeOK

(* What a successful write of everything that waits leaves in the table.   *)
LEMMA WriteKeepsRows ==
    ASSUME RegistryInv, up, ~disposed,
           disk' = Written(dirty), dirty' = Nothing,
           UNCHANGED <<up, mem, index, promised, undeleted>>,
           faults' = faults
    PROVE  /\ disk' \in [Ids -> Device]
           /\ \A id \in Ids : \/ mem[id] = disk'[id]
                              \/ id \in undeleted /\ mem[id] = NoDevice
           /\ RowsInv' /\ ProfileSurvives' /\ TopicsIdentify'
  <1> USE Shapes
  <1>0. TypeOK /\ WriteBehind /\ TopicsIdentify /\ ProfileSurvives /\ RowsInv
    BY DEF RegistryInv
  <1>1. /\ disk' \in [Ids -> Device]
        /\ \A id \in Ids : disk'[id] = IF dirty[id] # NoDevice THEN dirty[id] ELSE disk[id]
    BY <1>0, WrittenIs DEF TypeOK
  <1>2. \A id \in Ids : \/ mem[id] = disk'[id]
                        \/ id \in undeleted /\ mem[id] = NoDevice
    BY <1>0, <1>1 DEF WriteBehind
  <1>3. Reserved(disk)' /\ TopicIsMqtt(disk)'
    BY <1>0, <1>1 DEF RowsInv, Reserved, TopicIsMqtt, HasTopic
  <1>4. Reserved(dirty)' /\ TopicIsMqtt(dirty)'
    BY DEF Reserved, TopicIsMqtt
  <1>5. Reserved(mem)' /\ TopicIsMqtt(mem)'
    BY <1>0 DEF RowsInv, Reserved, TopicIsMqtt, HasTopic
  <1>6. undeleted' = {} =>
           \A t \in Topics, id, other \in Ids :
               HasTopic(disk'[id], t) /\ HasTopic(disk'[other], t) => id = other
    BY <1>0, <1>2 DEF TopicsIdentify, HasTopic
  <1>7. faults' = 0 => undeleted' = {} /\ \A id \in Ids : disk'[id].profile = promised'[id]
    BY <1>0, <1>2 DEF RowsInv, ProfileSurvives
  <1>8. RowsInv'
    BY <1>0, <1>3, <1>4, <1>5, <1>6, <1>7 DEF RowsInv, HasTopic
  <1>9. ProfileSurvives' /\ TopicsIdentify'
    BY <1>0 DEF ProfileSurvives, TopicsIdentify, HasTopic
  <1>10. QED
    BY <1>1, <1>2, <1>8, <1>9

(* A failed flush leaves the batch as it was, with the timer armed.        *)
LEMMA FailureKeepsRows ==
    ASSUME RegistryInv, up, ~disposed, disk' = disk, dirty' = dirty, timer' = TRUE,
           UNCHANGED <<up, disposed, mem, index, updates, restarts, promised, undeleted>>,
           faults < MaxFaults, faults' = faults + 1
    PROVE  RegistryInv'
  <1> USE Shapes
  <1>1. faults' # 0 /\ faults' \in 0..MaxFaults
    BY DEF RegistryInv, TypeOK
  <1>2. TypeOK'
    BY <1>1 DEF RegistryInv, TypeOK
  <1>3. WriteBehind' /\ FlushIsArmed' /\ TopicsIdentify' /\ ProfileSurvives'
    BY <1>1 DEF RegistryInv, WriteBehind, FlushIsArmed, TopicsIdentify, ProfileSurvives,
       HasTopic
  <1>4. RowsInv'
    BY <1>1 DEF RegistryInv, RowsInv, Reserved, TopicIsMqtt, HasTopic
  <1>5. QED
    BY <1>2, <1>3, <1>4 DEF RegistryInv

LEMMA TimerKeepsInv == RegistryInv /\ TimerFires => RegistryInv'
  <1> SUFFICES ASSUME RegistryInv, TimerFires PROVE RegistryInv'
    OBVIOUS
  <1> USE Shapes
  <1>0. TypeOK /\ RowsInv /\ WriteBehind
    BY DEF RegistryInv
  <1>1. CASE disposed
    <2>1. dirty = Nothing
      BY <1>0, <1>1 DEF RowsInv
    <2>2. dirty' = Nothing /\ disk' = disk /\ faults' = faults /\ timer' = FALSE
      <3>1. Written(dirty) = disk
        BY <1>0, <2>1 DEF Written, TypeOK
      <3>2. QED
        BY <2>1, <3>1 DEF TimerFires, Flush
    <2>3. UNCHANGED <<up, disposed, mem, index, updates, restarts, promised, undeleted>>
      BY DEF TimerFires
    <2>4. TypeOK'
      BY <1>0, <2>2, <2>3, Zenon DEF TypeOK
    <2>5. RowsInv'
      BY <1>0, <2>1, <2>2, <2>3 DEF RowsInv, Reserved, TopicIsMqtt, HasTopic
    <2>6. WriteBehind' /\ FlushIsArmed' /\ TopicsIdentify' /\ ProfileSurvives'
      BY <1>1, <2>2, <2>3 DEF RegistryInv, WriteBehind, FlushIsArmed, TopicsIdentify,
         ProfileSurvives, HasTopic
    <2>7. QED
      BY <2>4, <2>5, <2>6 DEF RegistryInv
  <1>2. CASE ~disposed
    <2>1. CASE faults' = faults + 1
      <3>1. faults' # faults
        BY <1>0, <2>1 DEF TypeOK
      <3>2. /\ disk' = disk /\ dirty' = dirty /\ timer' = TRUE /\ faults < MaxFaults /\ up
            /\ UNCHANGED <<up, disposed, mem, index, updates, restarts, promised, undeleted>>
        BY <3>1 DEF TimerFires, Flush
      <3>3. QED
        BY <1>2, <2>1, <3>2, FailureKeepsRows
    <2>2. CASE faults' # faults + 1
      <3>1. /\ disk' = Written(dirty) /\ dirty' = Nothing /\ timer' = FALSE
            /\ faults' = faults
            /\ UNCHANGED <<up, disposed, mem, index, updates, restarts, promised, undeleted>>
            /\ up
        BY <2>2 DEF TimerFires, Flush
      <3>2. /\ disk' \in [Ids -> Device]
            /\ \A id \in Ids : \/ mem[id] = disk'[id]
                               \/ id \in undeleted /\ mem[id] = NoDevice
            /\ RowsInv' /\ ProfileSurvives' /\ TopicsIdentify'
        BY <1>2, <3>1, WriteKeepsRows
      <3>3. TypeOK'
        BY <1>0, <3>1, <3>2, Zenon DEF TypeOK
      <3>4. WriteBehind' /\ FlushIsArmed'
        BY <3>1, <3>2 DEF WriteBehind, FlushIsArmed
      <3>5. QED
        BY <3>2, <3>3, <3>4 DEF RegistryInv
    <2>3. QED
      BY <2>1, <2>2
  <1>3. QED
    BY <1>1, <1>2

LEMMA DisposeKeepsInv == RegistryInv /\ Dispose => RegistryInv'
  <1> SUFFICES ASSUME RegistryInv, Dispose PROVE RegistryInv'
    OBVIOUS
  <1> USE Shapes
  <1>0. /\ TypeOK /\ RowsInv
        /\ disposed' = TRUE /\ dirty' = Nothing /\ timer' = FALSE /\ up /\ ~disposed
        /\ UNCHANGED <<up, mem, index, updates, restarts, promised, undeleted>>
    BY DEF RegistryInv, Dispose
  <1>1. WriteBehind' /\ FlushIsArmed'
    BY <1>0 DEF WriteBehind, FlushIsArmed
  <1>2. CASE faults' = faults + 1
    <2>1. disk' = disk /\ faults' # 0 /\ faults' \in 0..MaxFaults
      BY <1>0, <1>2 DEF Dispose, TypeOK
    <2>2. TypeOK'
      BY <1>0, <2>1, Zenon DEF TypeOK
    <2>3. RowsInv' /\ TopicsIdentify' /\ ProfileSurvives'
      BY <1>0, <2>1 DEF RegistryInv, RowsInv, TopicsIdentify, ProfileSurvives, Reserved,
         TopicIsMqtt, HasTopic
    <2>4. QED
      BY <1>1, <2>2, <2>3 DEF RegistryInv
  <1>3. CASE faults' # faults + 1
    <2>1. disk' = Written(dirty) /\ faults' = faults
      BY <1>3 DEF Dispose
    <2>2. disk' \in [Ids -> Device] /\ RowsInv' /\ ProfileSurvives' /\ TopicsIdentify'
      BY <1>0, <2>1, WriteKeepsRows
    <2>3. TypeOK'
      BY <1>0, <2>1, <2>2, Zenon DEF TypeOK
    <2>4. QED
      BY <1>1, <2>2, <2>3 DEF RegistryInv
  <1>4. QED
    BY <1>2, <1>3

-----------------------------------------------------------------------------
(* What makes an update of a device harmless to the index: it keeps the    *)
(* device's topic, and takes no topic that another device has.             *)
Harmless(id, device) ==
    /\ device \in Device /\ device # NoDevice
    /\ device.profile = mem[id].profile
    /\ device.topic # None => device.mqtt
    /\ \A t \in Topics : id = HashedId[t] => HasTopic(device, t)
    /\ \A t \in Topics : HasTopic(mem[id], t) => device.topic = t
    /\ undeleted = {} =>
           \A t \in Topics, other \in Ids \ {id} :
               device.topic = t => ~HasTopic(mem[other], t)

LEMMA StoreKeepsInv ==
    ASSUME RegistryInv, NEW id \in Ids, NEW device, Harmless(id, device), Store(id, device)
    PROVE  RegistryInv'
  <1> USE Shapes
  <1>0. TypeOK /\ WriteBehind /\ FlushIsArmed /\ TopicsIdentify /\ ProfileSurvives /\ RowsInv
    BY DEF RegistryInv
  <1>1. /\ up /\ up' = up /\ disposed' = disposed /\ updates < MaxUpdates
        /\ updates' = updates + 1
        /\ mem' = [mem EXCEPT ![id] = device]
        /\ index' = IF device.mqtt /\ device.topic # None
                       THEN [index EXCEPT ![device.topic] = id] ELSE index
        /\ UNCHANGED <<restarts, promised, undeleted, disk, faults>>
        /\ dirty' = IF disposed THEN dirty ELSE [dirty EXCEPT ![id] = device]
        /\ timer' = IF disposed THEN timer ELSE TRUE
    BY DEF Store, SchedulePersist
  <1>2. /\ device \in Device /\ device # NoDevice /\ device.profile = mem[id].profile
        /\ device.topic \in Topics \cup {None}
        /\ device.topic # None => device.mqtt
    BY DEF Harmless, Device
  <1>3. /\ mem' \in [Ids -> Device] /\ mem'[id] = device
        /\ \A x \in Ids \ {id} : mem'[x] = mem[x]
    BY <1>0, <1>1, <1>2 DEF TypeOK
  <1>4. /\ dirty' \in [Ids -> Device] /\ (~disposed => dirty'[id] = device)
        /\ \A x \in Ids \ {id} : dirty'[x] = dirty[x]
        /\ disposed => dirty' = dirty
    BY <1>0, <1>1, <1>2 DEF TypeOK
  <1>5. /\ index' \in [Topics -> Ids \cup {None}]
        /\ \A t \in Topics : index'[t] = IF device.topic = t THEN id ELSE index[t]
    BY <1>0, <1>1, <1>2 DEF TypeOK
  <1>6. TypeOK'
    <2>1. updates' \in 0..MaxUpdates
      BY <1>0, <1>1 DEF TypeOK
    <2>2. timer' \in BOOLEAN
      BY <1>0, <1>1, Zenon DEF TypeOK
    <2>3. QED
      BY <1>0, <1>1, <1>3, <1>4, <1>5, <2>1, <2>2, Zenon DEF TypeOK
  <1>7. WriteBehind'
    <2> SUFFICES ASSUME ~disposed, NEW x \in Ids
                 PROVE  \/ mem'[x] = IF dirty'[x] # NoDevice THEN dirty'[x] ELSE disk'[x]
                        \/ x \in undeleted' /\ mem'[x] = NoDevice /\ dirty'[x] = NoDevice
      BY <1>1 DEF WriteBehind
    <2>1. CASE x = id
      BY <1>2, <1>3, <1>4, <2>1
    <2>2. CASE x # id
      BY <1>0, <1>1, <1>3, <1>4, <2>2 DEF WriteBehind
    <2>3. QED
      BY <2>1, <2>2
  <1>8. FlushIsArmed'
    BY <1>0, <1>1, <1>4 DEF FlushIsArmed
  <1>9. ASSUME NEW t \in Topics, index'[t] # None PROVE HasTopic(mem'[index'[t]], t)
    <2>1. CASE device.topic = t
      BY <1>2, <1>3, <1>5, <2>1 DEF HasTopic
    <2>2. CASE device.topic # t
      <3>1. index'[t] = index[t] /\ HasTopic(mem[index[t]], t) /\ index[t] \in Ids
        BY <1>0, <1>5, <1>9, <2>2 DEF RowsInv, TypeOK
      <3>2. index[t] # id
        BY <2>2, <3>1 DEF Harmless
      <3>3. QED
        BY <1>3, <3>1, <3>2 DEF HasTopic
    <2>3. QED
      BY <2>1, <2>2
  <1>10. TopicsIdentify'
    <2> SUFFICES ASSUME undeleted = {}, NEW t \in Topics, NEW x \in Ids
                 PROVE  index'[t] = x <=> HasTopic(mem'[x], t)
      BY <1>1 DEF TopicsIdentify
    <2>1. index'[t] = x => HasTopic(mem'[x], t)
      BY <1>9
    <2>2. ASSUME HasTopic(mem'[x], t) PROVE index'[t] = x
      <3>1. CASE x = id
        BY <1>3, <1>5, <2>2, <3>1 DEF HasTopic
      <3>2. CASE x # id
        <4>1. HasTopic(mem[x], t)
          BY <1>3, <2>2, <3>2 DEF HasTopic
        <4>2. index[t] = x /\ device.topic # t
          BY <1>0, <1>1, <3>2, <4>1 DEF TopicsIdentify, Harmless
        <4>3. QED
          BY <1>5, <4>2
      <3>3. QED
        BY <3>1, <3>2
    <2>3. QED
      BY <2>1, <2>2
  <1>11. ProfileSurvives'
    BY <1>0, <1>1, <1>2, <1>3 DEF ProfileSurvives
  <1>12. RowsInv'
    <2>1. Reserved(mem)' /\ Reserved(dirty)' /\ Reserved(disk)'
      BY <1>0, <1>1, <1>3, <1>4 DEF RowsInv, Reserved, Harmless, HasTopic
    <2>2. TopicIsMqtt(mem)' /\ TopicIsMqtt(dirty)' /\ TopicIsMqtt(disk)'
      BY <1>0, <1>1, <1>2, <1>3, <1>4 DEF RowsInv, TopicIsMqtt
    <2>3. ~up' \/ disposed' => dirty' = Nothing
      BY <1>0, <1>1, <1>4 DEF RowsInv
    <2>4. QED
      BY <1>0, <1>1, <1>9, <2>1, <2>2, <2>3 DEF RowsInv, HasTopic
  <1>13. QED
    BY <1>6, <1>7, <1>8, <1>10, <1>11, <1>12 DEF RegistryInv

LEMMA UpsertConnectorKeepsInv ==
    ASSUME RegistryInv, NEW id \in ConnectorIds, UpsertConnector(id)
    PROVE  RegistryInv'
  <1> USE Shapes
  <1>0. TypeOK /\ TopicsIdentify /\ RowsInv /\ id \in Ids
    BY RegistryAssumption DEF RegistryInv, RegistryAssumption
  <1> DEFINE device == [mem[id] EXCEPT !.owned = TRUE, !.version = updates + 1]
  <1>1. Store(id, device)
    BY DEF UpsertConnector
  <1>2. updates + 1 \in 0..MaxUpdates /\ up
    BY <1>0, <1>1 DEF Store, TypeOK
  <1>3. /\ device \in Device /\ device.owned /\ device.profile = mem[id].profile
        /\ device.topic = mem[id].topic /\ device.mqtt = mem[id].mqtt
    BY <1>0, <1>2, ZenonT(60) DEF TypeOK, Device
  <1>4. \A t \in Topics : id # HashedId[t]
    BY RegistryAssumption, Zenon DEF RegistryAssumption
  <1>5. device.topic # None => device.mqtt
    BY <1>0, <1>3 DEF RowsInv, TopicIsMqtt
  <1> HIDE DEF device
  <1>6. undeleted = {} =>
           \A t \in Topics, other \in Ids \ {id} :
               device.topic = t => ~HasTopic(mem[other], t)
    <2> SUFFICES ASSUME undeleted = {}, NEW t \in Topics, NEW other \in Ids \ {id},
                        device.topic = t, HasTopic(mem[other], t)
                 PROVE  FALSE
      OBVIOUS
    <2>1. HasTopic(mem[id], t)
      BY <1>3, <1>5 DEF HasTopic
    <2>2. index[t] = id /\ index[t] = other
      BY <1>0, <1>2, <2>1 DEF TopicsIdentify
    <2>3. QED
      BY <2>2
  <1>7. Harmless(id, device)
    BY <1>3, <1>4, <1>5, <1>6 DEF Harmless, HasTopic
  <1>8. QED
    BY <1>0, <1>1, <1>7, StoreKeepsInv

LEMMA UpsertMqttKeepsInv ==
    ASSUME RegistryInv, NEW topic \in Topics, UpsertMqtt(topic)
    PROVE  RegistryInv'
  <1> USE Shapes
  <1>0. TypeOK /\ TopicsIdentify /\ RowsInv
    BY DEF RegistryInv
  <1>1. PICK id : id = ResolveMqttDeviceId(topic)
    OBVIOUS
  <1>2. id \in Ids /\ mem[id] \in Device
    BY <1>0, <1>1 DEF ResolveMqttDeviceId, TypeOK
  <1> DEFINE device == [mem[id] EXCEPT !.mqtt = (mem[id] = NoDevice) \/ @,
                                       !.topic = topic, !.version = updates + 1]
  <1>3. Store(id, device)
    BY <1>1 DEF UpsertMqtt
  <1>4. updates + 1 \in 0..MaxUpdates /\ up
    BY <1>0, <1>3 DEF Store, TypeOK
  <1>5. /\ device \in Device /\ device.topic = topic /\ device.profile = mem[id].profile
        /\ device.mqtt = ((mem[id] = NoDevice) \/ mem[id].mqtt)
    BY <1>2, <1>4, Zenon DEF Device
  <1> HIDE DEF device
  (* The device found was free, without a topic, or has this topic.        *)
  <1>6. \/ mem[id] = NoDevice
        \/ HasTopic(mem[id], None)
        \/ HasTopic(mem[id], topic)
    <2>1. CASE index[topic] # None /\ mem[index[topic]] # NoDevice
      BY <1>0, <1>1, <2>1 DEF ResolveMqttDeviceId, RowsInv
    <2>2. CASE ~(index[topic] # None /\ mem[index[topic]] # NoDevice)
      BY <1>0, <1>1, <2>2 DEF ResolveMqttDeviceId, RowsInv, Reserved
    <2>3. QED
      BY <2>1, <2>2
  <1>7. device.mqtt
    BY <1>5, <1>6, Zenon DEF HasTopic
  <1>8. \A t \in Topics : id = HashedId[t] => t = topic
    <2> SUFFICES ASSUME NEW t \in Topics, id = HashedId[t] PROVE t = topic
      OBVIOUS
    <2>1. CASE id = index[topic] /\ mem[id] # NoDevice
      <3>1. HasTopic(mem[id], t)
        <4>1. Reserved(mem)
          BY <1>0 DEF RowsInv
        <4>2. QED
          BY <2>1, <4>1, Zenon DEF Reserved
      <3>2. index[topic] # None /\ HasTopic(mem[index[topic]], topic)
        BY <1>0, <1>2, <2>1 DEF RowsInv
      <3>3. QED
        BY <2>1, <3>1, <3>2 DEF HasTopic
    <2>2. CASE id = LegacyId[topic]
      BY <2>2, RegistryAssumption, Zenon DEF RegistryAssumption
    <2>3. CASE id = HashedId[topic]
      BY <2>3, RegistryAssumption, Zenon DEF RegistryAssumption
    <2>4. \/ id = index[topic] /\ mem[id] # NoDevice
          \/ id = LegacyId[topic]
          \/ id = HashedId[topic]
      BY <1>1, Zenon DEF ResolveMqttDeviceId
    <2>5. QED
      BY <2>1, <2>2, <2>3, <2>4
  <1>9. \A t \in Topics : HasTopic(mem[id], t) => t = topic
    BY <1>6 DEF HasTopic
  (* If another device had the topic, the index would have led there.      *)
  <1>10. undeleted = {} => \A other \in Ids \ {id} : ~HasTopic(mem[other], topic)
    <2> SUFFICES ASSUME undeleted = {}, NEW other \in Ids \ {id}, HasTopic(mem[other], topic)
                 PROVE  FALSE
      OBVIOUS
    <2>1. index[topic] = other /\ other # None /\ mem[other] # NoDevice
      BY <1>0, <1>4 DEF TopicsIdentify, HasTopic
    <2>2. QED
      BY <1>1, <2>1 DEF ResolveMqttDeviceId
  <1>11. Harmless(id, device)
    BY <1>5, <1>7, <1>8, <1>9, <1>10 DEF Harmless, HasTopic
  <1>12. QED
    BY <1>2, <1>3, <1>11, StoreKeepsInv

LEMMA StopKeepsInv == RegistryInv /\ Stop => RegistryInv'
  <1> SUFFICES ASSUME RegistryInv, Stop PROVE RegistryInv'
    OBVIOUS
  <1> USE Shapes
  <1>1. TypeOK'
    <2>1. restarts' \in 0..MaxRestarts
      BY DEF RegistryInv, Stop, TypeOK
    <2>2. mem' \in [Ids -> Device] /\ dirty' \in [Ids -> Device]
      BY DEF Stop
    <2>3. index' \in [Topics -> Ids \cup {None}]
      BY DEF Stop
    <2>4. up' \in BOOLEAN /\ timer' \in BOOLEAN
      BY Zenon DEF Stop
    <2>5. QED
      BY <2>1, <2>2, <2>3, <2>4 DEF RegistryInv, Stop, TypeOK
  <1>2. WriteBehind' /\ FlushIsArmed' /\ TopicsIdentify' /\ ProfileSurvives'
    BY DEF Stop, WriteBehind, FlushIsArmed, TopicsIdentify, ProfileSurvives
  <1>3. RowsInv'
    BY DEF RegistryInv, Stop, RowsInv, Reserved, TopicIsMqtt, HasTopic
  <1>4. QED
    BY <1>1, <1>2, <1>3 DEF RegistryInv

LEMMA RestartKeepsInv == RegistryInv /\ Restart => RegistryInv'
  <1> SUFFICES ASSUME RegistryInv, Restart PROVE RegistryInv'
    OBVIOUS
  <1> USE Shapes
  <1>0. /\ TypeOK /\ RowsInv /\ ~up /\ up' /\ ~disposed' /\ mem' = disk
        /\ dirty = Nothing
        /\ UNCHANGED <<dirty, timer, disk, updates, faults, restarts, promised, undeleted>>
    BY DEF RegistryInv, Restart, LoadFromDb, RowsInv
  <1>1. /\ index' \in [Topics -> Ids \cup {None}]
        /\ \A t \in Topics :
              \/ index'[t] = None /\ \A id \in Ids : ~HasTopic(disk[id], t)
              \/ index'[t] \in Ids /\ HasTopic(disk[index'[t]], t)
    BY DEF Restart, LoadFromDb
  <1>2. TypeOK'
    BY <1>0, <1>1, Zenon DEF TypeOK, Restart
  <1>3. WriteBehind' /\ FlushIsArmed' /\ ProfileSurvives'
    BY <1>0 DEF WriteBehind, FlushIsArmed, ProfileSurvives, RowsInv
  <1>4. TopicsIdentify'
    BY <1>0, <1>1 DEF TopicsIdentify, RowsInv
  <1>5. RowsInv'
    <2>1. Reserved(mem)' /\ Reserved(dirty)' /\ Reserved(disk)'
      BY <1>0 DEF RowsInv, Reserved
    <2>2. TopicIsMqtt(mem)' /\ TopicIsMqtt(dirty)' /\ TopicIsMqtt(disk)'
      BY <1>0 DEF RowsInv, TopicIsMqtt
    <2>3. QED
      BY <1>0, <1>1, <2>1, <2>2 DEF RowsInv
  <1>6. QED
    BY <1>2, <1>3, <1>4, <1>5 DEF RegistryInv

LEMMA RemoveKeepsInv ==
    ASSUME RegistryInv, NEW id \in Ids, Remove(id)
    PROVE  RegistryInv'
  <1> USE Shapes
  <1>0. TypeOK /\ WriteBehind /\ FlushIsArmed /\ TopicsIdentify /\ ProfileSurvives /\ RowsInv
    BY DEF RegistryInv
  <1>1. /\ up /\ UNCHANGED <<up, disposed, timer, updates, restarts>>
        /\ mem' = [mem EXCEPT ![id] = NoDevice]
        /\ index' = [t \in Topics |-> IF HasTopic(mem[id], t) THEN None ELSE index[t]]
        /\ dirty' = [dirty EXCEPT ![id] = NoDevice]
        /\ promised' = [promised EXCEPT ![id] = 0]
    BY DEF Remove
  <1>2. /\ mem' \in [Ids -> Device] /\ mem'[id] = NoDevice
        /\ dirty' \in [Ids -> Device] /\ dirty'[id] = NoDevice
        /\ promised' \in [Ids -> 0..MaxUpdates] /\ promised'[id] = 0
        /\ \A x \in Ids \ {id} :
              mem'[x] = mem[x] /\ dirty'[x] = dirty[x] /\ promised'[x] = promised[x]
    <2>1. 0 \in 0..MaxUpdates
      OBVIOUS
    <2>2. QED
      BY <1>0, <1>1, <2>1 DEF TypeOK
  <1>3. /\ index' \in [Topics -> Ids \cup {None}]
        /\ \A t \in Topics : index'[t] = IF HasTopic(mem[id], t) THEN None ELSE index[t]
    BY <1>0, <1>1 DEF TypeOK
  <1>4. dirty = Nothing => dirty' = Nothing
    BY <1>1 DEF Nothing
  (* The DELETE succeeds, or it fails and is remembered.                   *)
  <1>5. /\ disk' \in [Ids -> Device] /\ \A x \in Ids \ {id} : disk'[x] = disk[x]
        /\ faults' \in 0..MaxFaults /\ undeleted' \subseteq Ids
        /\ undeleted \subseteq undeleted'
        /\ \/ disk'[id] = NoDevice /\ faults' = faults /\ undeleted' = undeleted
           \/ disk' = disk /\ faults' # 0 /\ id \in undeleted'
    <2>1. CASE disk' = [disk EXCEPT ![id] = NoDevice] /\ UNCHANGED <<faults, undeleted>>
      BY <1>0, <2>1 DEF TypeOK
    <2>2. CASE /\ faults < MaxFaults /\ faults' = faults + 1
               /\ undeleted' = undeleted \cup {id} /\ disk' = disk
      BY <1>0, <2>2 DEF TypeOK
    <2>3. QED
      BY <2>1, <2>2 DEF Remove
  <1>6. TypeOK'
    BY <1>0, <1>1, <1>2, <1>3, <1>5 DEF TypeOK
  <1>7. WriteBehind'
    <2> SUFFICES ASSUME ~disposed, NEW x \in Ids
                 PROVE  \/ mem'[x] = IF dirty'[x] # NoDevice THEN dirty'[x] ELSE disk'[x]
                        \/ x \in undeleted' /\ mem'[x] = NoDevice /\ dirty'[x] = NoDevice
      BY <1>1 DEF WriteBehind
    <2>1. CASE x = id
      BY <1>2, <1>5, <2>1
    <2>2. CASE x # id
      BY <1>0, <1>1, <1>2, <1>5, <2>2 DEF WriteBehind
    <2>3. QED
      BY <2>1, <2>2
  <1>8. FlushIsArmed'
    BY <1>0, <1>1, <1>4 DEF FlushIsArmed
  <1>9. ASSUME NEW t \in Topics, index'[t] # None PROVE HasTopic(mem'[index'[t]], t)
    <2>1. index'[t] = index[t] /\ HasTopic(mem[index[t]], t) /\ index[t] # id /\ index[t] \in Ids
      BY <1>0, <1>3, <1>9 DEF RowsInv, TypeOK
    <2>2. QED
      BY <1>2, <2>1
  <1>10. TopicsIdentify'
    <2> SUFFICES ASSUME undeleted' = {}, NEW t \in Topics, NEW x \in Ids
                 PROVE  index'[t] = x <=> HasTopic(mem'[x], t)
      BY <1>1 DEF TopicsIdentify
    <2>1. index'[t] = x => HasTopic(mem'[x], t)
      BY <1>9
    <2>2. ASSUME HasTopic(mem'[x], t) PROVE index'[t] = x
      <3>1. x # id /\ HasTopic(mem[x], t)
        BY <1>2, <2>2 DEF HasTopic
      <3>2. undeleted = {}
        BY <1>5
      <3>3. index[t] = x /\ ~HasTopic(mem[id], t)
        BY <1>0, <1>1, <3>1, <3>2 DEF TopicsIdentify
      <3>4. QED
        BY <1>3, <3>3
    <2>3. QED
      BY <2>1, <2>2
  <1>11. ProfileSurvives'
    BY <1>0, <1>1, <1>2, <1>5 DEF ProfileSurvives
  <1>12. RowsInv'
    <2>1. Reserved(mem)' /\ Reserved(dirty)' /\ Reserved(disk)'
      BY <1>0, <1>2, <1>5 DEF RowsInv, Reserved
    <2>2. TopicIsMqtt(mem)' /\ TopicIsMqtt(dirty)' /\ TopicIsMqtt(disk)'
      BY <1>0, <1>2, <1>5 DEF RowsInv, TopicIsMqtt
    <2>3. ~up' \/ disposed' => dirty' = Nothing
      BY <1>0, <1>1, <1>4 DEF RowsInv
    <2>4. undeleted' = {} =>
             \A t \in Topics, x, other \in Ids :
                 HasTopic(disk'[x], t) /\ HasTopic(disk'[other], t) => x = other
      <3> SUFFICES ASSUME undeleted' = {}, NEW t \in Topics, NEW x \in Ids, NEW other \in Ids,
                          HasTopic(disk'[x], t), HasTopic(disk'[other], t)
                   PROVE  x = other
        OBVIOUS
      <3>1. undeleted = {} /\ disk'[id] = NoDevice
        BY <1>5
      <3>2. x # id /\ other # id
        BY <3>1 DEF HasTopic
      <3>3. QED
        BY <1>0, <1>5, <3>1, <3>2 DEF RowsInv
    <2>5. faults' = 0 => undeleted' = {} /\ \A x \in Ids : disk'[x].profile = promised'[x]
      BY <1>0, <1>2, <1>5 DEF RowsInv
    <2>6. QED
      BY <1>9, <2>1, <2>2, <2>3, <2>4, <2>5 DEF RowsInv
  <1>13. QED
    BY <1>6, <1>7, <1>8, <1>10, <1>11, <1>12 DEF RegistryInv

LEMMA SetProfileKeepsInv ==
    ASSUME RegistryInv, NEW id \in Ids, SetMqttCommandProfile(id)
    PROVE  RegistryInv'
  <1> USE Shapes
  <1>0. TypeOK /\ WriteBehind /\ TopicsIdentify /\ ProfileSurvives /\ RowsInv
    BY DEF RegistryInv
  <1>1. PICK device : device = [mem[id] EXCEPT !.profile = updates + 1]
    BY Zenon
  <1>2. PICK batch : batch = [dirty EXCEPT ![id] = device]
    BY Zenon
  <1>3. /\ up /\ ~disposed /\ updates < MaxUpdates /\ mem[id].mqtt
        /\ updates' = updates + 1
        /\ mem' = [mem EXCEPT ![id] = device]
        /\ promised' = [promised EXCEPT ![id] = updates + 1]
        /\ Flush(batch, TRUE)
        /\ UNCHANGED <<up, disposed, index, restarts, undeleted>>
    BY <1>1, <1>2, Zenon DEF SetMqttCommandProfile
  <1>4. updates' \in 0..MaxUpdates /\ updates' # 0
    BY <1>0, <1>3 DEF TypeOK
  <1>5. /\ device \in Device /\ device.mqtt = mem[id].mqtt /\ device.topic = mem[id].topic
        /\ device.profile = updates'
    BY <1>0, <1>1, <1>3, <1>4, Zenon DEF TypeOK, Device
  <1>6. device # NoDevice /\ mem[id] # NoDevice
    BY <1>3, <1>5, Zenon
  <1>7. /\ mem' \in [Ids -> Device] /\ mem'[id] = device
        /\ batch \in [Ids -> Device] /\ batch[id] = device
        /\ promised' \in [Ids -> 0..MaxUpdates] /\ promised'[id] = updates'
        /\ \A x \in Ids \ {id} :
              mem'[x] = mem[x] /\ batch[x] = dirty[x] /\ promised'[x] = promised[x]
    BY <1>0, <1>2, <1>3, <1>4, <1>5 DEF TypeOK
  <1>8. \A x \in Ids, t \in Topics : HasTopic(mem'[x], t) <=> HasTopic(mem[x], t)
    BY <1>5, <1>7 DEF HasTopic
  <1>9. Reserved(mem)' /\ TopicIsMqtt(mem)'
    <2>1. Reserved(mem) /\ TopicIsMqtt(mem)
      BY <1>0 DEF RowsInv
    <2>2. \A x \in Ids : mem'[x] # NoDevice => mem[x] # NoDevice
      BY <1>6, <1>7
    <2>3. Reserved(mem)'
      BY <1>8, <2>1, <2>2 DEF Reserved
    <2>4. TopicIsMqtt(mem)'
      BY <1>3, <1>5, <1>7, <2>1, Zenon DEF TopicIsMqtt
    <2>5. QED
      BY <2>3, <2>4
  <1>10. Reserved(batch) /\ TopicIsMqtt(batch)
    <2>1. /\ Reserved(mem) /\ TopicIsMqtt(mem)
          /\ Reserved(dirty) /\ TopicIsMqtt(dirty)
      BY <1>0 DEF RowsInv
    <2>2. ASSUME NEW t \in Topics, batch[HashedId[t]] # NoDevice
          PROVE  HasTopic(batch[HashedId[t]], t)
      <3>1. CASE HashedId[t] = id
        <4>1. HasTopic(mem[id], t)
          BY <1>6, <2>1, <3>1, Zenon DEF Reserved
        <4>2. QED
          BY <1>5, <1>7, <3>1, <4>1, Zenon DEF HasTopic
      <3>2. CASE HashedId[t] # id
        BY <1>7, <2>1, <2>2, <3>2 DEF Reserved
      <3>3. QED
        BY <3>1, <3>2
    <2>3. TopicIsMqtt(batch)
      BY <1>3, <1>5, <1>7, <2>1, ZenonT(60) DEF TopicIsMqtt
    <2>4. QED
      BY <2>2, <2>3 DEF Reserved
  <1>11. \A t \in Topics : index'[t] # None => HasTopic(mem'[index'[t]], t)
    BY <1>0, <1>3, <1>8 DEF RowsInv, TypeOK
  <1>12. TopicsIdentify' /\ ProfileSurvives'
    <2>1. TopicsIdentify'
      BY <1>0, <1>3, <1>8 DEF TopicsIdentify
    <2>2. faults' = 0 => faults = 0
      BY <1>0, <1>3 DEF Flush, TypeOK
    <2>3. ProfileSurvives'
      BY <1>0, <1>3, <1>5, <1>7, <2>2 DEF ProfileSurvives
    <2>4. QED
      BY <2>1, <2>3
  (* The batch, with the new profile, over the table is memory.            *)
  <1>13. \A x \in Ids :
            \/ mem'[x] = IF batch[x] # NoDevice THEN batch[x] ELSE disk[x]
            \/ x \in undeleted /\ mem'[x] = NoDevice /\ batch[x] = NoDevice
    <2> SUFFICES ASSUME NEW x \in Ids
                 PROVE  \/ mem'[x] = IF batch[x] # NoDevice THEN batch[x] ELSE disk[x]
                        \/ x \in undeleted /\ mem'[x] = NoDevice /\ batch[x] = NoDevice
      OBVIOUS
    <2>1. CASE x = id
      BY <1>6, <1>7, <2>1
    <2>2. CASE x # id
      BY <1>0, <1>3, <1>7, <2>2 DEF WriteBehind
    <2>3. QED
      BY <2>1, <2>2
  <1>14. CASE /\ faults < MaxFaults /\ faults' = faults + 1
              /\ dirty' = batch /\ timer' = TRUE /\ disk' = disk
    <2>1. faults' # 0 /\ faults' \in 0..MaxFaults
      BY <1>0, <1>14 DEF TypeOK
    <2>2. TypeOK'
      BY <1>0, <1>3, <1>4, <1>7, <1>14, <2>1 DEF TypeOK
    <2>3. WriteBehind' /\ FlushIsArmed'
      BY <1>3, <1>13, <1>14 DEF WriteBehind, FlushIsArmed
    <2>4. RowsInv'
      BY <1>0, <1>3, <1>9, <1>10, <1>11, <1>14, <2>1 DEF RowsInv, Reserved, TopicIsMqtt
    <2>5. QED
      BY <1>12, <2>2, <2>3, <2>4 DEF RegistryInv
  <1>15. CASE /\ disk' = Written(batch) /\ dirty' = Nothing /\ timer' = TRUE
              /\ faults' = faults
    <2>1. /\ disk' \in [Ids -> Device]
          /\ \A x \in Ids : disk'[x] = IF batch[x] # NoDevice THEN batch[x] ELSE disk[x]
      BY <1>0, <1>7, <1>15, WrittenIs
    <2>2. \A x \in Ids : mem'[x] = disk'[x] \/ (x \in undeleted /\ mem'[x] = NoDevice)
      BY <1>13, <2>1
    <2>3. TypeOK'
      BY <1>0, <1>3, <1>4, <1>7, <1>15, <2>1 DEF TypeOK
    <2>4. WriteBehind' /\ FlushIsArmed'
      BY <1>3, <1>15, <2>2 DEF WriteBehind, FlushIsArmed
    <2>5. Reserved(disk)' /\ TopicIsMqtt(disk)' /\ Reserved(dirty)' /\ TopicIsMqtt(dirty)'
      BY <1>0, <1>10, <1>15, <2>1 DEF RowsInv, Reserved, TopicIsMqtt
    <2>6. undeleted' = {} =>
             \A t \in Topics, x, other \in Ids :
                 HasTopic(disk'[x], t) /\ HasTopic(disk'[other], t) => x = other
      <3> SUFFICES ASSUME undeleted' = {}, NEW t \in Topics, NEW x \in Ids, NEW other \in Ids,
                          HasTopic(disk'[x], t), HasTopic(disk'[other], t)
                   PROVE  x = other
        OBVIOUS
      <3>1. HasTopic(mem'[x], t) /\ HasTopic(mem'[other], t)
        BY <1>3, <2>2
      <3>2. index'[t] = x /\ index'[t] = other
        BY <1>3, <1>12, <3>1 DEF TopicsIdentify
      <3>3. QED
        BY <3>2
    <2>7. faults' = 0 => undeleted' = {} /\ \A x \in Ids : disk'[x].profile = promised'[x]
      BY <1>0, <1>3, <1>12, <1>15, <2>2 DEF RowsInv, ProfileSurvives
    <2>8. RowsInv'
      BY <1>3, <1>9, <1>11, <1>15, <2>5, <2>6, <2>7 DEF RowsInv
    <2>9. QED
      BY <1>12, <2>3, <2>4, <2>8 DEF RegistryInv
  <1>16. QED
    BY <1>3, <1>14, <1>15, Zenon DEF Flush

-----------------------------------------------------------------------------
LEMMA NextKeepsInv == RegistryInv /\ [Next]_vars => RegistryInv'
  <1> SUFFICES ASSUME RegistryInv, [Next]_vars PROVE RegistryInv'
    OBVIOUS
  <1>1. CASE UNCHANGED vars
    <2>1. TypeOK' /\ WriteBehind' /\ FlushIsArmed' /\ TopicsIdentify' /\ ProfileSurvives'
      BY <1>1 DEF vars, RegistryInv, TypeOK, WriteBehind, FlushIsArmed, TopicsIdentify,
         ProfileSurvives, HasTopic
    <2>2. RowsInv'
      BY <1>1 DEF vars, RegistryInv, RowsInv, Reserved, TopicIsMqtt, HasTopic
    <2>3. QED
      BY <2>1, <2>2 DEF RegistryInv
  <1>2. CASE Next
    BY <1>2, UpsertMqttKeepsInv, UpsertConnectorKeepsInv, RemoveKeepsInv,
       SetProfileKeepsInv, TimerKeepsInv, DisposeKeepsInv, StopKeepsInv, RestartKeepsInv
       DEF Next
  <1>3. QED
    BY <1>1, <1>2

(* The registry's inductive invariant.                                     *)
THEOREM RegistryInvariant == Spec => []RegistryInv
  BY InitEstablishesInv, NextKeepsInv, PTL DEF Spec

(* Memory is what waits to be written, over what is in the table: the      *)
(* registry never forgets that a device has yet to be written.             *)
THEOREM NothingIsForgotten == Spec => []WriteBehind
  <1>1. RegistryInv => WriteBehind
    BY DEF RegistryInv
  <1>2. QED
    BY <1>1, RegistryInvariant, PTL

(* A batch that waits always has a timer that will flush it.               *)
THEOREM BatchesHaveTimers == Spec => []FlushIsArmed
  <1>1. RegistryInv => FlushIsArmed
    BY DEF RegistryInv
  <1>2. QED
    BY <1>1, RegistryInvariant, PTL

(* A topic names one device, whatever slugs collide and whatever restarts. *)
THEOREM TopicsNameDevices == Spec => []TopicsIdentify
  <1>1. RegistryInv => TopicsIdentify
    BY DEF RegistryInv
  <1>2. QED
    BY <1>1, RegistryInvariant, PTL

(* The two together: what the registry serves from memory is what the      *)
(* table has or will have, under its own topic.                            *)
THEOREM MemoryStaysExact == Spec => []MemoryIsExact
  <1>1. WriteBehind /\ TopicsIdentify => MemoryIsExact
    BY DEF MemoryIsExact
  <1>2. QED
    BY <1>1, NothingIsForgotten, TopicsNameDevices, PTL

(* A profile survives restarts as long as no write has failed.             *)
THEOREM ProfilesSurvive == Spec => []ProfileSurvives
  <1>1. RegistryInv => ProfileSurvives
    BY DEF RegistryInv
  <1>2. QED
    BY <1>1, RegistryInvariant, PTL
=============================================================================
