----------------------- MODULE ConnectorManagerProofs -----------------------
(***************************************************************************)
(* For any instances, types, devices and bounds: records and instances     *)
(* agree, intervals belong to instances, and an instance that nobody       *)
(* disabled keeps the handlers of its type unless some instance was        *)
(* disabled twice; the last instance takes them along, and no instance     *)
(* takes another's devices.                                                *)
(***************************************************************************)
EXTENDS ConnectorManager, FiniteSetTheorems, TLAPS

(* Fewer instances rely on a type after a step that adds none.             *)
LEMMA FewerRely ==
    ASSUME NEW A \in SUBSET Instances, NEW B \in SUBSET A
    PROVE  /\ Cardinality(A) \in Nat /\ Cardinality(B) \in Nat
           /\ Cardinality(B) <= Cardinality(A)
  <1>1. IsFiniteSet(A)
    BY ConnectorAssumption, FS_Subset DEF ConnectorAssumption
  <1>2. QED
    BY <1>1, FS_Subset, FS_CardinalityType

(* One more instance is at most one more to rely on the type.              *)
LEMMA OneMoreRelies ==
    ASSUME NEW A \in SUBSET Instances, NEW B \in SUBSET Instances, NEW i \in Instances,
           B \subseteq A \cup {i}
    PROVE  /\ Cardinality(A) \in Nat /\ Cardinality(B) \in Nat
           /\ Cardinality(B) <= Cardinality(A) + 1
  <1>1. IsFiniteSet(A)
    BY ConnectorAssumption, FS_Subset DEF ConnectorAssumption
  <1>2. Cardinality(A \cup {i}) <= Cardinality(A) + 1 /\ Cardinality(A) \in Nat
    <2>1. Cardinality(A) \in Nat
      BY <1>1, FS_CardinalityType
    <2>2. Cardinality(A \cup {i}) = IF i \in A THEN Cardinality(A) ELSE Cardinality(A) + 1
      BY <1>1, FS_AddElement
    <2>3. QED
      BY <2>1, <2>2
  <1>3. A \cup {i} \in SUBSET Instances
    OBVIOUS
  <1>4. Cardinality(B) <= Cardinality(A \cup {i}) /\ Cardinality(B) \in Nat
        /\ Cardinality(A \cup {i}) \in Nat
    BY <1>3, FewerRely
  <1>5. QED
    BY <1>2, <1>4

(* If an instance stops to rely on the type, the others are one fewer.     *)
LEMMA OneFewerRelies ==
    ASSUME NEW A \in SUBSET Instances, NEW i \in A, NEW B \in SUBSET (A \ {i})
    PROVE  /\ Cardinality(A) \in Nat /\ Cardinality(B) \in Nat
           /\ Cardinality(B) <= Cardinality(A) - 1
  <1>1. IsFiniteSet(A)
    BY ConnectorAssumption, FS_Subset DEF ConnectorAssumption
  <1>2. Cardinality(A \ {i}) = Cardinality(A) - 1 /\ Cardinality(A) \in Nat
    BY <1>1, FS_RemoveElement, FS_CardinalityType
  <1>3. A \ {i} \in SUBSET Instances
    OBVIOUS
  <1>4. Cardinality(B) <= Cardinality(A \ {i}) /\ Cardinality(B) \in Nat
    BY <1>3, FewerRely
  <1>5. QED
    BY <1>2, <1>4

(* The handlers and counts are as they were and nobody starts to rely on   *)
(* them.                                                                   *)
LEMMA CountFrame ==
    ASSUME TypeOK, CountInv, UNCHANGED <<count, handlers>>, live' \subseteq live,
           torn' = torn
    PROVE  CountInv'
  <1> SUFFICES ASSUME NEW t \in Types
               PROVE  /\ t \in handlers' <=> count'[t] > 0
                      /\ NobodyTornTwice' => count'[t] >= Cardinality(Relying(t)')
    BY DEF CountInv
  <1>1. t \in handlers <=> count[t] > 0
    BY DEF CountInv
  <1>2. NobodyTornTwice => count[t] >= Cardinality(Relying(t))
    BY DEF CountInv
  <1>3. Relying(t) \in SUBSET Instances /\ Relying(t)' \in SUBSET Relying(t)
    BY DEF Relying, TypeOK
  <1>4. /\ Cardinality(Relying(t)) \in Nat /\ Cardinality(Relying(t)') \in Nat
        /\ Cardinality(Relying(t)') <= Cardinality(Relying(t))
    BY <1>3, FewerRely
  <1>5. NobodyTornTwice' => NobodyTornTwice
    BY DEF NobodyTornTwice
  <1>6. count[t] \in Nat
    BY DEF TypeOK
  <1>7. QED
    BY <1>1, <1>2, <1>4, <1>5, <1>6

(* One more is counted, and at most that one starts to rely on the count.  *)
LEMMA CountUp ==
    ASSUME TypeOK, CountInv, NEW i \in Instances, RegisterContributions(TypeOf[i]),
           live' \subseteq live \cup {i}, live' \subseteq Instances, torn' = torn
    PROVE  CountInv'
  <1> SUFFICES ASSUME NEW t \in Types
               PROVE  /\ t \in handlers' <=> count'[t] > 0
                      /\ NobodyTornTwice' => count'[t] >= Cardinality(Relying(t)')
    BY DEF CountInv
  <1>0. TypeOf[i] \in Types /\ count[t] \in Nat
    BY ConnectorAssumption DEF ConnectorAssumption, TypeOK
  <1>1. t \in handlers <=> count[t] > 0
    BY DEF CountInv
  <1>2. NobodyTornTwice' => count[t] >= Cardinality(Relying(t))
    BY DEF CountInv, NobodyTornTwice
  <1>3. CASE t = TypeOf[i]
    <2>1. count'[t] = count[t] + 1 /\ t \in handlers'
      BY <1>0, <1>1, <1>3 DEF RegisterContributions, TypeOK
    <2>2. /\ Relying(t) \in SUBSET Instances /\ Relying(t)' \in SUBSET Instances
          /\ Relying(t)' \subseteq Relying(t) \cup {i}
      BY DEF Relying, TypeOK
    <2>3. /\ Cardinality(Relying(t)) \in Nat /\ Cardinality(Relying(t)') \in Nat
          /\ Cardinality(Relying(t)') <= Cardinality(Relying(t)) + 1
      BY <2>2, OneMoreRelies
    <2>4. QED
      BY <1>0, <1>2, <2>1, <2>3
  <1>4. CASE t # TypeOf[i]
    <2>1. count'[t] = count[t] /\ (t \in handlers' <=> t \in handlers)
      BY <1>0, <1>4 DEF RegisterContributions, TypeOK
    <2>2. Relying(t) \in SUBSET Instances /\ Relying(t)' \in SUBSET Relying(t)
      BY <1>4 DEF Relying, TypeOK
    <2>3. /\ Cardinality(Relying(t)) \in Nat /\ Cardinality(Relying(t)') \in Nat
          /\ Cardinality(Relying(t)') <= Cardinality(Relying(t))
      BY <2>2, FewerRely
    <2>4. QED
      BY <1>0, <1>1, <1>2, <2>1, <2>3
  <1>5. QED
    BY <1>3, <1>4

(* One fewer is counted; the instance that is being disabled relied on the *)
(* count, or is disabled a second time.                                    *)
LEMMA CountDown ==
    ASSUME TypeOK, CountInv, NEW i \in live, UnregisterContributions(TypeOf[i]),
           live' = live, torn' = [torn EXCEPT ![i] = @ + 1]
    PROVE  CountInv'
  <1> SUFFICES ASSUME NEW t \in Types
               PROVE  /\ t \in handlers' <=> count'[t] > 0
                      /\ NobodyTornTwice' => count'[t] >= Cardinality(Relying(t)')
    BY DEF CountInv
  <1>0. TypeOf[i] \in Types /\ count[t] \in Nat /\ i \in Instances /\ torn \in [Instances -> Nat]
    BY ConnectorAssumption, Zenon DEF ConnectorAssumption, TypeOK
  <1>1. t \in handlers <=> count[t] > 0
    BY DEF CountInv
  <1>2. NobodyTornTwice' => NobodyTornTwice /\ torn[i] = 0
    BY <1>0 DEF NobodyTornTwice
  <1>3. NobodyTornTwice' => count[t] >= Cardinality(Relying(t))
    BY <1>2 DEF CountInv
  <1>4. torn'[i] # 0 /\ \A j \in Instances : j # i => torn'[j] = torn[j]
    BY <1>0
  <1>5. Relying(t) \in SUBSET Instances
    BY DEF Relying, TypeOK
  <1>6. CASE t = TypeOf[i]
    <2>1. /\ count'[t] = IF count[t] > 0 THEN count[t] - 1 ELSE 0
          /\ t \in handlers' <=> count[t] > 1 /\ t \in handlers
      BY <1>0, <1>6 DEF UnregisterContributions, TypeOK
    <2>2. ASSUME NobodyTornTwice' PROVE count'[t] >= Cardinality(Relying(t)')
      <3>1. i \in Relying(t)
        BY <1>2, <1>6, <2>2 DEF Relying
      <3>2. Relying(t)' \in SUBSET (Relying(t) \ {i})
        BY <1>4, <1>0 DEF Relying, TypeOK
      <3>3. /\ Cardinality(Relying(t)) \in Nat /\ Cardinality(Relying(t)') \in Nat
            /\ Cardinality(Relying(t)') <= Cardinality(Relying(t)) - 1
        BY <1>5, <3>1, <3>2, OneFewerRelies
      <3>4. QED
        BY <1>0, <1>3, <2>1, <2>2, <3>3
    <2>3. QED
      BY <1>0, <1>1, <2>1, <2>2
  <1>7. CASE t # TypeOf[i]
    <2>1. count'[t] = count[t] /\ (t \in handlers' <=> t \in handlers)
      BY <1>0, <1>7 DEF UnregisterContributions, TypeOK
    <2>2. Relying(t)' \in SUBSET Relying(t)
      BY <1>0, <1>4, <1>7 DEF Relying, TypeOK
    <2>3. /\ Cardinality(Relying(t)) \in Nat /\ Cardinality(Relying(t)') \in Nat
          /\ Cardinality(Relying(t)') <= Cardinality(Relying(t))
      BY <1>5, <2>2, FewerRely
    <2>4. QED
      BY <1>0, <1>1, <1>3, <2>1, <2>3
  <1>8. QED
    BY <1>6, <1>7

-----------------------------------------------------------------------------
LEMMA BoundsAreNaturals ==
    /\ MaxDisables \in Nat /\ MaxPolls \in Nat /\ MaxActions \in Nat
    /\ MaxFaults \in Nat /\ MaxRestarts \in Nat
  BY ConnectorAssumption DEF ConnectorAssumption

LEMMA OwnersStayTyped ==
    ASSUME TypeOK, NEW i \in Instances
    PROVE  /\ \A found \in SUBSET Devices :
                 Claimed(found, i) \in [Devices -> Instances \cup {Absent, Unowned}]
           /\ \A removed \in SUBSET Devices :
                 Without(removed) \in [Devices -> Instances \cup {Absent, Unowned}]
           /\ Reach[i] \subseteq Devices /\ Owned(i) \subseteq Devices
           /\ TypeOf[i] \in Types
  BY ConnectorAssumption DEF ConnectorAssumption, TypeOK, Claimed, Without, Owned

LEMMA ContributionsStayTyped ==
    ASSUME TypeOK, NEW t \in Types, RegisterContributions(t) \/ UnregisterContributions(t)
    PROVE  count' \in [Types -> Nat] /\ handlers' \subseteq Types
  BY DEF TypeOK, RegisterContributions, UnregisterContributions

(* The requests of the API keep the types.                                 *)
LEMMA RequestsKeepTypes ==
    ASSUME TypeOK, NEW i \in Instances, Request(i)
    PROVE  TypeOK'
  <1> USE BoundsAreNaturals, OwnersStayTyped DEF process, contributions
  <1>1. CASE EnableStart(i)
    BY <1>1 DEF EnableStart, TypeOK
  <1>2. CASE EnableFinish(i)
    <2>1. PICK found \in SUBSET Reach[i] : BringUp(i, found)
      BY <1>2 DEF EnableFinish
    <2>2. count' \in [Types -> Nat] /\ handlers' \subseteq Types
      BY <2>1, ContributionsStayTyped DEF BringUp
    <2>3. /\ owner' \in [Devices -> Instances \cup {Absent, Unowned}]
          /\ seen' \in [Instances -> SUBSET Devices]
          /\ live' \subseteq Instances /\ polling' \subseteq Instances
      BY <2>1 DEF BringUp, TypeOK
    <2>4. QED
      BY <1>2, <2>2, <2>3, Zenon DEF EnableFinish, TypeOK
  <1>3. CASE EnableFails(i)
    <2>1. PICK found \in SUBSET Reach[i] : owner' = Claimed(found, i)
      BY <1>3 DEF EnableFails
    <2>2. count' \in [Types -> Nat] /\ handlers' \subseteq Types
      BY <1>3, ContributionsStayTyped DEF EnableFails
    <2>3. QED
      BY <1>3, <2>1, <2>2 DEF EnableFails, TypeOK
  <1>4. CASE DisableStart(i)
    <2>1. count' \in [Types -> Nat] /\ handlers' \subseteq Types
      BY <1>4, ContributionsStayTyped DEF DisableStart
    <2>2. QED
      BY <1>4, <2>1 DEF DisableStart, TypeOK
  <1>5. CASE DisableFinish(i)
    BY <1>5 DEF DisableFinish, TypeOK
  <1>6. CASE DisableFails(i)
    <2>1. PICK removed \in SUBSET Owned(i) : owner' = Without(removed)
      BY <1>6 DEF DisableFails
    <2>2. QED
      BY <1>6, <2>1 DEF DisableFails, TypeOK
  <1>7. CASE UpdateConfig(i)
    BY <1>7 DEF UpdateConfig, TypeOK
  <1>8. CASE RetryStart(i)
    BY <1>8 DEF RetryStart, TypeOK
  <1>9. CASE RetryFinish(i)
    <2>1. PICK found \in SUBSET Reach[i] :
             owner' = Claimed(found, i) /\ seen' = [seen EXCEPT ![i] = @ \cup found]
      BY <1>9, Zenon DEF RetryFinish
    <2>2. QED
      BY <1>9, <2>1 DEF RetryFinish, TypeOK
  <1>10. QED
    BY <1>1, <1>2, <1>3, <1>4, <1>5, <1>6, <1>7, <1>8, <1>9 DEF Request

(* So do polls, actions and the life of the process.                       *)
LEMMA OthersKeepTypes ==
    ASSUME TypeOK, Next, ~(\E i \in Instances : Request(i))
    PROVE  TypeOK'
  <1> USE BoundsAreNaturals DEF process, contributions
  <1>1. ASSUME NEW i \in Instances, PollStart(i) PROVE TypeOK'
    BY <1>1 DEF PollStart, TypeOK
  <1>2. ASSUME NEW i \in Instances, PollFinish(i) PROVE TypeOK'
    <2>1. PICK found \in SUBSET Reach[i] :
             /\ owner' = Claimed(found, i)
             /\ seen' = IF found = {} THEN seen ELSE [seen EXCEPT ![i] = found]
      BY <1>2 DEF PollFinish
    <2>2. QED
      BY <1>2, <2>1, OwnersStayTyped DEF PollFinish, TypeOK
  <1>3. ASSUME NEW d \in Devices, NEW i \in Instances, ActionStart(d, i) PROVE TypeOK'
    <2>1. [device |-> d, instance |-> i, owner |-> owner[d]] \in
             [device : Devices, instance : Instances, owner : Instances \cup {Unowned}]
      BY <1>3 DEF ActionStart, RoutesTo, TypeOK
    <2>2. QED
      BY <1>3, <2>1 DEF ActionStart, TypeOK
  <1>4. ASSUME NEW a \in actions, ActionFinish(a) PROVE TypeOK'
    <2>1. a.device \in Devices /\ a.instance \in Instances /\ a.owner \in Instances \cup {Unowned}
      BY DEF TypeOK
    <2>2. \A d \in Devices : Kept(d) \in Instances \cup {Absent, Unowned}
      BY DEF Kept, TypeOK
    <2>3. owner' \in [Devices -> Instances \cup {Absent, Unowned}]
      BY <1>4, <2>1, <2>2 DEF ActionFinish, TypeOK
    <2>4. QED
      BY <1>4, <2>3 DEF ActionFinish, TypeOK
  <1>5. ASSUME NEW i \in Instances, DisposeInstance(i) PROVE TypeOK'
    BY <1>5 DEF DisposeInstance, TypeOK
  <1>6. ASSUME NEW i \in Instances, Restore(i) PROVE TypeOK'
    <2>1. PICK found \in SUBSET Reach[i] : BringUp(i, found)
      BY <1>6 DEF Restore
    <2>2. count' \in [Types -> Nat] /\ handlers' \subseteq Types
      BY <2>1, OwnersStayTyped, ContributionsStayTyped DEF BringUp
    <2>3. /\ owner' \in [Devices -> Instances \cup {Absent, Unowned}]
          /\ seen' \in [Instances -> SUBSET Devices]
          /\ live' \subseteq Instances /\ polling' \subseteq Instances
      BY <2>1, OwnersStayTyped DEF BringUp, TypeOK
    <2>4. QED
      BY <1>6, <2>2, <2>3 DEF Restore, TypeOK
  <1>7. CASE DisposeAllStart
    BY <1>7 DEF DisposeAllStart, TypeOK
  <1>8. CASE DisposeAllFinish
    BY <1>8 DEF DisposeAllFinish, TypeOK
  <1>9. CASE Stop
    BY <1>9 DEF Stop, TypeOK
  <1>10. CASE Restart
    BY <1>10 DEF Restart, TypeOK, Running
  <1>11. CASE RestoreFinish
    BY <1>11 DEF RestoreFinish, TypeOK
  <1>12. ASSUME NEW i \in Instances, Skip(i) PROVE TypeOK'
    BY <1>12 DEF Skip, TypeOK
  <1>13. QED
    BY <1>1, <1>2, <1>3, <1>4, <1>5, <1>6, <1>7, <1>8, <1>9, <1>10, <1>11, <1>12
       DEF Next, Process

-----------------------------------------------------------------------------
(* The conjuncts of the invariant other than the counts.                   *)
RecordsInv == TypeOK /\ PhaseInv /\ StoreAgrees /\ PollingFollowsInstances

(* A step that starts no instance and ends none.                           *)
LEMMA RecordsFrame ==
    ASSUME RecordsInv, TypeOK',
           UNCHANGED <<phase, toRestore, skipped, drawn, live, polling, stored, torn>>,
           enabling' \subseteq enabling,
           \A i \in Instances : disables'[i] <= disables[i]
    PROVE  RecordsInv'
  <1>1. ~Serving => \A i \in Instances : disables'[i] = 0
    <2> SUFFICES ASSUME ~Serving, NEW i \in Instances PROVE disables'[i] = 0
      OBVIOUS
    <2>1. disables[i] = 0 /\ disables'[i] <= disables[i] /\ disables'[i] \in Nat
      BY ConnectorAssumption DEF RecordsInv, PhaseInv, TypeOK
    <2>2. QED
      BY <2>1
  <1>2. \A i \in Instances : disables'[i] > 0 => i \in drawn' \ (enabling' \cup polling' \cup skipped')
    <2> SUFFICES ASSUME NEW i \in Instances, disables'[i] > 0
                 PROVE  i \in drawn' \ (enabling' \cup polling' \cup skipped')
      OBVIOUS
    <2>1. disables[i] > 0
      BY BoundsAreNaturals DEF RecordsInv, TypeOK
    <2>2. QED
      BY <2>1 DEF RecordsInv, PhaseInv
  <1>3. QED
    BY <1>1, <1>2 DEF RecordsInv, PhaseInv, StoreAgrees, PollingFollowsInstances, Serving

(* A step that touches nothing the conjuncts speak of.                     *)
LEMMA RecordsUntouched ==
    ASSUME RecordsInv, TypeOK',
           UNCHANGED <<phase, toRestore, skipped, drawn, live, polling, stored, torn, enabling,
                       disables>>
    PROVE  RecordsInv'
  BY DEF RecordsInv, PhaseInv, StoreAgrees, PollingFollowsInstances, Serving

LEMMA RequestsKeepRecords ==
    ASSUME RecordsInv, NEW i \in Instances, Request(i)
    PROVE  RecordsInv'
  <1>0. TypeOK'
    BY RequestsKeepTypes DEF RecordsInv
  <1> USE BoundsAreNaturals, <1>0 DEF process, contributions
  <1>1. CASE EnableStart(i)
    BY <1>1 DEF EnableStart, RecordsInv, TypeOK, PhaseInv, StoreAgrees,
       PollingFollowsInstances, Serving
  <1>2. CASE EnableFinish(i)
    <2>1. live' = live \cup {i} /\ polling' = polling \cup {i}
      BY <1>2 DEF EnableFinish, BringUp
    <2>2. Serving /\ i \in drawn
      BY <1>2 DEF EnableFinish, RecordsInv, PhaseInv
    <2>3. QED
      BY <1>2, <2>1, <2>2 DEF EnableFinish, RecordsInv, TypeOK, PhaseInv, StoreAgrees,
         PollingFollowsInstances, Serving
  <1>3. CASE EnableFails(i)
    <2>1. \A j \in Instances : disables'[j] <= disables[j]
      BY <1>3 DEF EnableFails, RecordsInv, TypeOK
    <2>2. QED
      BY <1>3, <2>1, RecordsFrame DEF EnableFails
  <1>4. CASE DisableStart(i)
    BY <1>4 DEF DisableStart, RecordsInv, TypeOK, PhaseInv, StoreAgrees,
       PollingFollowsInstances, Serving
  <1>5. CASE DisableFinish(i)
    <2>1. Serving
      BY <1>5 DEF DisableFinish, RecordsInv, PhaseInv, TypeOK
    <2>2. i \in drawn /\ i \notin enabling /\ i \notin polling /\ i \notin skipped
      BY <1>5 DEF DisableFinish, RecordsInv, PhaseInv
    <2>3. QED
      BY <1>5, <2>1, <2>2 DEF DisableFinish, RecordsInv, TypeOK, PhaseInv, StoreAgrees,
         PollingFollowsInstances, Serving
  <1>6. CASE DisableFails(i)
    <2>1. \A j \in Instances : disables'[j] <= disables[j]
      BY <1>6 DEF DisableFails, RecordsInv, TypeOK
    <2>2. QED
      BY <1>6, <2>1, RecordsFrame DEF DisableFails
  <1>7. CASE UpdateConfig(i)
    BY <1>7 DEF UpdateConfig, RecordsInv, TypeOK, PhaseInv, StoreAgrees,
       PollingFollowsInstances, Serving
  <1>8. CASE RetryStart(i)
    <2>1. UNCHANGED <<phase, toRestore, skipped, drawn, live, polling, stored, torn, enabling,
                      disables>>
      BY <1>8 DEF RetryStart
    <2>2. QED
      BY <2>1, RecordsUntouched
  <1>9. CASE RetryFinish(i)
    <2>1. UNCHANGED <<phase, toRestore, skipped, drawn, live, polling, stored, torn, enabling,
                      disables>>
      BY <1>9 DEF RetryFinish
    <2>2. QED
      BY <2>1, RecordsUntouched
  <1>10. QED
    BY <1>1, <1>2, <1>3, <1>4, <1>5, <1>6, <1>7, <1>8, <1>9 DEF Request

LEMMA OthersKeepRecords ==
    ASSUME RecordsInv, Next, ~(\E i \in Instances : Request(i))
    PROVE  RecordsInv'
  <1>0. TypeOK'
    BY OthersKeepTypes DEF RecordsInv
  <1> USE BoundsAreNaturals, <1>0 DEF process, contributions
  <1>1. ASSUME NEW i \in Instances, PollStart(i) \/ PollFinish(i) PROVE RecordsInv'
    <2>1. UNCHANGED <<phase, toRestore, skipped, drawn, live, polling, stored, torn, enabling,
                      disables>>
      BY <1>1 DEF PollStart, PollFinish
    <2>2. QED
      BY <2>1, RecordsUntouched
  <1>2. ASSUME NEW d \in Devices, NEW i \in Instances, ActionStart(d, i) PROVE RecordsInv'
    <2>1. UNCHANGED <<phase, toRestore, skipped, drawn, live, polling, stored, torn, enabling,
                      disables>>
      BY <1>2 DEF ActionStart
    <2>2. QED
      BY <2>1, RecordsUntouched
  <1>3. ASSUME NEW a \in actions, ActionFinish(a) PROVE RecordsInv'
    <2>1. UNCHANGED <<phase, toRestore, skipped, drawn, live, polling, stored, torn, enabling,
                      disables>>
      BY <1>3 DEF ActionFinish
    <2>2. QED
      BY <2>1, RecordsUntouched
  <1>4. ASSUME NEW i \in Instances, DisposeInstance(i) PROVE RecordsInv'
    BY <1>4 DEF DisposeInstance, RecordsInv, PhaseInv, StoreAgrees,
       PollingFollowsInstances, Serving
  <1>5. ASSUME NEW i \in Instances, Restore(i) PROVE RecordsInv'
    <2>1. live' = live \cup {i} /\ polling' = polling \cup {i}
      BY <1>5 DEF Restore, BringUp
    <2>2. phase = "restoring"
      BY <1>5 DEF Restore, RecordsInv, PhaseInv
    <2>3. \A j \in Instances : disables[j] = 0
      BY <2>2 DEF RecordsInv, PhaseInv, Serving
    <2>4. QED
      BY <1>5, <2>1, <2>2, <2>3 DEF Restore, RecordsInv, PhaseInv, StoreAgrees,
         PollingFollowsInstances, Serving
  <1>6. CASE DisposeAllStart
    BY <1>6 DEF DisposeAllStart, RecordsInv, PhaseInv, StoreAgrees,
       PollingFollowsInstances, Serving
  <1>7. CASE DisposeAllFinish
    BY <1>7 DEF DisposeAllFinish, RecordsInv, PhaseInv, StoreAgrees,
       PollingFollowsInstances, Serving
  <1>8. CASE Stop
    BY <1>8 DEF Stop, RecordsInv, PhaseInv, StoreAgrees, PollingFollowsInstances, Serving,
       TypeOK
  <1>9. CASE Restart
    BY <1>9 DEF Restart, RecordsInv, PhaseInv, StoreAgrees, PollingFollowsInstances,
       Serving, Running
  <1>10. CASE RestoreFinish
    BY <1>10 DEF RestoreFinish, RecordsInv, PhaseInv, StoreAgrees,
       PollingFollowsInstances, Serving
  <1>11. ASSUME NEW i \in Instances, Skip(i) PROVE RecordsInv'
    <2>1. phase = "restoring"
      BY <1>11 DEF Skip, RecordsInv, PhaseInv
    <2>2. \A j \in Instances : disables[j] = 0
      BY <2>1 DEF RecordsInv, PhaseInv, Serving
    <2>3. QED
      BY <1>11, <2>1, <2>2 DEF Skip, RecordsInv, PhaseInv, StoreAgrees,
         PollingFollowsInstances, Serving
  <1>12. QED
    BY <1>1, <1>2, <1>3, <1>4, <1>5, <1>6, <1>7, <1>8, <1>9, <1>10, <1>11 DEF Next, Process

LEMMA CountsKept ==
    ASSUME ConnectorInv, Next
    PROVE  CountInv'
  <1>0. TypeOK /\ CountInv
    BY DEF ConnectorInv
  <1> USE <1>0 DEF process, contributions
  <1>1. ASSUME NEW i \in Instances, EnableFinish(i) PROVE CountInv'
    <2>1. PICK found \in SUBSET Reach[i] : BringUp(i, found)
      BY <1>1 DEF EnableFinish
    <2>2. live' \subseteq live \cup {i} /\ live' \subseteq Instances /\ torn' = torn
      BY <1>1, <2>1 DEF EnableFinish, BringUp, TypeOK
    <2>3. QED
      BY <2>1, <2>2, CountUp DEF BringUp
  <1>2. ASSUME NEW i \in Instances, EnableFails(i) PROVE CountInv'
    BY <1>2, CountUp DEF EnableFails, TypeOK
  <1>3. ASSUME NEW i \in Instances, DisableStart(i) PROVE CountInv'
    BY <1>3, CountDown, Zenon DEF DisableStart
  <1>4. ASSUME NEW i \in Instances, Restore(i) PROVE CountInv'
    <2>1. PICK found \in SUBSET Reach[i] : BringUp(i, found)
      BY <1>4 DEF Restore
    <2>2. live' \subseteq live \cup {i} /\ live' \subseteq Instances /\ torn' = torn
      BY <1>4, <2>1 DEF Restore, BringUp, TypeOK
    <2>3. QED
      BY <2>1, <2>2, CountUp DEF BringUp
  <1>5. CASE Stop
    <2> SUFFICES ASSUME NEW t \in Types
                 PROVE  /\ t \in handlers' <=> count'[t] > 0
                        /\ count'[t] >= Cardinality(Relying(t)')
      BY DEF CountInv
    <2>1. count'[t] = 0 /\ t \notin handlers' /\ Relying(t)' = {}
      BY <1>5 DEF Stop, Relying
    <2>2. QED
      BY <2>1, FS_EmptySet
  <1>6. ASSUME NEW i \in Instances,
               \/ EnableStart(i) \/ DisableFinish(i) \/ DisableFails(i)
               \/ UpdateConfig(i) \/ RetryStart(i) \/ RetryFinish(i)
               \/ PollStart(i) \/ PollFinish(i) \/ DisposeInstance(i) \/ Skip(i)
        PROVE  CountInv'
    BY <1>6, CountFrame DEF EnableStart, DisableFinish, DisableFails, UpdateConfig,
       RetryStart, RetryFinish, PollStart, PollFinish, DisposeInstance, Skip
  <1>7. ASSUME NEW d \in Devices, NEW i \in Instances, ActionStart(d, i) PROVE CountInv'
    BY <1>7, CountFrame DEF ActionStart
  <1>8. ASSUME NEW a \in actions, ActionFinish(a) PROVE CountInv'
    BY <1>8, CountFrame DEF ActionFinish
  <1>9. CASE DisposeAllStart \/ DisposeAllFinish \/ Restart \/ RestoreFinish
    BY <1>9, CountFrame DEF DisposeAllStart, DisposeAllFinish, Restart, RestoreFinish
  <1>10. QED
    BY <1>1, <1>2, <1>3, <1>4, <1>5, <1>6, <1>7, <1>8, <1>9 DEF Next, Request, Process

-----------------------------------------------------------------------------
LEMMA InitEstablishesInv == Init => ConnectorInv
  <1> SUFFICES ASSUME Init PROVE ConnectorInv
    OBVIOUS
  <1>1. TypeOK
    BY BoundsAreNaturals DEF Init, TypeOK
  <1>2. PhaseInv /\ StoreAgrees /\ PollingFollowsInstances
    BY DEF Init, PhaseInv, StoreAgrees, PollingFollowsInstances, Serving
  <1>3. CountInv
    <2> SUFFICES ASSUME NEW t \in Types
                 PROVE  (t \in handlers <=> count[t] > 0) /\ count[t] >= Cardinality(Relying(t))
      BY DEF CountInv
    <2>1. count[t] = 0 /\ t \notin handlers /\ Relying(t) = {}
      BY DEF Init, Relying
    <2>2. QED
      BY <2>1, FS_EmptySet
  <1>4. QED
    BY <1>1, <1>2, <1>3 DEF ConnectorInv

LEMMA NextKeepsInv == ConnectorInv /\ [Next]_vars => ConnectorInv'
  <1> SUFFICES ASSUME ConnectorInv, [Next]_vars PROVE ConnectorInv'
    OBVIOUS
  <1>1. CASE Next
    <2>1. RecordsInv
      BY DEF ConnectorInv, RecordsInv
    <2>2. RecordsInv'
      BY <1>1, <2>1, RequestsKeepRecords, OthersKeepRecords
    <2>3. CountInv'
      BY <1>1, CountsKept
    <2>4. QED
      BY <2>2, <2>3 DEF ConnectorInv, RecordsInv
  <1>2. CASE UNCHANGED vars
    BY <1>2 DEF vars, ConnectorInv, TypeOK, PhaseInv, StoreAgrees, CountInv, Relying,
       PollingFollowsInstances, NobodyTornTwice, Serving
  <1>3. QED
    BY <1>1, <1>2

(* The manager's bookkeeping: instances, intervals, counts and records.    *)
THEOREM ConnectorInvariant == Spec => []ConnectorInv
  BY InitEstablishesInv, NextKeepsInv, PTL DEF Spec

(* Whatever fails, overlaps or is cut off by a crash, while requests are   *)
(* served the enabled records are those of the instances in memory and     *)
(* those that restoreFromStore() skipped, which nothing touches.           *)
THEOREM MemoryMatchesStore == Spec => []StoreAgrees
  <1>1. ConnectorInv => StoreAgrees
    BY DEF ConnectorInv
  <1>2. QED
    BY <1>1, ConnectorInvariant, PTL

(* No connector is polled after disable() or disposeAll().                 *)
THEOREM OnlyInstancesArePolled == Spec => []PollingFollowsInstances
  <1>1. ConnectorInv => PollingFollowsInstances
    BY DEF ConnectorInv
  <1>2. QED
    BY <1>1, ConnectorInvariant, PTL

(* Reference counting keeps the handlers of every enabled instance, as     *)
(* long as disable() runs once for each instance.                          *)
THEOREM SiblingsKeepHandlers == Spec => []SiblingKeepsHandlers
  <1>1. ConnectorInv => SiblingKeepsHandlers
    <2> SUFFICES ASSUME ConnectorInv, NobodyTornTwice, NEW i \in live, torn[i] = 0
                 PROVE  TypeOf[i] \in handlers
      BY DEF SiblingKeepsHandlers
    <2>1. i \in Instances /\ TypeOf[i] \in Types
      BY ConnectorAssumption DEF ConnectorInv, TypeOK, ConnectorAssumption
    <2>2. /\ TypeOf[i] \in handlers <=> count[TypeOf[i]] > 0
          /\ count[TypeOf[i]] >= Cardinality(Relying(TypeOf[i]))
      BY <2>1 DEF ConnectorInv, CountInv
    <2>3. i \in Relying(TypeOf[i]) /\ Relying(TypeOf[i]) \in SUBSET Instances
      BY <2>1 DEF Relying, ConnectorInv, TypeOK
    <2>4. /\ Cardinality({}) <= Cardinality(Relying(TypeOf[i])) - 1
          /\ Cardinality({}) \in Nat /\ Cardinality(Relying(TypeOf[i])) \in Nat
      BY <2>3, OneFewerRelies
    <2>5. count[TypeOf[i]] \in Nat
      BY <2>1 DEF ConnectorInv, TypeOK
    <2>6. Cardinality({}) = 0
      BY FS_EmptySet
    <2>7. count[TypeOf[i]] > 0
      BY <2>2, <2>4, <2>5, <2>6
    <2>8. QED
      BY <2>2, <2>7
  <1>2. QED
    BY <1>1, ConnectorInvariant, PTL

(* Once disabled, an instance stays disabled.                              *)
THEOREM DisabledForGood == Spec => DisabledStaysDisabled
  <1>1. ASSUME ConnectorInv, [Next]_vars, NEW i \in Instances, stored[i] = "disabled"
        PROVE  stored'[i] = "disabled"
    <2> USE <1>1 DEF process, contributions, ConnectorInv, TypeOK
    <2>1. ASSUME NEW j \in Instances, EnableFinish(j) PROVE stored'[i] = "disabled"
      BY <2>1 DEF EnableFinish, PhaseInv
    <2>2. ASSUME NEW j \in Instances, UpdateConfig(j) PROVE stored'[i] = "disabled"
      BY <2>2 DEF UpdateConfig, StoreAgrees
    <2>3. ASSUME NEW j \in Instances, DisableFinish(j) PROVE stored'[i] = "disabled"
      BY <2>3 DEF DisableFinish
    <2>4. ASSUME NEW j \in Instances,
                 \/ EnableStart(j) \/ EnableFails(j) \/ DisableStart(j) \/ DisableFails(j)
                 \/ RetryStart(j) \/ RetryFinish(j) \/ PollStart(j) \/ PollFinish(j)
                 \/ DisposeInstance(j) \/ Restore(j) \/ Skip(j)
          PROVE  stored'[i] = "disabled"
      BY <2>4 DEF EnableStart, EnableFails, DisableStart, DisableFails, RetryStart,
         RetryFinish, PollStart, PollFinish, DisposeInstance, Restore, Skip
    <2>5. ASSUME NEW d \in Devices, NEW j \in Instances, ActionStart(d, j)
          PROVE  stored'[i] = "disabled"
      BY <2>5 DEF ActionStart
    <2>6. ASSUME NEW a \in actions, ActionFinish(a) PROVE stored'[i] = "disabled"
      BY <2>6 DEF ActionFinish
    <2>7. CASE Process
      BY <2>7 DEF Process, DisposeAllStart, DisposeAllFinish, Stop, Restart, RestoreFinish
    <2>8. CASE UNCHANGED vars
      BY <2>8 DEF vars
    <2>9. QED
      BY <2>1, <2>2, <2>3, <2>4, <2>5, <2>6, <2>7, <2>8 DEF Next, Request
  <1>2. ConnectorInv /\ [Next]_vars =>
           [\A i \in Instances : stored[i] = "disabled" => stored'[i] = "disabled"]_vars
    BY <1>1
  <1>3. QED
    BY <1>2, ConnectorInvariant, PTL DEF Spec, DisabledStaysDisabled

-----------------------------------------------------------------------------
(* Until a write fails the count is exact: whoever is disabled has given   *)
(* up its handlers, and an instance that comes up never had any.           *)
ReleaseInv ==
    /\ \A i \in Instances : disables[i] > 0 => torn[i] > 0
    /\ \A i \in Instances : torn[i] > 0 => i \in drawn \ enabling
    /\ phase \in {"restoring", "down"} => \A i \in Instances : torn[i] = 0
    /\ toRestore \cap live = {}
    /\ phase # "closing" /\ NobodyTornTwice /\ faults = 0 =>
           \A t \in Types : count[t] = Cardinality(Relying(t))

(* One instance comes up, and it relies on the handlers of its type.       *)
LEMMA ExactlyOneMore ==
    ASSUME TypeOK, NEW i \in Instances \ live, RegisterContributions(TypeOf[i]),
           live' = live \cup {i}, torn' = torn, torn[i] = 0,
           \A t \in Types : count[t] = Cardinality(Relying(t))
    PROVE  \A t \in Types : count'[t] = Cardinality(Relying(t)')
  <1> SUFFICES ASSUME NEW t \in Types PROVE count'[t] = Cardinality(Relying(t)')
    OBVIOUS
  <1>0. TypeOf[i] \in Types /\ count \in [Types -> Nat]
    BY ConnectorAssumption DEF ConnectorAssumption, TypeOK
  <1>1. CASE t = TypeOf[i]
    <2>1. count'[t] = count[t] + 1
      BY <1>0, <1>1 DEF RegisterContributions
    <2>2. Relying(t)' = Relying(t) \cup {i} /\ i \notin Relying(t)
      BY <1>1 DEF Relying
    <2>3. IsFiniteSet(Relying(t))
      <3>1. Relying(t) \subseteq Instances
        BY DEF Relying, TypeOK
      <3>2. QED
        BY <3>1, ConnectorAssumption, FS_Subset DEF ConnectorAssumption
    <2>4. Cardinality(Relying(t) \cup {i}) = Cardinality(Relying(t)) + 1
      BY <2>2, <2>3, FS_AddElement, Zenon
    <2>5. QED
      BY <2>1, <2>2, <2>4
  <1>2. CASE t # TypeOf[i]
    <2>1. count'[t] = count[t]
      BY <1>0, <1>2 DEF RegisterContributions
    <2>2. Relying(t)' = Relying(t)
      BY <1>2 DEF Relying
    <2>3. QED
      BY <2>1, <2>2
  <1>3. QED
    BY <1>1, <1>2

(* One instance gives up its handlers.                                     *)
LEMMA ExactlyOneFewer ==
    ASSUME TypeOK, NEW i \in live, UnregisterContributions(TypeOf[i]),
           live' = live, torn' = [torn EXCEPT ![i] = @ + 1], torn[i] = 0,
           \A t \in Types : count[t] = Cardinality(Relying(t))
    PROVE  \A t \in Types : count'[t] = Cardinality(Relying(t)')
  <1> SUFFICES ASSUME NEW t \in Types PROVE count'[t] = Cardinality(Relying(t)')
    OBVIOUS
  <1>0. /\ TypeOf[i] \in Types /\ count \in [Types -> Nat] /\ i \in Instances
        /\ torn \in [Instances -> Nat]
    BY ConnectorAssumption, Zenon DEF ConnectorAssumption, TypeOK
  <1>1. torn'[i] = 1 /\ \A j \in Instances \ {i} : torn'[j] = torn[j]
    BY <1>0
  <1>2. CASE t = TypeOf[i]
    <2>1. count'[t] = IF count[t] > 0 THEN count[t] - 1 ELSE 0
      BY <1>0, <1>2 DEF UnregisterContributions
    <2>2. Relying(t)' = Relying(t) \ {i} /\ i \in Relying(t)
      BY <1>0, <1>1, <1>2 DEF Relying, TypeOK
    <2>3. IsFiniteSet(Relying(t))
      <3>1. Relying(t) \subseteq Instances
        BY DEF Relying, TypeOK
      <3>2. QED
        BY <3>1, ConnectorAssumption, FS_Subset DEF ConnectorAssumption
    <2>4. /\ Cardinality(Relying(t) \ {i}) = Cardinality(Relying(t)) - 1
          /\ Cardinality(Relying(t) \ {i}) \in Nat
      <3>1. IsFiniteSet(Relying(t) \ {i})
        BY <2>3, FS_Subset
      <3>2. QED
        BY <2>2, <2>3, <3>1, FS_RemoveElement, FS_CardinalityType
    <2>5. count[t] = Cardinality(Relying(t)) /\ count[t] \in Nat
      BY <1>0
    <2>6. QED
      BY <2>1, <2>2, <2>4, <2>5
  <1>3. CASE t # TypeOf[i]
    <2>1. count'[t] = count[t]
      BY <1>0, <1>3 DEF UnregisterContributions
    <2>2. Relying(t)' = Relying(t)
      BY <1>0, <1>1, <1>3 DEF Relying, TypeOK
    <2>3. QED
      BY <2>1, <2>2
  <1>4. QED
    BY <1>2, <1>3

(* A step that touches neither instances nor counts.                       *)
LEMMA ReleaseFrame ==
    ASSUME ReleaseInv,
           UNCHANGED <<phase, toRestore, drawn, enabling, live, disables, torn, count, faults>>
    PROVE  ReleaseInv'
  <1>1. \A t : Relying(t)' = Relying(t)
    BY DEF Relying
  <1>2. QED
    BY <1>1 DEF ReleaseInv, NobodyTornTwice

LEMMA NextKeepsRelease == ConnectorInv /\ ReleaseInv /\ [Next]_vars => ReleaseInv'
  <1> SUFFICES ASSUME ConnectorInv, ReleaseInv, [Next]_vars PROVE ReleaseInv'
    OBVIOUS
  <1>0. TypeOK /\ PhaseInv /\ StoreAgrees
    BY DEF ConnectorInv
  <1>a. torn \in [Instances -> Nat] /\ faults \in Nat /\ disables \in [Instances -> Nat]
    BY <1>0, BoundsAreNaturals DEF TypeOK
  <1> USE DEF process, contributions
  <1>1. ASSUME NEW i \in Instances, EnableStart(i) PROVE ReleaseInv'
    <2>1. \A t : Relying(t)' = Relying(t)
      BY <1>1 DEF Relying, EnableStart
    <2>2. UNCHANGED <<phase, toRestore, live, disables, torn, count, faults>>
      BY <1>1 DEF EnableStart
    <2>3. drawn' = drawn \cup {i} /\ enabling' = enabling \cup {i} /\ i \notin drawn
      BY <1>1 DEF EnableStart
    <2>4. QED
      BY <2>1, <2>2, <2>3 DEF ReleaseInv, NobodyTornTwice
  <1>2. ASSUME NEW i \in Instances, EnableFinish(i) PROVE ReleaseInv'
    <2>1. RegisterContributions(TypeOf[i]) /\ live' = live \cup {i}
      BY <1>2 DEF EnableFinish, BringUp
    <2>2. /\ i \in enabling /\ enabling' = enabling \ {i}
          /\ UNCHANGED <<phase, toRestore, drawn, disables, torn, faults>>
      BY <1>2 DEF EnableFinish
    <2>3. Serving /\ stored[i] = "none" /\ toRestore = {}
      BY <1>0, <2>2 DEF PhaseInv, Serving
    <2>4. i \notin live /\ torn[i] = 0
      BY <1>0, <1>a, <2>2, <2>3 DEF StoreAgrees, ReleaseInv
    <2>5. ASSUME NobodyTornTwice', faults' = 0
          PROVE  \A t \in Types : count'[t] = Cardinality(Relying(t)')
      <3>1. \A t \in Types : count[t] = Cardinality(Relying(t))
        BY <2>2, <2>3, <2>5 DEF ReleaseInv, NobodyTornTwice, Serving
      <3>2. QED
        BY <1>0, <2>1, <2>2, <2>4, <3>1, ExactlyOneMore
    <2>6. QED
      BY <2>2, <2>3, <2>5 DEF ReleaseInv
  <1>3. ASSUME NEW i \in Instances, EnableFails(i) \/ DisableFails(i) PROVE ReleaseInv'
    <2>1. /\ faults' = faults + 1 /\ enabling' \subseteq enabling
          /\ UNCHANGED <<phase, toRestore, drawn, live, torn>>
      BY <1>3 DEF EnableFails, DisableFails
    <2>2. \A j \in Instances : disables'[j] > 0 => disables[j] > 0
      BY <1>3, <1>a DEF EnableFails, DisableFails
    <2>3. faults' # 0
      BY <1>a, <2>1
    <2>4. QED
      BY <2>1, <2>2, <2>3 DEF ReleaseInv
  <1>4. ASSUME NEW i \in Instances, DisableStart(i) PROVE ReleaseInv'
    <2>1. /\ Serving /\ i \in live /\ disables' = [disables EXCEPT ![i] = @ + 1]
          /\ UnregisterContributions(TypeOf[i]) /\ torn' = [torn EXCEPT ![i] = @ + 1]
          /\ UNCHANGED <<phase, toRestore, drawn, enabling, live, faults>>
      BY <1>4 DEF DisableStart
    <2>2. stored[i] = "enabled" /\ i \in drawn /\ i \notin enabling
      BY <1>0, <2>1 DEF StoreAgrees, PhaseInv
    <2>3. torn'[i] = torn[i] + 1 /\ \A j \in Instances \ {i} : torn'[j] = torn[j]
      BY <1>a, <2>1
    <2>4. \A j \in Instances \ {i} : disables'[j] = disables[j]
      BY <1>a, <2>1
    <2>5. ASSUME NobodyTornTwice', faults' = 0
          PROVE  \A t \in Types : count'[t] = Cardinality(Relying(t)')
      <3>1. NobodyTornTwice /\ torn[i] = 0
        BY <1>a, <2>3, <2>5 DEF NobodyTornTwice
      <3>2. \A t \in Types : count[t] = Cardinality(Relying(t))
        BY <2>1, <2>5, <3>1 DEF ReleaseInv, Serving
      <3>3. QED
        BY <1>0, <2>1, <3>1, <3>2, ExactlyOneFewer, Zenon
    <2>6. \A j \in Instances : disables'[j] > 0 => torn'[j] > 0
      BY <1>a, <2>3, <2>4 DEF ReleaseInv
    <2>7. \A j \in Instances : torn'[j] > 0 => j \in drawn' \ enabling'
      BY <2>1, <2>2, <2>3 DEF ReleaseInv
    <2>8. phase' = "serving" /\ toRestore' \cap live' = {}
      BY <2>1 DEF Serving, ReleaseInv
    <2>9. QED
      BY <2>5, <2>6, <2>7, <2>8 DEF ReleaseInv
  <1>5. ASSUME NEW i \in Instances, DisableFinish(i) PROVE ReleaseInv'
    <2>1. /\ disables[i] > 0 /\ disables' = [disables EXCEPT ![i] = @ - 1] /\ live' = live \ {i}
          /\ UNCHANGED <<phase, toRestore, drawn, enabling, torn, count, faults>>
      BY <1>5 DEF DisableFinish
    <2>2. torn[i] > 0
      BY <2>1 DEF ReleaseInv
    <2>3. \A t : Relying(t)' = Relying(t)
      BY <2>1, <2>2 DEF Relying
    <2>4. \A j \in Instances : disables'[j] > 0 => disables[j] > 0
      BY <1>a, <2>1
    <2>5. QED
      BY <2>1, <2>3, <2>4 DEF ReleaseInv, NobodyTornTwice
  <1>6. ASSUME NEW i \in Instances, Restore(i) PROVE ReleaseInv'
    <2>1. RegisterContributions(TypeOf[i]) /\ live' = live \cup {i}
      BY <1>6 DEF Restore, BringUp
    <2>2. /\ i \in toRestore /\ toRestore' = toRestore \ {i}
          /\ UNCHANGED <<phase, drawn, enabling, disables, torn, faults>>
      BY <1>6 DEF Restore
    <2>3. phase = "restoring" /\ i \notin live /\ torn[i] = 0
      BY <1>0, <2>2 DEF PhaseInv, ReleaseInv
    <2>5. ASSUME NobodyTornTwice', faults' = 0
          PROVE  \A t \in Types : count'[t] = Cardinality(Relying(t)')
      <3>1. \A t \in Types : count[t] = Cardinality(Relying(t))
        BY <2>2, <2>3, <2>5 DEF ReleaseInv, NobodyTornTwice
      <3>2. QED
        BY <1>0, <2>1, <2>2, <2>3, <3>1, ExactlyOneMore
    <2>6. QED
      BY <2>1, <2>2, <2>3, <2>5 DEF ReleaseInv
  <1>7. CASE Stop
    <2>1. /\ phase' = "down" /\ toRestore' = {} /\ live' = {}
          /\ torn' = [i \in Instances |-> 0] /\ disables' = [i \in Instances |-> 0]
          /\ count' = [t \in Types |-> 0]
      BY <1>7 DEF Stop
    <2>2. \A t \in Types : count'[t] = Cardinality(Relying(t)')
      <3>1. \A t \in Types : Relying(t)' = {}
        BY <2>1 DEF Relying
      <3>2. QED
        BY <2>1, <3>1, FS_EmptySet
    <2>3. QED
      BY <2>1, <2>2 DEF ReleaseInv
  <1>8. CASE Restart \/ RestoreFinish
    <2>1. UNCHANGED <<drawn, enabling, live, disables, torn, count, faults>>
      BY <1>8 DEF Restart, RestoreFinish
    <2>2. \A t : Relying(t)' = Relying(t)
      BY <2>1 DEF Relying
    <2>3. /\ phase \in {"down", "restoring"} /\ phase' \in {"restoring", "serving"}
          /\ toRestore' = {} \/ live = {}
      BY <1>0, <1>8 DEF Restart, RestoreFinish, Running, PhaseInv
    <2>4. QED
      BY <2>1, <2>2, <2>3 DEF ReleaseInv, NobodyTornTwice
  <1>9. CASE DisposeAllStart \/ DisposeAllFinish
    <2>1. /\ phase' = "closing" /\ live' \subseteq live
          /\ UNCHANGED <<toRestore, drawn, enabling, disables, torn>>
      BY <1>9 DEF DisposeAllStart, DisposeAllFinish
    <2>2. QED
      BY <2>1 DEF ReleaseInv
  <1>10. ASSUME NEW i \in Instances,
                \/ UpdateConfig(i) \/ RetryStart(i) \/ RetryFinish(i)
                \/ PollStart(i) \/ PollFinish(i) \/ DisposeInstance(i)
         PROVE  ReleaseInv'
    <2>1. UNCHANGED <<phase, toRestore, drawn, enabling, live, disables, torn, count, faults>>
      BY <1>10 DEF UpdateConfig, RetryStart, RetryFinish, PollStart, PollFinish, DisposeInstance
    <2>2. QED
      BY <2>1, ReleaseFrame
  <1>11. ASSUME NEW d \in Devices, NEW i \in Instances, ActionStart(d, i) PROVE ReleaseInv'
    BY <1>11, ReleaseFrame, SMTT(30) DEF ActionStart
  <1>12. ASSUME NEW a \in actions, ActionFinish(a) PROVE ReleaseInv'
    BY <1>12, ReleaseFrame, Zenon DEF ActionFinish
  <1>13. CASE UNCHANGED vars
    BY <1>13, ReleaseFrame DEF vars
  <1>14. ASSUME NEW i \in Instances, Skip(i) PROVE ReleaseInv'
    <2>1. /\ toRestore' \subseteq toRestore
          /\ UNCHANGED <<phase, drawn, enabling, live, disables, torn, count, faults>>
      BY <1>14 DEF Skip
    <2>2. \A t : Relying(t)' = Relying(t)
      BY <2>1 DEF Relying
    <2>3. QED
      BY <2>1, <2>2 DEF ReleaseInv, NobodyTornTwice
  <1>15. QED
    BY <1>1, <1>2, <1>3, <1>4, <1>5, <1>6, <1>7, <1>8, <1>9, <1>10, <1>11, <1>12, <1>13, <1>14
       DEF Next, Request, Process

LEMMA InitEstablishesRelease == Init => ReleaseInv
  <1> SUFFICES ASSUME Init PROVE ReleaseInv
    OBVIOUS
  <1>1. \A t \in Types : Relying(t) = {} /\ count[t] = 0
    BY DEF Init, Relying
  <1>2. QED
    BY <1>1, FS_EmptySet DEF Init, ReleaseInv

(* The reference count is right in both directions: an enabled instance    *)
(* has the handlers of its type while disable() runs once for each         *)
(* instance, and unless a write failed the last disable() releases them.   *)
THEOREM HandlersFollow == Spec => []HandlersFollowInstances
  <1>1. Spec => []ReleaseInv
    BY ConnectorInvariant, InitEstablishesRelease, NextKeepsRelease, PTL DEF Spec
  <1>2. ConnectorInv /\ ReleaseInv => HandlersAreReleased
    <2> SUFFICES ASSUME ConnectorInv, ReleaseInv, Serving, NobodyTornTwice, faults = 0,
                        NEW t \in handlers
                 PROVE  \E i \in live : TypeOf[i] = t /\ torn[i] = 0
      BY DEF HandlersAreReleased
    <2>1. t \in Types /\ count[t] > 0 /\ count[t] = Cardinality(Relying(t))
      BY DEF ConnectorInv, TypeOK, CountInv, ReleaseInv, Serving
    <2>2. Relying(t) # {}
      BY <2>1, FS_EmptySet
    <2>3. QED
      BY <2>2 DEF Relying
  <1>3. SiblingKeepsHandlers /\ HandlersAreReleased => HandlersFollowInstances
    BY DEF HandlersFollowInstances
  <1>4. QED
    BY <1>1, <1>2, <1>3, ConnectorInvariant, SiblingsKeepHandlers, PTL

(* No sibling's disable(), discovery, poll or action takes a device away.  *)
THEOREM SiblingsKeepDevices == Spec => SiblingKeepsDevices
  <1> DEFINE Kind(d, i) == \/ disables'[i] < disables[i]
                           \/ \E a \in actions \ actions' : a.device = d
  <1>1. ASSUME TypeOK, Next, NEW d \in Devices, NEW i \in Instances,
               owner[d] = i, owner'[d] = Absent
        PROVE  Kind(d, i)
    <2>0. /\ i # Absent /\ i # Unowned /\ Absent # Unowned /\ Absent \notin Instances
          /\ disables \in [Instances -> Nat]
      BY <1>1, ConnectorAssumption, BoundsAreNaturals DEF ConnectorAssumption, TypeOK
    <2> USE DEF process, contributions
    <2>1. ASSUME NEW j \in Instances, NEW found \in SUBSET Devices, owner' = Claimed(found, j)
          PROVE  FALSE
      BY <1>1, <2>0, <2>1 DEF Claimed
    <2>2. ASSUME NEW j \in Instances, NEW removed \in SUBSET Owned(j), owner' = Without(removed),
                 disables[j] > 0, disables' = [disables EXCEPT ![j] = @ - 1]
          PROVE  Kind(d, i)
      <3>1. d \in Owned(j)
        BY <1>1, <2>0, <2>2 DEF Without
      <3>2. i = j
        BY <1>1, <2>0, <3>1 DEF Owned
      <3>3. QED
        BY <2>0, <2>2, <3>2
    <2>3. ASSUME owner' = owner PROVE FALSE
      BY <1>1, <2>0, <2>3
    <2>4. ASSUME NEW j \in Instances,
                 EnableFinish(j) \/ EnableFails(j) \/ RetryFinish(j) \/ PollFinish(j) \/ Restore(j)
          PROVE  FALSE
      <3>1. \E found \in SUBSET Reach[j] : owner' = Claimed(found, j)
        BY <2>4 DEF EnableFinish, EnableFails, RetryFinish, PollFinish, Restore, BringUp
      <3>2. Reach[j] \subseteq Devices
        BY ConnectorAssumption DEF ConnectorAssumption
      <3>3. QED
        BY <2>1, <3>1, <3>2
    <2>5. ASSUME NEW j \in Instances, DisableFinish(j) \/ DisableFails(j) PROVE Kind(d, i)
      <3>1. /\ \E removed \in SUBSET Owned(j) : owner' = Without(removed)
            /\ disables[j] > 0 /\ disables' = [disables EXCEPT ![j] = @ - 1]
        BY <2>5 DEF DisableFinish, DisableFails
      <3>2. QED
        BY <2>2, <3>1, Zenon
    <2>6. ASSUME NEW a \in actions, ActionFinish(a) PROVE Kind(d, i)
      <3>1. a.device \in Devices /\ a.owner \in Instances \cup {Unowned}
        BY <1>1 DEF TypeOK
      <3>2. \A e \in Devices : Kept(e) # Absent
        BY <2>0 DEF Kept
      <3>3. actions' = actions \ {a} /\ owner \in [Devices -> Instances \cup {Absent, Unowned}]
        BY <1>1, <2>6 DEF ActionFinish, TypeOK
      <3>4. d = a.device
        BY <1>1, <2>0, <2>6, <3>1, <3>2, <3>3 DEF ActionFinish
      <3>5. a \in actions \ actions'
        BY <3>3
      <3>6. QED
        BY <3>4, <3>5
    <2>7. ASSUME NEW j \in Instances,
                 \/ EnableStart(j) \/ DisableStart(j) \/ UpdateConfig(j) \/ RetryStart(j)
                 \/ PollStart(j) \/ DisposeInstance(j) \/ Skip(j)
          PROVE  FALSE
      BY <2>3, <2>7 DEF EnableStart, DisableStart, UpdateConfig, RetryStart, PollStart,
         DisposeInstance, Skip
    <2>8. ASSUME NEW e \in Devices, NEW j \in Instances, ActionStart(e, j) PROVE FALSE
      BY <2>3, <2>8 DEF ActionStart
    <2>9. CASE Process
      BY <2>3, <2>9 DEF Process, DisposeAllStart, DisposeAllFinish, Stop, Restart, RestoreFinish
    <2>10. QED
      BY <1>1, <2>4, <2>5, <2>6, <2>7, <2>8, <2>9 DEF Next, Request
  <1>2. TypeOK /\ [Next]_vars =>
           [\A d \in Devices, i \in Instances :
               owner[d] = i /\ owner'[d] = Absent => Kind(d, i)]_vars
    BY <1>1
  <1>3. ConnectorInv => TypeOK
    BY DEF ConnectorInv
  <1>4. QED
    BY <1>2, <1>3, ConnectorInvariant, PTL DEF Spec, SiblingKeepsDevices
=============================================================================
