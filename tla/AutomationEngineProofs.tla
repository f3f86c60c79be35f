----------------------- MODULE AutomationEngineProofs -----------------------
(***************************************************************************)
(* First the gate, for every set of rules and keys and every value of the  *)
(* limits: it respects its caps, never strands a waiting request, treats   *)
(* the keys as they promise, and serves each rule in the order of          *)
(* submission.  Then the engine: it uses its gate as the gate's            *)
(* specification says, so that what is proved of the gate holds of the     *)
(* engine; the registry follows the rules' rows; a chain of causes stays   *)
(* within its budget.                                                      *)
(***************************************************************************)
EXTENDS AutomationEngine, TLAPS

(* Array.splice(i, 1): the element leaves, the later ones move up by one.  *)
LEMMA RemoveAtProperties ==
    ASSUME NEW S, NEW s \in Seq(S), NEW i \in 1..Len(s)
    PROVE  /\ RemoveAt(s, i) \in Seq(S)
           /\ Len(RemoveAt(s, i)) = Len(s) - 1
           /\ \A j \in 1..(Len(s) - 1) : RemoveAt(s, i)[j] = IF j < i THEN s[j] ELSE s[j + 1]
<1>1. Len(s) - 1 \in Nat
  OBVIOUS
<1>2. \A j \in 1..(Len(s) - 1) : s[IF j < i THEN j ELSE j + 1] \in S
  OBVIOUS
<1> QED
  BY <1>1, <1>2 DEF RemoveAt

(* Array.push(x).                                                          *)
LEMMA AppendExtends ==
    ASSUME NEW S, NEW s \in Seq(S), NEW x \in S
    PROVE  /\ Append(s, x) \in Seq(S)
           /\ Append(s, x) # <<>>
           /\ Len(Append(s, x)) = Len(s) + 1
           /\ \A i \in DOMAIN s : Append(s, x)[i] = s[i]
           /\ Append(s, x)[Len(s) + 1] = x
OBVIOUS

(* Cardinality is a recursive function of the subsets of its argument:     *)
(* here is that function, and its first two values.                        *)
Step(g, S) == [T \in SUBSET S |-> IF T = {} THEN 0 ELSE 1 + g[T \ {CHOOSE x : x \in T}]]

Count(S) == CHOOSE g : g = Step(g, S)

(* A set has as many elements as its own subsets count.                    *)
LEMMA CardinalityCounts == \A S : Cardinality(S) = Count(S)[S]
BY Zenon DEF Cardinality, Count, Step

(* The empty set has no element, a singleton one.                          *)
LEMMA OneOrNone == Cardinality({}) = 0 /\ \A x : Cardinality({x}) = 1
<1>1. \A S : Cardinality(S) = Count(S)[S]
  BY CardinalityCounts, Zenon
<1>2. \A S, g : g = Step(g, S) => Count(S) = Step(Count(S), S)
  BY Zenon DEF Count
<1>3. Cardinality({}) = 0
  <2>1. PICK f : f = [T \in SUBSET {} |-> 0]
    BY Zenon
  <2>2. f = Step(f, {})
    BY <2>1, Zenon DEF Step
  <2>3. Count({}) = Step(Count({}), {})
    BY <1>2, <2>2, Zenon
  <2> QED BY <1>1, <2>3, Zenon DEF Step
<1>4. ASSUME NEW x PROVE Cardinality({x}) = 1
  <2>1. PICK f : f = [T \in SUBSET {x} |-> IF T = {} THEN 0 ELSE 1]
    BY Zenon
  <2>2. \A T \in SUBSET {x} : T # {} => T \ {CHOOSE y : y \in T} = {}
    <3> SUFFICES ASSUME NEW T \in SUBSET {x}, T # {} PROVE T \ {CHOOSE y : y \in T} = {}
      BY Zenon
    <3>1. T = {x} /\ x \in T
      BY Zenon
    <3>2. (CHOOSE y : y \in T) \in T
      BY <3>1, Zenon
    <3> QED BY <3>1, <3>2, Zenon
  <2>3. f = Step(f, {x})
    BY <2>1, <2>2 DEF Step
  <2>4. Count({x}) = Step(Count({x}), {x})
    BY <1>2, <2>3, Zenon
  <2>5. Count({x})[{x}] = 1 + Count({x})[{}]
    BY <2>2, <2>4, Zenon DEF Step
  <2>6. Count({x})[{}] = 0
    BY <2>4, Zenon DEF Step
  <2> QED BY <1>1, <2>5, <2>6
<1> QED BY <1>3, <1>4, Zenon

(* What counting the running executions needs: adding one to the active    *)
(* set, or removing one, changes its size by one.  Every typed active set  *)
(* is finite and counts so (ActiveIsCounted); the library of theorems that *)
(* says so is brought in at the end, where alone it is used.               *)
ActiveCounts ==
    /\ Cardinality(active) \in Nat
    /\ \A r : r \notin active => Cardinality(active \cup {r}) = Cardinality(active) + 1
    /\ \A r \in active : Cardinality(active \ {r}) = Cardinality(active) - 1

-----------------------------------------------------------------------------
(* A step leaves the clauses about queues alone when it leaves queues and  *)
(* keys alone.                                                             *)
LEMMA WaitingUnchanged ==
    ASSUME UNCHANGED <<keyOf, queues>>
    PROVE  Waiting' = Waiting
BY Zenon DEF Waiting, Submissions

(* Appending a request changes nothing about the earlier ones.             *)
LEMMA SubmittedProperties ==
    ASSUME TypeOK, CanSubmit, NEW key \in Keys, NEW result \in Statuses,
           Submitted(key, result)
    PROVE  /\ keyOf' \in Seq(Keys) /\ status' \in Seq(Statuses)
           /\ Len(keyOf') = Len(keyOf) + 1
           /\ Len(status') = Len(keyOf')
           /\ Len(keyOf') <= MaxRequests
           /\ \A r \in DOMAIN keyOf : r \in DOMAIN keyOf' /\ keyOf'[r] = keyOf[r]
           /\ NextRequest \in DOMAIN keyOf' /\ NextRequest \notin DOMAIN keyOf
           /\ keyOf'[NextRequest] = key
           /\ NextRequest \in Requests
<1>1. /\ keyOf' = Append(keyOf, key) /\ status' = Append(status, result)
      /\ keyOf \in Seq(Keys) /\ status \in Seq(Statuses) /\ Len(status) = Len(keyOf)
      /\ Len(keyOf) < MaxRequests
  BY Zenon DEF Submitted, TypeOK, CanSubmit
<1> QED
  BY <1>1, GateAssumption DEF NextRequest, Requests

LEMMA InitGateInv == Init => GateInv
<1> SUFFICES ASSUME Init PROVE GateInv
  BY Zenon
<1>1. TypeOK
  BY GateAssumption DEF Init, TypeOK, Submissions
<1>2. QueuesIndexed
  BY GateAssumption DEF Init, QueuesIndexed, Submissions
<1>3. CapsRespected
  BY GateAssumption, OneOrNone DEF Init, CapsRespected
<1>4. WorkConserving
  BY DEF Init, WorkConserving, Waiting, Submissions
<1> QED
  BY <1>1, <1>2, <1>3, <1>4, Zenon DEF GateInv

LEMMA SuppressedOrDropped ==
    ASSUME GateInv, NEW key \in Keys, NEW result \in Statuses, CanSubmit,
           Submitted(key, result),
           UNCHANGED <<active, queues, queueOrder, dedupKeys, draining, now>>
    PROVE  GateInv'
<1> USE DEF GateInv
<1>1. /\ \A r \in DOMAIN keyOf : r \in DOMAIN keyOf' /\ keyOf'[r] = keyOf[r]
      /\ keyOf' \in Seq(Keys) /\ status' \in Seq(Statuses)
      /\ Len(keyOf') <= MaxRequests /\ Len(status') = Len(keyOf')
  BY SubmittedProperties, Zenon
<1>2. TypeOK'
  BY <1>1, Zenon DEF TypeOK, Submissions
<1>3. QueuesIndexed'
  BY <1>1 DEF QueuesIndexed, Submissions
<1>4. CapsRespected'
  BY Zenon DEF CapsRespected
<1>5. WorkConserving'
  <2>1. \A r \in Waiting' : r \in Waiting
    BY DEF Waiting, QueuesIndexed, Submissions
  <2>2. active \subseteq DOMAIN keyOf
    BY Zenon DEF TypeOK, Submissions
  <2> QED
    BY <1>1, <2>1, <2>2 DEF WorkConserving, SameKeyActive, Waiting, Submissions
<1> QED
  BY <1>2, <1>3, <1>4, <1>5, Zenon

LEMMA AdmittedKeepsInv ==
    ASSUME GateInv, ActiveCounts, NEW key \in Keys, SubmitAdmitted(key)
    PROVE  GateInv'
<1> USE DEF GateInv
<1>1. /\ CanSubmit /\ Submitted(key, "active") /\ ~MustWait(key)
      /\ active' = active \cup {NextRequest} /\ dedupKeys' = dedupKeys \cup {key}
      /\ UNCHANGED <<queues, queueOrder, draining, now>>
  BY Zenon DEF SubmitAdmitted
<1>2. "active" \in Statuses
  BY Zenon DEF Statuses
<1>3. /\ \A r \in DOMAIN keyOf : r \in DOMAIN keyOf' /\ keyOf'[r] = keyOf[r]
      /\ keyOf' \in Seq(Keys) /\ status' \in Seq(Statuses)
      /\ Len(keyOf') <= MaxRequests /\ Len(status') = Len(keyOf')
      /\ NextRequest \in DOMAIN keyOf' /\ NextRequest \notin DOMAIN keyOf
  BY <1>1, <1>2, SubmittedProperties, Zenon
<1>4. active \subseteq DOMAIN keyOf
  BY Zenon DEF TypeOK, Submissions
<1>5. TypeOK'
  BY <1>1, <1>3, <1>4, Zenon DEF TypeOK, Submissions
<1>6. QueuesIndexed'
  BY <1>1, <1>3 DEF QueuesIndexed, Submissions
<1>7. CapsRespected'
  <2>1. Cardinality(active) \in Nat
    BY Zenon DEF ActiveCounts
  <2>2. Cardinality(active') = Cardinality(active) + 1
    BY <1>1, <1>3, <1>4, Zenon DEF ActiveCounts
  <2>3. Cardinality(active) < MaxActive
    BY <1>1, <2>1, GateAssumption DEF MustWait
  <2> QED
    BY <1>1, <2>1, <2>2, <2>3, GateAssumption DEF CapsRespected
<1>8. WorkConserving'
  <2>1. \A r \in Waiting' : r \in Waiting
    BY <1>1, SMTT(30) DEF Waiting, QueuesIndexed, Submissions
  <2>2. Cardinality(active) \in Nat
    BY DEF ActiveCounts
  <2>3. Cardinality(active') = Cardinality(active) + 1
    BY <1>1, <1>3, <1>4, Zenon DEF ActiveCounts
  <2>4. Cardinality(active') < MaxActive => Cardinality(active) < MaxActive
    BY <2>2, <2>3, GateAssumption
  <2> QED
    BY <1>1, <1>3, <1>4, <2>1, <2>4 DEF WorkConserving, SameKeyActive, Waiting, Submissions
<1> QED
  BY <1>5, <1>6, <1>7, <1>8, Zenon

LEMMA QueuedKeepsInv ==
    ASSUME GateInv, ActiveCounts, NEW key \in Keys, SubmitQueued(key)
    PROVE  GateInv'
<1> USE DEF GateInv
<1> DEFINE rule == RuleOf[key]
           entry == [request |-> NextRequest, at |-> now]
<1>1. /\ CanSubmit /\ Submitted(key, "queued") /\ MustWait(key)
      /\ queues' = [queues EXCEPT ![rule] = Append(queues[rule], entry)]
      /\ queueOrder' = IF queues[rule] = <<>> THEN Append(queueOrder, rule) ELSE queueOrder
      /\ Len(queues[rule]) < MaxQueuePerRule
      /\ dedupKeys' = dedupKeys \cup {key}
      /\ UNCHANGED <<active, draining, now>>
  BY Zenon DEF SubmitQueued, QueueHasRoom
<1>2. "queued" \in Statuses
  BY Zenon DEF Statuses
<1>3. /\ \A r \in DOMAIN keyOf : r \in DOMAIN keyOf' /\ keyOf'[r] = keyOf[r]
      /\ keyOf' \in Seq(Keys) /\ status' \in Seq(Statuses)
      /\ Len(keyOf') <= MaxRequests /\ Len(status') = Len(keyOf')
      /\ NextRequest \in DOMAIN keyOf' /\ NextRequest \notin DOMAIN keyOf
      /\ keyOf'[NextRequest] = key
      /\ NextRequest \in Requests
  BY <1>1, <1>2, SubmittedProperties, Zenon
<1>4. /\ rule \in Rules
      /\ queues[rule] \in Seq(Entries) /\ entry \in Entries
      /\ queueOrder \in Seq(Rules)
      /\ active \subseteq DOMAIN keyOf
      /\ queues \in [Rules -> Seq(Entries)]
  BY <1>3, GateAssumption, Zenon DEF TypeOK, Submissions, Entries
<1>5. /\ queues'[rule] \in Seq(Entries)
      /\ queues'[rule] # <<>>
      /\ Len(queues'[rule]) = Len(queues[rule]) + 1
      /\ \A i \in DOMAIN queues[rule] : queues'[rule][i] = queues[rule][i]
      /\ queues'[rule][Len(queues[rule]) + 1] = entry
  <2>1. queues'[rule] = Append(queues[rule], entry)
    BY <1>1, <1>4, Zenon
  <2>2. PICK q \in Seq(Entries), e \in Entries : q = queues[rule] /\ e = entry
    BY <1>4, Zenon
  <2>3. PICK p : p = Append(q, e)
    BY Zenon
  <2>4. /\ p \in Seq(Entries) /\ p # <<>> /\ Len(p) = Len(q) + 1
        /\ \A i \in DOMAIN q : p[i] = q[i]
        /\ p[Len(q) + 1] = e
    BY <2>3, AppendExtends
  <2>5. p = queues'[rule]
    BY <2>1, <2>2, <2>3, Zenon
  <2> QED
    BY <2>2, <2>4, <2>5, Zenon
<1>6. /\ \A other \in Rules \ {rule} : queues'[other] = queues[other]
      /\ queues' \in [Rules -> Seq(Entries)]
  BY <1>1, <1>4, <1>5, Zenon
<1>7. queueOrder' \in Seq(Rules)
  BY <1>1, <1>4
<1>a. /\ Len(queues[rule]) \in Nat
      /\ DOMAIN queues[rule] = 1..Len(queues[rule])
      /\ DOMAIN queues'[rule] = 1..(Len(queues[rule]) + 1)
      /\ Len(queueOrder) \in Nat
      /\ DOMAIN queueOrder = 1..Len(queueOrder)
      /\ DOMAIN queueOrder' = 1..Len(queueOrder')
  BY <1>4, <1>5, <1>7
<1> HIDE DEF rule, entry
<1>8. TypeOK'
  BY <1>1, <1>3, <1>4, <1>6, <1>7, Zenon DEF TypeOK, Submissions
<1>9. QueuesIndexed'
  <2>1. /\ queues[rule] = <<>> => /\ Len(queueOrder') = Len(queueOrder) + 1
                                  /\ \A m \in DOMAIN queueOrder : queueOrder'[m] = queueOrder[m]
                                  /\ queueOrder'[Len(queueOrder) + 1] = rule
        /\ queues[rule] # <<>> => queueOrder' = queueOrder
    BY <1>1, <1>4
  <2>2. \A r \in Rules : queues'[r] # <<>> <=> \E m \in DOMAIN queueOrder' : queueOrder'[m] = r
    <3>1. CASE queues[rule] = <<>>
      <4>1. \A m \in DOMAIN queueOrder' : m \in DOMAIN queueOrder \/ m = Len(queueOrder) + 1
        BY <1>a, <2>1, <3>1
      <4>2. Len(queueOrder) + 1 \in DOMAIN queueOrder' /\ \A m \in DOMAIN queueOrder : m \in DOMAIN queueOrder'
        BY <1>a, <2>1, <3>1
      <4>3. queues'[rule] # <<>> /\ \E m \in DOMAIN queueOrder' : queueOrder'[m] = rule
        BY <1>5, <2>1, <3>1, <4>2, Zenon
      <4>4. ASSUME NEW r \in Rules, r # rule
            PROVE  queues'[r] # <<>> <=> \E m \in DOMAIN queueOrder' : queueOrder'[m] = r
        <5>1. queues'[r] # <<>> <=> \E m \in DOMAIN queueOrder : queueOrder[m] = r
          BY <1>6, <4>4, Zenon DEF QueuesIndexed
        <5> QED
          BY <2>1, <3>1, <4>1, <4>2, <4>4, <5>1, Zenon
      <4> QED
        BY <4>3, <4>4, Zenon
    <3>2. CASE queues[rule] # <<>>
      BY <1>4, <1>5, <1>6, <2>1, <3>2 DEF QueuesIndexed
    <3> QED
      BY <3>1, <3>2, Zenon
  <2>3. \A m, n \in DOMAIN queueOrder' : queueOrder'[m] = queueOrder'[n] => m = n
    <3>1. CASE queues[rule] = <<>>
      <4>1. \A m \in DOMAIN queueOrder' : m \in DOMAIN queueOrder \/ m = Len(queueOrder) + 1
        BY <1>a, <2>1, <3>1
      <4>2. \A m \in DOMAIN queueOrder : queueOrder[m] # rule
        BY <1>4, <3>1, Zenon DEF QueuesIndexed
      <4> QED
        BY <2>1, <3>1, <4>1, <4>2 DEF QueuesIndexed
    <3>2. CASE queues[rule] # <<>>
      BY <2>1, <3>2, Zenon DEF QueuesIndexed
    <3> QED
      BY <3>1, <3>2, Zenon
  <2>4. ASSUME NEW r \in Rules, NEW i \in DOMAIN queues'[r]
        PROVE  /\ queues'[r][i].request \in DOMAIN keyOf'
               /\ RuleOf[keyOf'[queues'[r][i].request]] = r
    <3>1. CASE r # rule
      BY <1>3, <1>6, <2>4, <3>1 DEF QueuesIndexed, Submissions
    <3>2. CASE r = rule /\ i \in DOMAIN queues[rule]
      BY <1>3, <1>4, <1>5, <2>4, <3>2 DEF QueuesIndexed, Submissions
    <3>3. CASE r = rule /\ i = Len(queues[rule]) + 1
      <4>1. queues'[r][i].request = NextRequest
        BY <1>5, <3>3 DEF entry
      <4> QED
        BY <1>3, <3>3, <4>1, Zenon DEF rule
    <3> QED
      BY <1>a, <3>1, <3>2, <3>3
  <2> QED
    BY <2>2, <2>3, <2>4, Zenon DEF QueuesIndexed, Submissions
<1>10. CapsRespected'
  BY <1>1, <1>4, <1>5, <1>6, GateAssumption DEF CapsRespected
<1>11. WorkConserving'
  <2> SUFFICES ASSUME draining' = "no", Cardinality(active') < MaxActive, NEW r \in Waiting'
               PROVE  (keyOf[r] \in StateKeys /\ SameKeyActive(keyOf[r]))'
    BY Zenon DEF WorkConserving
  <2>0. PICK other \in Rules : \E i \in DOMAIN queues'[other] : queues'[other][i].request = r
    BY Zenon DEF Waiting
  <2>1. PICK i \in DOMAIN queues'[other] : queues'[other][i].request = r
    BY <2>0, Zenon
  <2>2. CASE r = NextRequest
    <3>1. key \in StateKeys /\ SameKeyActive(key)
      BY <1>1, GateAssumption DEF MustWait, ActiveCounts
    <3> QED
      BY <1>1, <1>3, <1>4, <2>2, <3>1, Zenon DEF SameKeyActive
  <2>3. CASE r # NextRequest
    <3>1. i \in DOMAIN queues[other] /\ queues[other][i].request = r
      <4>1. CASE other # rule
        <5>1. queues'[other] = queues[other]
          BY <1>6, <4>1, Zenon
        <5> QED BY <2>1, <5>1, Zenon
      <4>2. CASE other = rule
        <5>1. queues'[rule][Len(queues[rule]) + 1].request = NextRequest
          BY <1>5 DEF entry
        <5>2. i # Len(queues[rule]) + 1
          BY <2>1, <2>3, <4>2, <5>1, Zenon
        <5>3. i \in DOMAIN queues[rule]
          BY <1>a, <2>1, <4>2, <5>2
        <5> QED BY <1>5, <2>1, <4>2, <5>3, Zenon
      <4> QED BY <4>1, <4>2, Zenon
    <3>2. r \in Waiting
      BY <3>1, Zenon DEF Waiting, QueuesIndexed
    <3>3. keyOf[r] \in StateKeys /\ SameKeyActive(keyOf[r])
      BY <1>1, <3>2, Zenon DEF WorkConserving
    <3>4. keyOf'[r] = keyOf[r]
      BY <1>3, <3>2, Zenon DEF Waiting, Submissions
    <3> QED
      BY <1>1, <1>3, <1>4, <3>3, <3>4, Zenon DEF SameKeyActive
  <2> QED
    BY <2>2, <2>3, Zenon
<1> QED
  BY <1>8, <1>9, <1>10, <1>11

LEMMA CoalescedKeepsInv ==
    ASSUME GateInv, NEW key \in Keys, SubmitCoalesced(key)
    PROVE  GateInv'
<1> USE DEF GateInv
<1> DEFINE rule == RuleOf[key]
<1>1. PICK i \in Pending(key) :
        /\ queues' = [queues EXCEPT ![rule][i].request = NextRequest]
        /\ keyOf' = Append(keyOf, key)
        /\ status' = Append([status EXCEPT ![queues[rule][i].request] = "superseded"], "queued")
  BY Zenon DEF SubmitCoalesced
<1>2. /\ CanSubmit /\ UNCHANGED <<active, queueOrder, dedupKeys, draining, now>>
      /\ key \in StateKeys
  BY Zenon DEF SubmitCoalesced
<1>3. /\ rule \in Rules
      /\ queues \in [Rules -> Seq(Entries)] /\ queues[rule] \in Seq(Entries)
      /\ i \in DOMAIN queues[rule] /\ i \in 1..Len(queues[rule])
      /\ keyOf[queues[rule][i].request] = key
      /\ queues[rule][i].request \in DOMAIN keyOf
  BY GateAssumption DEF TypeOK, Pending, QueuesIndexed, Submissions
<1> DEFINE old == queues[rule][i]
           entry == [old EXCEPT !.request = NextRequest]
<1>4. /\ keyOf \in Seq(Keys) /\ status \in Seq(Statuses) /\ Len(status) = Len(keyOf)
      /\ Len(keyOf) < MaxRequests /\ old.request \in 1..Len(status)
      /\ active \subseteq DOMAIN keyOf
  BY <1>2, <1>3 DEF TypeOK, CanSubmit, Submissions
<1>5. /\ keyOf' \in Seq(Keys)
      /\ Len(keyOf') = Len(keyOf) + 1 /\ Len(keyOf') <= MaxRequests
      /\ \A r \in DOMAIN keyOf : r \in DOMAIN keyOf' /\ keyOf'[r] = keyOf[r]
      /\ NextRequest \in DOMAIN keyOf' /\ keyOf'[NextRequest] = key
      /\ NextRequest \in Requests
  BY <1>1, <1>4, GateAssumption DEF NextRequest, Requests
<1>6. status' \in Seq(Statuses) /\ Len(status') = Len(keyOf')
  <2>1. "superseded" \in Statuses /\ "queued" \in Statuses
    BY Zenon DEF Statuses
  <2>2. /\ [status EXCEPT ![old.request] = "superseded"] \in Seq(Statuses)
        /\ Len([status EXCEPT ![old.request] = "superseded"]) = Len(status)
    BY <1>4, <2>1
  <2> QED
    BY <1>1, <1>4, <1>5, <2>1, <2>2
<1>7. old \in Entries /\ entry \in Entries /\ entry.request = NextRequest
  <2>1. old \in Entries
    BY <1>3
  <2>2. \A e \in Entries : LET f == [e EXCEPT !.request = NextRequest]
                           IN  f \in Entries /\ f.request = NextRequest
    BY <1>5, Zenon DEF Entries
  <2> QED
    BY <2>1, <2>2, Zenon
<1>8. queues' = [queues EXCEPT ![rule] = [queues[rule] EXCEPT ![i] = entry]]
  BY <1>1, <1>3, Zenon
<1> HIDE DEF old, entry, rule
<1>9. /\ queues'[rule] \in Seq(Entries) /\ Len(queues'[rule]) = Len(queues[rule])
      /\ DOMAIN queues'[rule] = DOMAIN queues[rule]
      /\ queues'[rule] # <<>> /\ queues[rule] # <<>>
      /\ \A j \in DOMAIN queues[rule] :
            queues'[rule][j] = IF j = i THEN entry ELSE queues[rule][j]
  <2>1. queues'[rule] = [queues[rule] EXCEPT ![i] = entry]
    BY <1>3, <1>8, Zenon
  <2>2. /\ [queues[rule] EXCEPT ![i] = entry] \in Seq(Entries)
        /\ Len([queues[rule] EXCEPT ![i] = entry]) = Len(queues[rule])
        /\ \A j \in 1..Len(queues[rule]) :
             [queues[rule] EXCEPT ![i] = entry][j] = IF j = i THEN entry ELSE queues[rule][j]
    BY <1>3, <1>7
  <2> QED
    BY <1>3, <2>1, <2>2
<1>10. /\ \A other \in Rules \ {rule} : queues'[other] = queues[other]
       /\ queues' \in [Rules -> Seq(Entries)]
  BY <1>3, <1>8, <1>9, Zenon
<1>11. TypeOK'
  BY <1>2, <1>4, <1>5, <1>6, <1>10, Zenon DEF TypeOK, Submissions
<1>12. QueuesIndexed'
  <2>1. \A r \in Rules : queues'[r] # <<>> <=> queues[r] # <<>>
    BY <1>9, <1>10, Zenon
  <2>2. ASSUME NEW r \in Rules, NEW j \in DOMAIN queues'[r]
        PROVE  /\ queues'[r][j].request \in DOMAIN keyOf'
               /\ RuleOf[keyOf'[queues'[r][j].request]] = r
    <3>1. CASE r = rule /\ j = i
      BY <1>3, <1>5, <1>7, <1>9, <3>1, Zenon DEF rule
    <3>2. CASE ~(r = rule /\ j = i)
      <4>1. j \in DOMAIN queues[r] /\ queues'[r][j] = queues[r][j]
        BY <1>9, <1>10, <2>2, <3>2, Zenon
      <4> QED
        BY <1>5, <4>1 DEF QueuesIndexed, Submissions
    <3> QED
      BY <3>1, <3>2, Zenon
  <2> QED
    BY <1>2, <2>1, <2>2, Zenon DEF QueuesIndexed, Submissions
<1>13. CapsRespected'
  BY <1>2, <1>9, <1>10, Zenon DEF CapsRespected
<1>14. WorkConserving'
  <2> SUFFICES ASSUME draining' = "no", Cardinality(active') < MaxActive, NEW r \in Waiting'
               PROVE  (keyOf[r] \in StateKeys /\ SameKeyActive(keyOf[r]))'
    BY Zenon DEF WorkConserving
  <2>1. PICK other \in Rules : \E j \in DOMAIN queues'[other] : queues'[other][j].request = r
    BY Zenon DEF Waiting
  <2>2. PICK j \in DOMAIN queues'[other] : queues'[other][j].request = r
    BY <2>1, Zenon
  <2>3. \E s \in Waiting : keyOf'[r] = keyOf[s]
    <3>1. CASE other = rule /\ j = i
      <4>1. old.request \in Waiting
        BY <1>3, Zenon DEF Waiting, Submissions, old
      <4> QED
        BY <1>3, <1>5, <1>7, <1>9, <2>2, <3>1, <4>1, SMTT(30) DEF old
    <3>2. CASE ~(other = rule /\ j = i)
      <4>1. j \in DOMAIN queues[other] /\ queues[other][j].request = r
        BY <1>9, <1>10, <2>2, <3>2, Zenon
      <4> QED
        BY <1>5, <4>1, Zenon DEF Waiting, QueuesIndexed, Submissions
    <3> QED
      BY <3>1, <3>2, Zenon
  <2>4. PICK s \in Waiting : keyOf'[r] = keyOf[s]
    BY <2>3, Zenon
  <2>5. keyOf[s] \in StateKeys /\ SameKeyActive(keyOf[s])
    BY <1>2, Zenon DEF WorkConserving
  <2> QED
    BY <1>2, <1>4, <1>5, <2>4, <2>5, Zenon DEF SameKeyActive
<1> QED
  BY <1>11, <1>12, <1>13, <1>14, Zenon

LEMMA CompleteKeepsInv ==
    ASSUME GateInv, ActiveCounts, NEW r \in active, Complete(r)
    PROVE  GateInv'
<1> USE DEF GateInv
<1>1. /\ active' = active \ {r} /\ status' = [status EXCEPT ![r] = "done"]
      /\ dedupKeys' = dedupKeys \ {keyOf[r]} /\ draining' = "released"
      /\ UNCHANGED <<keyOf, queues, queueOrder, now>>
  BY Zenon DEF Complete
<1>2. status' \in Seq(Statuses) /\ Len(status') = Len(keyOf)
  <2>1. /\ status \in Seq(Statuses) /\ r \in 1..Len(status) /\ Len(status) = Len(keyOf)
        /\ "done" \in Statuses
    BY DEF TypeOK, Submissions, Statuses
  <2> QED
    BY <1>1, <2>1
<1>3. TypeOK'
  BY <1>1, <1>2, Zenon DEF TypeOK, Submissions
<1>4. QueuesIndexed'
  BY <1>1, Zenon DEF QueuesIndexed, Submissions
<1>5. CapsRespected'
  <2>1. Cardinality(active') = Cardinality(active) - 1 /\ Cardinality(active) \in Nat
    BY <1>1, Zenon DEF ActiveCounts
  <2> QED
    BY <1>1, <2>1, GateAssumption DEF CapsRespected
<1>6. WorkConserving'
  BY <1>1, Zenon DEF WorkConserving
<1> QED
  BY <1>3, <1>4, <1>5, <1>6, Zenon

LEMMA PromoteKeepsInv ==
    ASSUME GateInv, ActiveCounts, Promote
    PROVE  GateInv'
<1>0. TypeOK /\ QueuesIndexed /\ CapsRespected
  BY Zenon DEF GateInv
<1>1. PICK m \in DOMAIN queueOrder : \E i \in DOMAIN queues[queueOrder[m]] :
        /\ queues' = [queues EXCEPT ![queueOrder[m]] = RemoveAt(queues[queueOrder[m]], i)]
        /\ queueOrder' = IF Len(queues[queueOrder[m]]) = 1
                         THEN RemoveAt(queueOrder, m) ELSE queueOrder
        /\ active' = active \cup {queues[queueOrder[m]][i].request}
        /\ status' = [status EXCEPT ![queues[queueOrder[m]][i].request] = "active"]
  BY Zenon DEF Promote
<1>b. PICK rule \in Rules : rule = queueOrder[m]
  BY <1>0 DEF TypeOK
<1>2. PICK i \in DOMAIN queues[rule] :
        /\ queues' = [queues EXCEPT ![rule] = RemoveAt(queues[rule], i)]
        /\ queueOrder' = IF Len(queues[rule]) = 1 THEN RemoveAt(queueOrder, m) ELSE queueOrder
        /\ active' = active \cup {queues[rule][i].request}
        /\ status' = [status EXCEPT ![queues[rule][i].request] = "active"]
  BY <1>1, <1>b, Zenon
<1>c. PICK r \in DOMAIN keyOf : r = queues[rule][i].request
  BY <1>0, Zenon DEF QueuesIndexed, Submissions
<1>3. /\ Cardinality(active) < MaxActive /\ draining' = "promoted"
      /\ UNCHANGED <<keyOf, dedupKeys, now>>
  BY Zenon DEF Promote
<1>4. /\ rule \in Rules /\ queues[rule] \in Seq(Entries) /\ i \in 1..Len(queues[rule])
      /\ queues \in [Rules -> Seq(Entries)] /\ queueOrder \in Seq(Rules)
      /\ m \in 1..Len(queueOrder)
  BY <1>0, <1>b DEF TypeOK
<1>5. /\ queues'[rule] \in Seq(Entries) /\ Len(queues'[rule]) = Len(queues[rule]) - 1
      /\ \A j \in 1..(Len(queues[rule]) - 1) :
            queues'[rule][j] = IF j < i THEN queues[rule][j] ELSE queues[rule][j + 1]
  BY <1>2, <1>4, RemoveAtProperties, Zenon
<1>6. /\ \A other \in Rules \ {rule} : queues'[other] = queues[other]
      /\ queues' \in [Rules -> Seq(Entries)]
  BY <1>2, <1>4, <1>5, Zenon
<1>7. /\ Len(queues[rule]) = 1 =>
            /\ queueOrder' \in Seq(Rules) /\ Len(queueOrder') = Len(queueOrder) - 1
            /\ \A n \in 1..(Len(queueOrder) - 1) :
                 queueOrder'[n] = IF n < m THEN queueOrder[n] ELSE queueOrder[n + 1]
      /\ Len(queues[rule]) # 1 => queueOrder' = queueOrder
  BY <1>2, <1>4, RemoveAtProperties, Zenon
<1>8. status' \in Seq(Statuses) /\ Len(status') = Len(keyOf)
  <2>1. /\ status \in Seq(Statuses) /\ r \in 1..Len(status) /\ Len(status) = Len(keyOf)
        /\ "active" \in Statuses
    BY <1>0, <1>c DEF TypeOK, Submissions, Statuses
  <2> QED
    BY <1>2, <1>c, <2>1
<1>a. /\ Len(queues[rule]) \in Nat /\ i \in Nat /\ 1 <= i /\ i <= Len(queues[rule])
      /\ DOMAIN queues[rule] = 1..Len(queues[rule])
      /\ DOMAIN queues'[rule] = 1..(Len(queues[rule]) - 1)
      /\ Len(queueOrder) \in Nat /\ m \in Nat /\ 1 <= m /\ m <= Len(queueOrder)
      /\ DOMAIN queueOrder = 1..Len(queueOrder)
      /\ Len(queues[rule]) = 1 => DOMAIN queueOrder' = 1..(Len(queueOrder) - 1)
  BY <1>4, <1>5, <1>7, SMTT(30)
<1>9. TypeOK'
  BY <1>0, <1>2, <1>3, <1>6, <1>7, <1>8, <1>c, Zenon DEF TypeOK, Submissions
<1>10. QueuesIndexed'
  <2>1. \A s \in Rules : queues'[s] # <<>> <=> \E n \in DOMAIN queueOrder' : queueOrder'[n] = s
    <3>1. CASE Len(queues[rule]) # 1
      <4>1. queues'[rule] # <<>> /\ queues[rule] # <<>>
        <5>1. Len(queues'[rule]) # 0 /\ Len(queues[rule]) # 0
          BY <1>5, <1>a, <3>1
        <5> QED
          BY <5>1
      <4> QED
        BY <1>0, <1>6, <1>7, <3>1, <4>1 DEF QueuesIndexed
    <3>2. CASE Len(queues[rule]) = 1
      <4>1. queues'[rule] = <<>>
        BY <1>5, <3>2
      <4>2. \A n \in DOMAIN queueOrder' : queueOrder'[n] # rule
        <5> SUFFICES ASSUME NEW n \in 1..(Len(queueOrder) - 1) PROVE queueOrder'[n] # rule
          BY <1>a, <3>2, Zenon
        <5>1. CASE n < m
          BY <1>0, <1>7, <1>a, <1>b, <3>2, <5>1 DEF QueuesIndexed
        <5>2. CASE n >= m
          <6>1. n + 1 \in DOMAIN queueOrder /\ n + 1 # m
            BY <1>a, <5>2
          <6> QED
            BY <1>0, <1>7, <1>a, <1>b, <3>2, <5>2, <6>1 DEF QueuesIndexed
        <5> QED
          BY <1>a, <5>1, <5>2
      <4>3. ASSUME NEW s \in Rules, s # rule
            PROVE  (\E n \in DOMAIN queueOrder' : queueOrder'[n] = s)
                     <=> (\E n \in DOMAIN queueOrder : queueOrder[n] = s)
        <5>1. ASSUME NEW n \in DOMAIN queueOrder', queueOrder'[n] = s
              PROVE  \E k \in DOMAIN queueOrder : queueOrder[k] = s
          BY <1>7, <1>a, <3>2, <5>1
        <5>2. ASSUME NEW n \in DOMAIN queueOrder, queueOrder[n] = s
              PROVE  \E k \in DOMAIN queueOrder' : queueOrder'[k] = s
          <6>1. n # m
            BY <1>b, <4>3, <5>2, Zenon
          <6>2. CASE n < m
            BY <1>7, <1>a, <3>2, <5>2, <6>2
          <6>3. CASE n > m
            <7>1. n - 1 \in DOMAIN queueOrder' /\ queueOrder'[n - 1] = queueOrder[n]
              BY <1>7, <1>a, <3>2, <6>3
            <7> QED
              BY <5>2, <7>1, Zenon
          <6> QED
            BY <1>a, <6>1, <6>2, <6>3
        <5> QED
          BY <5>1, <5>2, Zenon
      <4> QED
        BY <1>0, <1>6, <4>1, <4>2, <4>3, Zenon DEF QueuesIndexed
    <3> QED
      BY <3>1, <3>2, Zenon
  <2>2. ASSUME NEW k \in DOMAIN queueOrder', NEW n \in DOMAIN queueOrder',
               queueOrder'[k] = queueOrder'[n]
        PROVE  k = n
    <3>1. CASE Len(queues[rule]) # 1
      BY <1>0, <1>7, <2>2, <3>1, Zenon DEF QueuesIndexed
    <3>2. CASE Len(queues[rule]) = 1
      <4> DEFINE src(x) == IF x < m THEN x ELSE x + 1
      <4>1. /\ src(k) \in DOMAIN queueOrder /\ src(n) \in DOMAIN queueOrder
            /\ queueOrder[src(k)] = queueOrder[src(n)]
            /\ k \in Int /\ n \in Int
        BY <1>7, <1>a, <2>2, <3>2
      <4>2. src(k) = src(n)
        BY <1>0, <4>1 DEF QueuesIndexed
      <4> QED
        BY <1>a, <4>1, <4>2
    <3> QED
      BY <3>1, <3>2, Zenon
  <2>3. ASSUME NEW s \in Rules, NEW j \in DOMAIN queues'[s]
        PROVE  \E k \in DOMAIN queues[s] : queues'[s][j] = queues[s][k]
    <3>1. CASE s # rule
      BY <1>6, <3>1, Zenon
    <3>2. CASE s = rule
      <4>1. j \in 1..(Len(queues[rule]) - 1)
        BY <1>a, <2>3, <3>2, Zenon
      <4>2. queues'[rule][j] = IF j < i THEN queues[rule][j] ELSE queues[rule][j + 1]
        BY <1>5, <4>1, Zenon
      <4>3. j \in DOMAIN queues[rule] /\ j + 1 \in DOMAIN queues[rule]
        BY <1>a, <4>1
      <4> QED
        BY <3>2, <4>2, <4>3, Zenon
    <3> QED
      BY <3>1, <3>2, Zenon
  <2> QED
    BY <1>0, <1>3, <2>1, <2>2, <2>3 DEF QueuesIndexed, Submissions
<1>11. CapsRespected'
  <2>1. Cardinality(active) \in Nat
    BY Zenon DEF ActiveCounts
  <2>2. Cardinality(active') <= Cardinality(active) + 1 /\ Cardinality(active') \in Nat
    <3>1. CASE r \in active
      <4>1. active' = active
        BY <1>2, <1>c, <3>1, Zenon
      <4> QED
        BY <2>1, <4>1
    <3>2. CASE r \notin active
      <4>1. active' = active \cup {r}
        BY <1>2, <1>c, Zenon
      <4>2. Cardinality(active \cup {r}) = Cardinality(active) + 1
        BY <3>2, Zenon DEF ActiveCounts
      <4> QED
        BY <2>1, <4>1, <4>2
    <3> QED
      BY <3>1, <3>2, Zenon
  <2>3. \A s \in Rules : Len(queues'[s]) <= MaxQueuePerRule
    <3>1. Len(queues[rule]) <= MaxQueuePerRule
      BY <1>0, Zenon DEF CapsRespected
    <3>2. Len(queues'[rule]) = Len(queues[rule]) - 1
      BY <1>5, Zenon
    <3>3. Len(queues'[rule]) <= MaxQueuePerRule
      BY <1>a, <3>1, <3>2, GateAssumption
    <3> QED
      BY <1>0, <1>6, <3>3, Zenon DEF CapsRespected
  <2> QED
    BY <1>0, <1>3, <2>1, <2>2, <2>3, GateAssumption DEF CapsRespected
<1>12. WorkConserving'
  BY <1>3, Zenon DEF WorkConserving
<1> QED
  BY <1>9, <1>10, <1>11, <1>12, Zenon DEF GateInv

LEMMA EndDrainKeepsInv ==
    ASSUME GateInv, ActiveCounts, EndDrain
    PROVE  GateInv'
<1> USE DEF GateInv
<1>1. UNCHANGED <<keyOf, status, active, queues, queueOrder, dedupKeys, now>> /\ draining' = "no"
  BY Zenon DEF EndDrain
<1>2. TypeOK' /\ QueuesIndexed' /\ CapsRespected'
  BY <1>1, Zenon DEF TypeOK, QueuesIndexed, CapsRespected, Submissions
<1>3. WorkConserving'
  <2>1. CASE Cardinality(active) >= MaxActive
    BY <1>1, <2>1, GateAssumption DEF WorkConserving, ActiveCounts
  <2>2. CASE queueOrder = <<>>
    <3>1. \A rule \in Rules : queues[rule] = <<>>
      BY <2>2 DEF QueuesIndexed
    <3> QED
      BY <1>1, <3>1 DEF WorkConserving, Waiting
  <2> QED
    BY <2>1, <2>2, Zenon DEF EndDrain
<1> QED
  BY <1>2, <1>3, Zenon

LEMMA TickKeepsInv ==
    ASSUME GateInv, Tick \/ UNCHANGED vars
    PROVE  GateInv'
<1>1. UNCHANGED <<keyOf, status, active, queues, queueOrder, dedupKeys, draining>> /\ now' \in 0..MaxTime
  BY Zenon DEF Tick, vars, GateInv, TypeOK
<1>2. Waiting' = Waiting
  BY <1>1, WaitingUnchanged, Zenon
<1> QED
  BY <1>1, <1>2, Zenon DEF GateInv, TypeOK, QueuesIndexed, CapsRespected, WorkConserving,
                    SameKeyActive, Submissions

(* The inductive step, one case per action.                                *)
LEMMA NextKeepsInv == GateInv /\ ActiveCounts /\ [Next]_vars => GateInv'
<1> SUFFICES ASSUME GateInv, ActiveCounts, [Next]_vars PROVE GateInv'
  BY Zenon
<1>1. ASSUME NEW key \in Keys, Submit(key) PROVE GateInv'
  <2>1. CASE SubmitCoalesced(key)
    BY <2>1, CoalescedKeepsInv, Zenon
  <2>2. CASE SubmitSuppressed(key)
    BY <2>2, SuppressedOrDropped, Zenon DEF SubmitSuppressed, Statuses
  <2>3. CASE SubmitAdmitted(key)
    BY <2>3, AdmittedKeepsInv, Zenon
  <2>4. CASE SubmitQueued(key)
    BY <2>4, QueuedKeepsInv
  <2>5. CASE SubmitDropped(key)
    BY <2>5, SuppressedOrDropped, Zenon DEF SubmitDropped, Statuses
  <2> QED
    BY <1>1, <2>1, <2>2, <2>3, <2>4, <2>5, Zenon DEF Submit
<1>2. ASSUME NEW r \in active, Complete(r) PROVE GateInv'
  BY <1>2, CompleteKeepsInv, Zenon
<1>3. CASE Promote
  BY <1>3, PromoteKeepsInv, Zenon
<1>4. CASE EndDrain
  BY <1>4, EndDrainKeepsInv
<1>5. CASE Tick \/ UNCHANGED vars
  BY <1>5, TickKeepsInv, Zenon
<1> QED
  BY <1>1, <1>2, <1>3, <1>4, <1>5, Zenon DEF Next

-----------------------------------------------------------------------------
(* What the keys promise.  A queue holds a request at one place, and       *)
(* beyond that the argument is about the sets of waiting and of running    *)
(* requests.                                                               *)
WaitsOnce ==
    \A rule \in Rules : \A i, j \in DOMAIN queues[rule] :
        queues[rule][i].request = queues[rule][j].request => i = j

StatusesAgree ==
    /\ \A r \in active : status[r] = "active"
    /\ \A r \in Waiting : status[r] = "queued"

(* At most one request of each key waits.                                  *)
OneWaitsPerKey == \A r, s \in Waiting : keyOf[r] = keyOf[s] => r = s

(* A discrete key is registered for the one request of it that is live.    *)
KeysExact ==
    \A key \in Keys \ StateKeys :
        /\ key \in dedupKeys <=> \E r \in active \cup Waiting : keyOf[r] = key
        /\ \A r, s \in active \cup Waiting : keyOf[r] = key /\ keyOf[s] = key => r = s

SourceSets ==
    /\ StatusesAgree /\ OneWaitsPerKey /\ KeysExact
    /\ StartsInSubmissionOrder /\ LatestStateSurvives

SourceInv == WaitsOnce /\ SourceSets

(* A request is submitted; another one may be superseded by it.            *)
Numbered(key, result, old) ==
    /\ DOMAIN keyOf' = DOMAIN keyOf \cup {NextRequest}
    /\ keyOf'[NextRequest] = key /\ status'[NextRequest] = result
    /\ \A r \in DOMAIN keyOf :
        /\ r \in Nat /\ NextRequest \in Nat /\ r < NextRequest /\ keyOf'[r] = keyOf[r]
        /\ status'[r] = IF r = old THEN "superseded" ELSE status[r]

LEMMA SubmittedIsNumbered ==
    ASSUME TypeOK, NEW key \in Keys, NEW result, Submitted(key, result)
    PROVE  Numbered(key, result, 0)
<1>1. /\ keyOf \in Seq(Keys) /\ status \in Seq(Statuses) /\ Len(status) = Len(keyOf)
      /\ keyOf' = Append(keyOf, key) /\ status' = Append(status, result)
  BY Zenon DEF TypeOK, Submitted
<1>2. /\ DOMAIN keyOf' = 1..(Len(keyOf) + 1) /\ DOMAIN keyOf = 1..Len(keyOf)
      /\ keyOf'[Len(keyOf) + 1] = key /\ \A r \in 1..Len(keyOf) : keyOf'[r] = keyOf[r]
  BY <1>1
<1>3. /\ status'[Len(keyOf) + 1] = result /\ \A r \in 1..Len(keyOf) : status'[r] = status[r]
  BY <1>1
<1>4. Len(keyOf) \in Nat
  BY <1>1
<1> QED
  BY <1>2, <1>3, <1>4 DEF Numbered, NextRequest

LEMMA SupersedingIsNumbered ==
    ASSUME TypeOK, NEW key \in Keys, NEW old \in DOMAIN keyOf, keyOf' = Append(keyOf, key),
           status' = Append([status EXCEPT ![old] = "superseded"], "queued")
    PROVE  Numbered(key, "queued", old)
<1> DEFINE st == [status EXCEPT ![old] = "superseded"]
<1>1. /\ keyOf \in Seq(Keys) /\ status \in Seq(Statuses) /\ Len(status) = Len(keyOf)
      /\ old \in 1..Len(status) /\ {"superseded", "queued"} \subseteq Statuses
  BY DEF TypeOK, Statuses
<1>2. /\ DOMAIN keyOf' = 1..(Len(keyOf) + 1) /\ DOMAIN keyOf = 1..Len(keyOf)
      /\ keyOf'[Len(keyOf) + 1] = key /\ \A r \in 1..Len(keyOf) : keyOf'[r] = keyOf[r]
  BY <1>1
<1>3. /\ st \in Seq(Statuses) /\ Len(st) = Len(keyOf)
      /\ \A r \in 1..Len(keyOf) : st[r] = IF r = old THEN "superseded" ELSE status[r]
  BY <1>1
<1> HIDE DEF st
<1>4. /\ status'[Len(keyOf) + 1] = "queued" /\ \A r \in 1..Len(keyOf) : status'[r] = st[r]
  BY <1>3 DEF st
<1>5. Len(keyOf) \in Nat
  BY <1>1
<1>6. DOMAIN keyOf' = DOMAIN keyOf \cup {NextRequest}
  BY <1>2, <1>5 DEF NextRequest
<1>7. \A r \in DOMAIN keyOf : r \in Nat /\ NextRequest \in Nat /\ r < NextRequest
  BY <1>2, <1>5 DEF NextRequest
<1>8. \A r \in DOMAIN keyOf :
        status'[r] = IF r = old THEN "superseded" ELSE status[r]
  BY <1>2, <1>3, <1>4, Zenon
<1> QED
  BY <1>2, <1>4, <1>6, <1>7, <1>8, Zenon DEF Numbered, NextRequest

(* Every entry of a queue is a request that waits, and the other way round. *)
LEMMA EntriesWait ==
    ASSUME QueuesIndexed
    PROVE  /\ \A rule \in Rules : \A i \in DOMAIN queues[rule] : queues[rule][i].request \in Waiting
           /\ \A r \in Waiting : \E rule \in Rules : \E i \in DOMAIN queues[rule] :
                                    queues[rule][i].request = r
           /\ Waiting \subseteq DOMAIN keyOf
BY Zenon DEF QueuesIndexed, Waiting, Submissions

LEMMA SameQueuesWait ==
    ASSUME QueuesIndexed, queues' = queues, DOMAIN keyOf \subseteq DOMAIN keyOf'
    PROVE  Waiting' = Waiting /\ (WaitsOnce => WaitsOnce')
<1>1. Waiting' = Waiting
  BY DEF QueuesIndexed, Waiting, Submissions
<1>2. WaitsOnce => WaitsOnce'
  BY Zenon DEF WaitsOnce
<1> QED
  BY <1>1, <1>2, Zenon

LEMMA FreshMeansNobodyWaits ==
    ASSUME QueuesIndexed, NEW key \in Keys, Fresh(key)
    PROVE  /\ key \in StateKeys => \A r \in Waiting : keyOf[r] # key
           /\ key \notin StateKeys => key \notin dedupKeys
<1>1. ASSUME key \in StateKeys, NEW r \in Waiting, keyOf[r] = key PROVE FALSE
  <2>1. PICK rule \in Rules : \E i \in DOMAIN queues[rule] : queues[rule][i].request = r
    BY EntriesWait, Zenon
  <2>2. PICK i \in DOMAIN queues[rule] : queues[rule][i].request = r
    BY <2>1, Zenon
  <2>3. RuleOf[key] = rule
    BY <1>1, <2>2, Zenon DEF QueuesIndexed
  <2>4. i \in Pending(key)
    BY <1>1, <2>2, <2>3, Zenon DEF Pending
  <2> QED
    BY <1>1, <2>4, Zenon DEF Fresh
<1> QED
  BY <1>1, Zenon DEF Fresh

-----------------------------------------------------------------------------
(* The sets of requests under each operation.                              *)
Sets == Waiting \subseteq DOMAIN keyOf /\ active \subseteq DOMAIN keyOf

(* A refused request changes neither set.                                  *)
LEMMA RefusedKeepsSets ==
    ASSUME SourceSets, Sets, NEW key \in Keys, NEW result \in {"suppressed", "dropped"},
           Numbered(key, result, 0), Waiting' = Waiting, active' = active, dedupKeys' = dedupKeys,
           0 \notin DOMAIN keyOf
    PROVE  SourceSets'
<1>1. \A r \in DOMAIN keyOf : r \in DOMAIN keyOf' /\ keyOf'[r] = keyOf[r] /\ status'[r] = status[r]
  BY Zenon DEF Numbered
<1>2. StatusesAgree' /\ OneWaitsPerKey'
  BY <1>1 DEF StatusesAgree, OneWaitsPerKey, SourceSets, Sets
<1>3. KeysExact'
  BY <1>1 DEF KeysExact, SourceSets, Sets
<1>4. StartsInSubmissionOrder'
  BY <1>1, Zenon DEF StartsInSubmissionOrder, SourceSets, Sets, Numbered, Submissions
<1>5. LatestStateSurvives'
  BY <1>1, Zenon DEF LatestStateSurvives, SourceSets, Sets, Numbered, Submissions
<1> QED
  BY <1>2, <1>3, <1>4, <1>5, Zenon DEF SourceSets

(* A request that starts at once: nothing of its source waits.             *)
LEMMA AdmittedKeepsSets ==
    ASSUME SourceSets, Sets, NEW key \in Keys, Numbered(key, "active", 0),
           Waiting' = Waiting, active' = active \cup {NextRequest},
           dedupKeys' = dedupKeys \cup {key}, 0 \notin DOMAIN keyOf,
           key \in StateKeys => \A r \in Waiting : keyOf[r] # key,
           key \notin StateKeys => key \notin dedupKeys
    PROVE  SourceSets'
<1>1. \A r \in DOMAIN keyOf : r \in DOMAIN keyOf' /\ keyOf'[r] = keyOf[r] /\ status'[r] = status[r]
  BY Zenon DEF Numbered
<1>2. StatusesAgree' /\ OneWaitsPerKey'
  BY <1>1 DEF StatusesAgree, OneWaitsPerKey, SourceSets, Sets, Numbered
<1>3. KeysExact'
  BY <1>1 DEF KeysExact, SourceSets, Sets, Numbered
<1>4. StartsInSubmissionOrder'
  BY <1>1 DEF StartsInSubmissionOrder, SourceSets, Sets, Numbered, Submissions
<1>5. LatestStateSurvives'
  BY <1>1, Zenon DEF LatestStateSurvives, SourceSets, Sets, Numbered, Submissions
<1> QED
  BY <1>2, <1>3, <1>4, <1>5, Zenon DEF SourceSets

(* A request that joins a queue: it is the newest, and alone of its key.   *)
LEMMA QueuedKeepsSets ==
    ASSUME SourceSets, Sets, NEW key \in Keys, Numbered(key, "queued", 0),
           Waiting' = Waiting \cup {NextRequest}, active' = active,
           dedupKeys' = dedupKeys \cup {key}, 0 \notin DOMAIN keyOf,
           key \in StateKeys => \A r \in Waiting : keyOf[r] # key,
           key \notin StateKeys => key \notin dedupKeys
    PROVE  SourceSets'
<1>1. \A r \in DOMAIN keyOf : /\ r \in DOMAIN keyOf' /\ keyOf'[r] = keyOf[r] /\ status'[r] = status[r]
                              /\ r < NextRequest
  BY Zenon DEF Numbered
<1>2. StatusesAgree'
  BY <1>1, Zenon DEF StatusesAgree, SourceSets, Sets, Numbered
<1>3. OneWaitsPerKey'
  <2>1. \A r \in Waiting : keyOf[r] # key
    BY Zenon DEF SourceSets, KeysExact
  <2> QED
    BY <1>1, <2>1 DEF OneWaitsPerKey, SourceSets, Sets, Numbered
<1>4. KeysExact'
  BY <1>1 DEF KeysExact, SourceSets, Sets, Numbered
<1>5. StartsInSubmissionOrder'
  BY <1>1, Zenon DEF StartsInSubmissionOrder, SourceSets, Sets, Numbered, Submissions
<1>6. LatestStateSurvives'
  BY <1>1, Zenon DEF LatestStateSurvives, SourceSets, Sets, Numbered, Submissions
<1> QED
  BY <1>2, <1>3, <1>4, <1>5, <1>6, Zenon DEF SourceSets

(* A newer state takes the place of the pending one.                       *)
LEMMA CoalescedKeepsSets ==
    ASSUME SourceSets, Sets, NEW key \in StateKeys, NEW old \in Waiting, keyOf[old] = key,
           Numbered(key, "queued", old),
           Waiting' = (Waiting \ {old}) \cup {NextRequest}, active' = active,
           dedupKeys' = dedupKeys
    PROVE  SourceSets'
<1>1. \A r \in DOMAIN keyOf : /\ r \in DOMAIN keyOf' /\ keyOf'[r] = keyOf[r]
                              /\ r # old => status'[r] = status[r]
                              /\ r \in Nat /\ NextRequest \in Nat /\ r < NextRequest
  BY Zenon DEF Numbered
<1>2. status[old] = "queued" /\ status'[old] = "superseded"
  BY Zenon DEF SourceSets, StatusesAgree, Sets, Numbered
<1>3. StatusesAgree'
  BY <1>1, <1>2, Zenon DEF StatusesAgree, SourceSets, Sets, Numbered
<1>4. OneWaitsPerKey'
  BY <1>1 DEF OneWaitsPerKey, SourceSets, Sets, Numbered
<1>5. KeysExact'
  BY <1>1 DEF KeysExact, SourceSets, Sets, Numbered
<1>6. StartsInSubmissionOrder'
  BY <1>1, <1>2, Zenon DEF StartsInSubmissionOrder, SourceSets, Sets, Numbered, Submissions
<1>7. LatestStateSurvives'
  <2> SUFFICES ASSUME NEW s \in DOMAIN keyOf', status'[s] = "superseded"
               PROVE  \E r \in DOMAIN keyOf' : r > s /\ keyOf'[r] = keyOf'[s]
                                               /\ status'[r] \in {"queued", "active", "done"}
    BY Zenon DEF LatestStateSurvives, Submissions
  <2>1. s \in DOMAIN keyOf
    BY Zenon DEF Numbered
  <2>2. NextRequest \in DOMAIN keyOf' /\ keyOf'[NextRequest] = key /\ status'[NextRequest] = "queued"
    BY Zenon DEF Numbered
  <2>3. CASE s = old
    BY <1>1, <2>1, <2>2, <2>3, Zenon
  <2>4. CASE s # old
    <3>1. PICK r \in DOMAIN keyOf : r > s /\ keyOf[r] = keyOf[s]
                                   /\ status[r] \in {"queued", "active", "done"}
      BY <1>1, <2>1, <2>4, Zenon DEF SourceSets, LatestStateSurvives, Submissions
    <3> QED
      BY <1>1, <2>1, <2>2, <3>1, Zenon
  <2> QED
    BY <2>3, <2>4, Zenon
<1> QED
  BY <1>3, <1>4, <1>5, <1>6, <1>7, Zenon DEF SourceSets

(* A waiting request starts: no other of its source waits.                 *)
LEMMA PromotedKeepsSets ==
    ASSUME SourceSets, Sets, NEW r \in Waiting, keyOf' = keyOf,
           Waiting' = Waiting \ {r}, active' = active \cup {r}, dedupKeys' = dedupKeys,
           \A s \in DOMAIN keyOf : status'[s] = IF s = r THEN "active" ELSE status[s]
    PROVE  SourceSets'
<1>1. status[r] = "queued" /\ status'[r] = "active" /\ r \in DOMAIN keyOf
  BY Zenon DEF SourceSets, StatusesAgree, Sets
<1>2. StatusesAgree' /\ OneWaitsPerKey'
  BY <1>1 DEF StatusesAgree, OneWaitsPerKey, SourceSets, Sets
<1>3. KeysExact'
  <2>1. active' \cup Waiting' = active \cup Waiting
    BY Zenon
  <2> QED
    BY <2>1 DEF KeysExact, SourceSets
<1>4. StartsInSubmissionOrder'
  BY <1>1 DEF StartsInSubmissionOrder, OneWaitsPerKey, SourceSets, Sets, Submissions
<1>5. LatestStateSurvives'
  BY <1>1 DEF LatestStateSurvives, SourceSets, Sets, Submissions
<1> QED
  BY <1>2, <1>3, <1>4, <1>5, Zenon DEF SourceSets

(* An execution ends: it was the only live one of a discrete key.          *)
LEMMA CompleteKeepsSets ==
    ASSUME SourceSets, Sets, NEW r \in active, keyOf' = keyOf,
           Waiting' = Waiting, active' = active \ {r}, dedupKeys' = dedupKeys \ {keyOf[r]},
           \A s \in DOMAIN keyOf : status'[s] = IF s = r THEN "done" ELSE status[s]
    PROVE  SourceSets'
<1>1. status[r] = "active" /\ status'[r] = "done" /\ r \in DOMAIN keyOf /\ r \notin Waiting
  BY Zenon DEF SourceSets, StatusesAgree, Sets
<1>2. StatusesAgree' /\ OneWaitsPerKey'
  BY <1>1 DEF StatusesAgree, OneWaitsPerKey, SourceSets, Sets
<1>3. KeysExact'
  BY <1>1 DEF KeysExact, SourceSets
<1>4. StartsInSubmissionOrder'
  BY <1>1, Zenon DEF StartsInSubmissionOrder, SourceSets, Sets, Submissions
<1>5. LatestStateSurvives'
  BY <1>1 DEF LatestStateSurvives, SourceSets, Sets, Submissions
<1> QED
  BY <1>2, <1>3, <1>4, <1>5, Zenon DEF SourceSets

-----------------------------------------------------------------------------
(* The queues under each operation.                                        *)
LEMMA TypedSets ==
    ASSUME TypeOK, QueuesIndexed
    PROVE  Sets /\ 0 \notin DOMAIN keyOf
<1>1. 0 \notin DOMAIN keyOf
  BY DEF TypeOK
<1> QED
  BY <1>1, EntriesWait, Zenon DEF TypeOK, Sets, Submissions

LEMMA QueuedWaits ==
    ASSUME GateInv, WaitsOnce, NEW key \in Keys, SubmitQueued(key)
    PROVE  Waiting' = Waiting \cup {NextRequest} /\ WaitsOnce'
<1> DEFINE rule == RuleOf[key]
           n == Len(queues[rule]) + 1
<1>1. /\ rule \in Rules /\ queues \in [Rules -> Seq(Entries)] /\ queues[rule] \in Seq(Entries)
      /\ TypeOK /\ QueuesIndexed
  BY GateAssumption, Zenon DEF GateInv, TypeOK
<1>2. /\ queues' = [queues EXCEPT ![rule] = Append(queues[rule], [request |-> NextRequest, at |-> now])]
      /\ Submitted(key, "queued")
  BY Zenon DEF SubmitQueued
<1>3. Numbered(key, "queued", 0)
  BY <1>1, <1>2, SubmittedIsNumbered, Zenon
<1>4. /\ DOMAIN queues'[rule] = DOMAIN queues[rule] \cup {n} /\ n \notin DOMAIN queues[rule]
      /\ queues'[rule][n].request = NextRequest
      /\ \A i \in DOMAIN queues[rule] : queues'[rule][i] = queues[rule][i]
  BY <1>1, <1>2
<1>5. \A other \in Rules \ {rule} : queues'[other] = queues[other]
  BY <1>1, <1>2, Zenon
<1>6. NextRequest \notin DOMAIN keyOf
  BY <1>1 DEF TypeOK, NextRequest
<1> HIDE DEF rule, n
<1>7. WaitsOnce'
  <2> SUFFICES ASSUME NEW q \in Rules, NEW i \in DOMAIN queues'[q], NEW j \in DOMAIN queues'[q],
                      queues'[q][i].request = queues'[q][j].request
               PROVE  i = j
    BY Zenon DEF WaitsOnce
  <2>1. CASE q # rule
    BY <1>5, <2>1, Zenon DEF WaitsOnce
  <2>2. CASE q = rule
    <3>1. \A k \in DOMAIN queues[rule] : queues'[rule][k].request # NextRequest
      BY <1>1, <1>4, <1>6 DEF QueuesIndexed, Submissions
    <3> QED
      BY <1>1, <1>4, <2>2, <3>1 DEF WaitsOnce
  <2> QED
    BY <2>1, <2>2, Zenon
<1>8. ASSUME NEW r PROVE r \in Waiting' <=> r \in Waiting \cup {NextRequest}
  <2>1. ASSUME r \in Waiting' PROVE r \in Waiting \cup {NextRequest}
    <3>1. PICK q \in Rules : \E i \in DOMAIN queues'[q] : queues'[q][i].request = r
      BY <2>1, Zenon DEF Waiting
    <3>2. PICK i \in DOMAIN queues'[q] : queues'[q][i].request = r
      BY <3>1, Zenon
    <3>3. CASE q # rule
      BY <1>1, <1>5, <3>2, <3>3, EntriesWait, Zenon
    <3>4. CASE q = rule
      BY <1>1, <1>4, <3>2, <3>4, EntriesWait, Zenon
    <3> QED
      BY <3>3, <3>4, Zenon
  <2>2. ASSUME r \in Waiting PROVE r \in Waiting'
    <3>1. PICK q \in Rules : \E i \in DOMAIN queues[q] : queues[q][i].request = r
      BY <2>2, Zenon DEF Waiting
    <3>2. PICK i \in DOMAIN queues[q] : queues[q][i].request = r
      BY <3>1, Zenon
    <3>3. i \in DOMAIN queues'[q] /\ queues'[q][i].request = r
      BY <1>4, <1>5, <3>2, Zenon
    <3>4. r \in DOMAIN keyOf'
      BY <1>3, <2>2, Zenon DEF Numbered, Waiting, Submissions
    <3> QED
      BY <3>3, <3>4, Zenon DEF Waiting, Submissions
  <2>3. NextRequest \in Waiting'
    <3>1. n \in DOMAIN queues'[rule] /\ NextRequest \in DOMAIN keyOf'
      BY <1>3, <1>4, Zenon DEF Numbered
    <3> QED
      BY <1>1, <1>4, <3>1, Zenon DEF Waiting, Submissions
  <2> QED
    BY <2>1, <2>2, <2>3, Zenon
<1> QED
  BY <1>7, <1>8, Zenon

(* The pending entry that takes the newest request keeps its place.        *)
Replaced(key, rule, i) ==
    /\ rule \in Rules /\ i \in DOMAIN queues[rule] /\ keyOf[queues[rule][i].request] = key
    /\ Numbered(key, "queued", queues[rule][i].request)
    /\ Len(queues'[rule]) = Len(queues[rule])
    /\ DOMAIN queues'[rule] = DOMAIN queues[rule] /\ queues'[rule][i].request = NextRequest
    /\ \A j \in DOMAIN queues[rule] \ {i} : queues'[rule][j] = queues[rule][j]
    /\ \A other \in Rules \ {rule} : queues'[other] = queues[other]

LEMMA CoalescedReplaces ==
    ASSUME TypeOK, QueuesIndexed, NEW key \in Keys, SubmitCoalesced(key)
    PROVE  \E rule \in Rules : \E i \in DOMAIN queues[rule] : Replaced(key, rule, i)
<1> DEFINE rule == RuleOf[key]
<1>1. PICK i \in Pending(key) :
        /\ queues' = [queues EXCEPT ![rule][i].request = NextRequest]
        /\ keyOf' = Append(keyOf, key)
        /\ status' = Append([status EXCEPT ![queues[rule][i].request] = "superseded"], "queued")
  BY Zenon DEF SubmitCoalesced
<1>2. /\ rule \in Rules /\ queues \in [Rules -> Seq(Entries)] /\ queues[rule] \in Seq(Entries)
      /\ i \in DOMAIN queues[rule] /\ keyOf[queues[rule][i].request] = key
      /\ queues[rule][i].request \in DOMAIN keyOf
  BY GateAssumption, Zenon DEF TypeOK, Pending, QueuesIndexed, Submissions
<1> DEFINE old == queues[rule][i].request
<1>3. Numbered(key, "queued", old)
  <2> HIDE DEF old
  <2>1. old \in DOMAIN keyOf /\ status' = Append([status EXCEPT ![old] = "superseded"], "queued")
    BY <1>1, <1>2, Zenon DEF old
  <2> QED
    BY <1>1, <2>1, SupersedingIsNumbered, Zenon
<1> DEFINE entry == [queues[rule][i] EXCEPT !.request = NextRequest]
<1>4. entry.request = NextRequest
  <2>1. \A e \in Entries : [e EXCEPT !.request = NextRequest].request = NextRequest
    BY Zenon DEF Entries
  <2> QED
    BY <1>2, <2>1
<1>5. queues' = [queues EXCEPT ![rule] = [queues[rule] EXCEPT ![i] = entry]]
  BY <1>1, <1>2, Zenon
<1> HIDE DEF rule, entry
<1>a. Len(queues'[rule]) = Len(queues[rule])
  BY <1>2, <1>5
<1>6. /\ DOMAIN queues'[rule] = DOMAIN queues[rule] /\ queues'[rule][i] = entry
      /\ \A j \in DOMAIN queues[rule] \ {i} : queues'[rule][j] = queues[rule][j]
      /\ \A other \in Rules \ {rule} : queues'[other] = queues[other]
  BY <1>2, <1>5, Zenon
<1>7. Replaced(key, rule, i)
  BY <1>2, <1>3, <1>4, <1>6, <1>a, Zenon DEF Replaced
<1> QED
  BY <1>2, <1>7, Zenon

LEMMA ReplacedWaits ==
    ASSUME TypeOK, QueuesIndexed, WaitsOnce, NEW key \in Keys, NEW rule \in Rules,
           NEW i \in DOMAIN queues[rule], Replaced(key, rule, i),
           \A r, s \in Waiting : keyOf[r] = keyOf[s] => r = s
    PROVE  Waiting' = (Waiting \ {queues[rule][i].request}) \cup {NextRequest} /\ WaitsOnce'
<1> DEFINE old == queues[rule][i].request
<1>1. NextRequest \notin DOMAIN keyOf
  BY DEF TypeOK, NextRequest
<1>2. /\ DOMAIN queues'[rule] = DOMAIN queues[rule] /\ queues'[rule][i].request = NextRequest
      /\ \A j \in DOMAIN queues[rule] \ {i} : queues'[rule][j] = queues[rule][j]
      /\ \A other \in Rules \ {rule} : queues'[other] = queues[other]
      /\ DOMAIN keyOf' = DOMAIN keyOf \cup {NextRequest}
  BY Zenon DEF Replaced, Numbered
<1>3. ASSUME NEW q \in Rules, NEW j \in DOMAIN queues[q], ~(q = rule /\ j = i)
      PROVE  queues[q][j].request # old
  <2>1. CASE q = rule
    BY <1>3, <2>1, Zenon DEF WaitsOnce
  <2>2. CASE q # rule
    BY <1>3, <2>2 DEF QueuesIndexed
  <2> QED
    BY <2>1, <2>2, Zenon
<1>4. WaitsOnce'
  <2> SUFFICES ASSUME NEW q \in Rules, NEW j \in DOMAIN queues'[q], NEW k \in DOMAIN queues'[q],
                      queues'[q][j].request = queues'[q][k].request
               PROVE  j = k
    BY Zenon DEF WaitsOnce
  <2>1. CASE q # rule
    BY <1>2, <2>1, Zenon DEF WaitsOnce
  <2>2. CASE q = rule
    <3>1. \A m \in DOMAIN queues[rule] \ {i} : queues'[rule][m].request # NextRequest
      BY <1>1, <1>2 DEF QueuesIndexed, Submissions
    <3> QED
      BY <1>2, <2>2, <3>1 DEF WaitsOnce
  <2> QED
    BY <2>1, <2>2, Zenon
<1> HIDE DEF old
<1>5. ASSUME NEW r PROVE r \in Waiting' <=> r \in (Waiting \ {old}) \cup {NextRequest}
  <2>1. ASSUME r \in Waiting' PROVE r \in (Waiting \ {old}) \cup {NextRequest}
    <3>1. PICK q \in Rules : \E j \in DOMAIN queues'[q] : queues'[q][j].request = r
      BY <2>1, Zenon DEF Waiting
    <3>2. PICK j \in DOMAIN queues'[q] : queues'[q][j].request = r
      BY <3>1, Zenon
    <3>3. CASE q = rule /\ j = i
      BY <1>2, <3>2, <3>3, Zenon
    <3>4. CASE ~(q = rule /\ j = i)
      <4>1. j \in DOMAIN queues[q] /\ queues[q][j].request = r
        BY <1>2, <3>2, <3>4, Zenon
      <4> QED
        BY <1>3, <3>4, <4>1, EntriesWait, Zenon
    <3> QED
      BY <3>3, <3>4, Zenon
  <2>2. ASSUME r \in Waiting \ {old} PROVE r \in Waiting'
    <3>1. PICK q \in Rules : \E j \in DOMAIN queues[q] : queues[q][j].request = r
      BY <2>2, Zenon DEF Waiting
    <3>2. PICK j \in DOMAIN queues[q] : queues[q][j].request = r
      BY <3>1, Zenon
    <3>3. ~(q = rule /\ j = i)
      BY <2>2, <3>2, Zenon DEF old
    <3>4. j \in DOMAIN queues'[q] /\ queues'[q][j].request = r
      BY <1>2, <3>2, <3>3, Zenon
    <3>5. r \in DOMAIN keyOf'
      BY <1>2, <2>2, Zenon DEF Waiting, Submissions
    <3> QED
      BY <3>4, <3>5, Zenon DEF Waiting, Submissions
  <2>3. NextRequest \in Waiting'
    BY <1>2, Zenon DEF Waiting, Submissions
  <2> QED
    BY <2>1, <2>2, <2>3, Zenon
<1>6. Waiting' = (Waiting \ {old}) \cup {NextRequest}
  BY <1>5, Zenon
<1> QED
  BY <1>4, <1>6, Zenon DEF old

(* drain() takes one entry out of one queue, and none before it there is   *)
(* as old.                                                                 *)
Leaves(rule, i) ==
    /\ queues'[rule] = RemoveAt(queues[rule], i)
    /\ \A j \in 1..(i - 1) : queues[rule][j].at > queues[rule][i].at
    /\ \A other \in Rules \ {rule} : queues'[other] = queues[other]
    /\ active' = active \cup {queues[rule][i].request}
    /\ \A s \in DOMAIN keyOf :
            status'[s] = IF s = queues[rule][i].request THEN "active" ELSE status[s]

LEMMA PromoteTakesOne ==
    ASSUME TypeOK, QueuesIndexed, Promote
    PROVE  \E rule \in Rules : \E i \in DOMAIN queues[rule] : Leaves(rule, i)
<1>1. PICK m \in DOMAIN queueOrder : \E i \in DOMAIN queues[queueOrder[m]] :
        /\ IsOldest(m, i)
        /\ queues' = [queues EXCEPT ![queueOrder[m]] = RemoveAt(queues[queueOrder[m]], i)]
        /\ active' = active \cup {queues[queueOrder[m]][i].request}
        /\ status' = [status EXCEPT ![queues[queueOrder[m]][i].request] = "active"]
  BY Zenon DEF Promote
<1>2. PICK rule \in Rules : rule = queueOrder[m]
  BY DEF TypeOK
<1>3. PICK i \in DOMAIN queues[rule] :
        /\ IsOldest(m, i)
        /\ queues' = [queues EXCEPT ![rule] = RemoveAt(queues[rule], i)]
        /\ active' = active \cup {queues[rule][i].request}
        /\ status' = [status EXCEPT ![queues[rule][i].request] = "active"]
  BY <1>1, <1>2, Zenon
<1>4. /\ queues \in [Rules -> Seq(Entries)] /\ queues[rule] \in Seq(Entries)
      /\ i \in 1..Len(queues[rule]) /\ m \in 1..Len(queueOrder)
      /\ status \in Seq(Statuses) /\ DOMAIN status = DOMAIN keyOf
  BY DEF TypeOK
<1>5. ASSUME NEW j \in 1..(i - 1) PROVE queues[rule][j].at > queues[rule][i].at
  <2>1. j \in DOMAIN queues[rule] /\ j < i /\ i \in Nat /\ j \in Nat /\ m \in Nat
    BY <1>4
  <2>2. \/ queues[rule][i].at < queues[rule][j].at
        \/ queues[rule][i].at = queues[rule][j].at /\ (m < m \/ (m = m /\ i <= j))
    BY <1>2, <1>3, <2>1, Zenon DEF IsOldest
  <2>3. \A e \in Entries : e.at \in Nat
    BY GateAssumption DEF Entries
  <2>4. queues[rule][i].at \in Nat /\ queues[rule][j].at \in Nat
    BY <1>4, <2>1, <2>3
  <2> QED
    BY <2>1, <2>2, <2>4
<1>6. \A other \in Rules \ {rule} : queues'[other] = queues[other]
  BY <1>3, <1>4, Zenon
<1>7. queues'[rule] = RemoveAt(queues[rule], i)
  BY <1>3, <1>4, Zenon
<1>8. \A s \in DOMAIN keyOf :
        status'[s] = IF s = queues[rule][i].request THEN "active" ELSE status[s]
  BY <1>3, <1>4, Zenon
<1>9. Leaves(rule, i)
  BY <1>3, <1>5, <1>6, <1>7, <1>8, Zenon DEF Leaves
<1> QED
  BY <1>9, Zenon

LEMMA LeavingWaits ==
    ASSUME TypeOK, QueuesIndexed, WaitsOnce, NEW rule \in Rules, NEW i \in DOMAIN queues[rule],
           Leaves(rule, i), keyOf' = keyOf
    PROVE  Waiting' = Waiting \ {queues[rule][i].request} /\ WaitsOnce'
<1> DEFINE old == queues[rule][i].request
           len == Len(queues[rule])
           From(j) == IF j < i THEN j ELSE j + 1
<1>1. /\ queues[rule] \in Seq(Entries) /\ i \in 1..len /\ len \in Nat
      /\ DOMAIN queues[rule] = 1..len
  BY DEF TypeOK
<1>2. /\ DOMAIN queues'[rule] = 1..(len - 1)
      /\ \A j \in 1..(len - 1) : queues'[rule][j] = queues[rule][From(j)]
  <2>1. /\ queues'[rule] \in Seq(Entries) /\ Len(queues'[rule]) = len - 1
        /\ \A j \in 1..(len - 1) :
              queues'[rule][j] = IF j < i THEN queues[rule][j] ELSE queues[rule][j + 1]
    <3>1. queues'[rule] = RemoveAt(queues[rule], i)
      BY Zenon DEF Leaves
    <3> QED
      BY <1>1, <3>1, RemoveAtProperties, Zenon
  <2> QED
    BY <2>1
<1>3. \A other \in Rules \ {rule} : queues'[other] = queues[other]
  BY Zenon DEF Leaves
<1>4. /\ \A j \in 1..(len - 1) : From(j) \in DOMAIN queues[rule] /\ From(j) # i
      /\ \A j, k \in 1..(len - 1) : From(j) = From(k) => j = k
      /\ \A k \in 1..len : k # i => \E j \in 1..(len - 1) : From(j) = k
  <2>1. ASSUME NEW k \in 1..len, k # i PROVE \E j \in 1..(len - 1) : From(j) = k
    <3>1. CASE k < i
      BY <1>1, <2>1, <3>1
    <3>2. CASE k > i
      <4>1. k - 1 \in 1..(len - 1) /\ From(k - 1) = k
        BY <1>1, <2>1, <3>2
      <4> QED
        BY <4>1, Zenon
    <3> QED
      BY <1>1, <2>1, <3>1, <3>2
  <2> QED
    BY <1>1, <2>1
<1> HIDE DEF From, len
<1>5. ASSUME NEW q \in Rules, NEW j \in DOMAIN queues[q], ~(q = rule /\ j = i)
      PROVE  queues[q][j].request # old
  <2>1. CASE q = rule
    BY <1>5, <2>1, Zenon DEF WaitsOnce
  <2>2. CASE q # rule
    BY <1>5, <2>2 DEF QueuesIndexed
  <2> QED
    BY <2>1, <2>2, Zenon
<1>6. WaitsOnce'
  <2> SUFFICES ASSUME NEW q \in Rules, NEW j \in DOMAIN queues'[q], NEW k \in DOMAIN queues'[q],
                      queues'[q][j].request = queues'[q][k].request
               PROVE  j = k
    BY Zenon DEF WaitsOnce
  <2>1. CASE q # rule
    BY <1>3, <2>1, Zenon DEF WaitsOnce
  <2>2. CASE q = rule
    <3>1. queues[rule][From(j)].request = queues[rule][From(k)].request
      BY <1>2, <2>2, Zenon
    <3>2. j \in 1..(len - 1) /\ k \in 1..(len - 1)
      BY <1>2, <2>2, Zenon
    <3>3. From(j) \in DOMAIN queues[rule] /\ From(k) \in DOMAIN queues[rule]
      BY <1>4, <3>2, Zenon
    <3>4. From(j) = From(k)
      BY <3>1, <3>3, Zenon DEF WaitsOnce
    <3> QED
      BY <1>4, <3>2, <3>4, Zenon
  <2> QED
    BY <2>1, <2>2, Zenon
<1> HIDE DEF old
<1>7. ASSUME NEW r PROVE r \in Waiting' <=> r \in Waiting \ {old}
  <2>1. ASSUME r \in Waiting' PROVE r \in Waiting \ {old}
    <3>1. PICK q \in Rules : \E j \in DOMAIN queues'[q] : queues'[q][j].request = r
      BY <2>1, Zenon DEF Waiting
    <3>2. PICK j \in DOMAIN queues'[q] : queues'[q][j].request = r
      BY <3>1, Zenon
    <3>3. \E k \in DOMAIN queues[q] : queues[q][k].request = r /\ ~(q = rule /\ k = i)
      <4>1. CASE q = rule
        BY <1>2, <1>4, <3>2, <4>1, Zenon
      <4>2. CASE q # rule
        BY <1>3, <3>2, <4>2
      <4> QED
        BY <4>1, <4>2, Zenon
    <3> QED
      BY <1>5, <3>3, EntriesWait
  <2>2. ASSUME r \in Waiting \ {old} PROVE r \in Waiting'
    <3>1. PICK q \in Rules : \E j \in DOMAIN queues[q] : queues[q][j].request = r
      BY <2>2, Zenon DEF Waiting
    <3>2. PICK j \in DOMAIN queues[q] : queues[q][j].request = r
      BY <3>1, Zenon
    <3>3. \E k \in DOMAIN queues'[q] : queues'[q][k].request = r
      <4>1. CASE q = rule
        <5>1. j # i /\ j \in 1..len
          BY <1>1, <2>2, <3>2, <4>1, Zenon DEF old
        <5>2. PICK k \in 1..(len - 1) : From(k) = j
          BY <1>4, <5>1, Zenon
        <5> QED
          BY <1>2, <3>2, <4>1, <5>2, Zenon
      <4>2. CASE q # rule
        BY <1>3, <3>2, <4>2, Zenon
      <4> QED
        BY <4>1, <4>2, Zenon
    <3> QED
      BY <2>2, <3>3, Zenon DEF Waiting, Submissions
  <2> QED
    BY <2>1, <2>2, Zenon
<1>8. Waiting' = Waiting \ {old}
  BY <1>7, Zenon
<1> QED
  BY <1>6, <1>8, Zenon DEF old

-----------------------------------------------------------------------------
(* What the keys promise is kept by every step.                            *)
LEMMA SubmitKeepsSources ==
    ASSUME GateInv, SourceInv, NEW key \in Keys, Submit(key)
    PROVE  SourceInv'
<1>0. TypeOK /\ QueuesIndexed /\ WaitsOnce /\ SourceSets /\ Sets /\ 0 \notin DOMAIN keyOf
  BY TypedSets, Zenon DEF GateInv, SourceInv
<1>1. ASSUME NEW result, Submitted(key, result), queues' = queues
      PROVE  Numbered(key, result, 0) /\ Waiting' = Waiting /\ WaitsOnce'
  <2>1. Numbered(key, result, 0)
    BY <1>0, <1>1, SubmittedIsNumbered, Zenon
  <2>2. DOMAIN keyOf \subseteq DOMAIN keyOf'
    BY <2>1, Zenon DEF Numbered
  <2> QED
    BY <1>0, <1>1, <2>1, <2>2, SameQueuesWait, Zenon
<1>2. ASSUME Fresh(key)
      PROVE  /\ key \in StateKeys => \A r \in Waiting : keyOf[r] # key
             /\ key \notin StateKeys => key \notin dedupKeys
  BY <1>0, <1>2, FreshMeansNobodyWaits, Zenon
<1>3. CASE SubmitCoalesced(key)
  <2>1. PICK rule \in Rules : \E i \in DOMAIN queues[rule] : Replaced(key, rule, i)
    BY <1>0, <1>3, CoalescedReplaces, Zenon
  <2>2. PICK i \in DOMAIN queues[rule] : Replaced(key, rule, i)
    BY <2>1, Zenon
  <2>3. PICK old : old = queues[rule][i].request
    BY Zenon
  <2>4. Waiting' = (Waiting \ {old}) \cup {NextRequest} /\ WaitsOnce'
    BY <1>0, <2>2, <2>3, ReplacedWaits, Zenon DEF SourceSets, OneWaitsPerKey
  <2>5. old \in Waiting /\ keyOf[old] = key /\ Numbered(key, "queued", old)
    BY <1>0, <2>2, <2>3, EntriesWait, Zenon DEF Replaced
  <2>6. key \in StateKeys /\ active' = active /\ dedupKeys' = dedupKeys
    BY <1>3, Zenon DEF SubmitCoalesced
  <2>7. SourceSets'
    BY <1>0, <2>4, <2>5, <2>6, CoalescedKeepsSets, Zenon
  <2> QED
    BY <2>4, <2>7, Zenon DEF SourceInv
<1>4. CASE SubmitSuppressed(key)
  <2>1. /\ Submitted(key, "suppressed") /\ queues' = queues
        /\ active' = active /\ dedupKeys' = dedupKeys
    BY <1>4, Zenon DEF SubmitSuppressed
  <2>2. SourceSets'
    BY <1>0, <1>1, <2>1, RefusedKeepsSets, Zenon
  <2> QED
    BY <1>1, <2>1, <2>2, Zenon DEF SourceInv
<1>5. CASE SubmitAdmitted(key)
  <2>1. /\ Submitted(key, "active") /\ queues' = queues /\ Fresh(key)
        /\ active' = active \cup {NextRequest} /\ dedupKeys' = dedupKeys \cup {key}
    BY <1>5, Zenon DEF SubmitAdmitted
  <2>2. SourceSets'
    BY <1>0, <1>1, <1>2, <2>1, AdmittedKeepsSets, Zenon
  <2> QED
    BY <1>1, <2>1, <2>2, Zenon DEF SourceInv
<1>6. CASE SubmitQueued(key)
  <2>1. /\ Submitted(key, "queued") /\ Fresh(key) /\ active' = active
        /\ dedupKeys' = dedupKeys \cup {key}
    BY <1>6, Zenon DEF SubmitQueued
  <2>2. Waiting' = Waiting \cup {NextRequest} /\ WaitsOnce'
    BY <1>0, <1>6, QueuedWaits, Zenon
  <2>3. Numbered(key, "queued", 0)
    BY <1>0, <2>1, SubmittedIsNumbered, Zenon
  <2>4. SourceSets'
    BY <1>0, <1>2, <2>1, <2>2, <2>3, QueuedKeepsSets, Zenon
  <2> QED
    BY <2>2, <2>4, Zenon DEF SourceInv
<1>7. CASE SubmitDropped(key)
  <2>1. /\ Submitted(key, "dropped") /\ queues' = queues
        /\ active' = active /\ dedupKeys' = dedupKeys
    BY <1>7, Zenon DEF SubmitDropped
  <2>2. SourceSets'
    BY <1>0, <1>1, <2>1, RefusedKeepsSets, Zenon
  <2> QED
    BY <1>1, <2>1, <2>2, Zenon DEF SourceInv
<1> QED
  BY <1>3, <1>4, <1>5, <1>6, <1>7, Zenon DEF Submit

LEMMA NextKeepsSources == GateInv /\ SourceInv /\ [Next]_vars => SourceInv'
<1> SUFFICES ASSUME GateInv, SourceInv, [Next]_vars PROVE SourceInv'
  BY Zenon
<1>0. TypeOK /\ QueuesIndexed /\ WaitsOnce /\ SourceSets /\ Sets
  BY TypedSets, Zenon DEF GateInv, SourceInv
<1>1. CASE \E key \in Keys : Submit(key)
  BY <1>1, SubmitKeepsSources, Zenon
<1>2. ASSUME NEW r \in active, Complete(r) PROVE SourceInv'
  <2>1. /\ keyOf' = keyOf /\ queues' = queues /\ active' = active \ {r}
        /\ dedupKeys' = dedupKeys \ {keyOf[r]} /\ status' = [status EXCEPT ![r] = "done"]
    BY <1>2, Zenon DEF Complete
  <2>2. Waiting' = Waiting /\ WaitsOnce'
    BY <1>0, <2>1, SameQueuesWait, Zenon
  <2>3. \A s \in DOMAIN keyOf : status'[s] = IF s = r THEN "done" ELSE status[s]
    BY <1>0, <2>1 DEF TypeOK
  <2>4. SourceSets'
    BY <1>0, <2>1, <2>2, <2>3, CompleteKeepsSets, Zenon
  <2> QED
    BY <2>2, <2>4, Zenon DEF SourceInv
<1>3. CASE Promote
  <2>1. PICK rule \in Rules : \E i \in DOMAIN queues[rule] : Leaves(rule, i)
    BY <1>0, <1>3, PromoteTakesOne, Zenon
  <2>2. PICK i \in DOMAIN queues[rule] : Leaves(rule, i)
    BY <2>1, Zenon
  <2>3. keyOf' = keyOf /\ dedupKeys' = dedupKeys
    BY <1>3, Zenon DEF Promote
  <2>4. PICK r : r = queues[rule][i].request
    BY Zenon
  <2>5. Waiting' = Waiting \ {r} /\ WaitsOnce'
    BY <1>0, <2>2, <2>3, <2>4, LeavingWaits, Zenon
  <2>6. /\ r \in Waiting /\ active' = active \cup {r}
        /\ \A s \in DOMAIN keyOf : status'[s] = IF s = r THEN "active" ELSE status[s]
    BY <1>0, <2>2, <2>4, EntriesWait, Zenon DEF Leaves
  <2>7. SourceSets'
    BY <1>0, <2>3, <2>5, <2>6, PromotedKeepsSets, Zenon
  <2> QED
    BY <2>5, <2>7, Zenon DEF SourceInv
<1>4. CASE UNCHANGED <<keyOf, status, active, queues, dedupKeys>>
  <2>1. Waiting' = Waiting /\ WaitsOnce'
    BY <1>0, <1>4, SameQueuesWait, Zenon
  <2>2. SourceSets'
    BY <1>0, <1>4, <2>1 DEF SourceSets, StatusesAgree, OneWaitsPerKey, KeysExact,
                           StartsInSubmissionOrder, LatestStateSurvives, Submissions
  <2> QED
    BY <2>1, <2>2, Zenon DEF SourceInv
<1>5. EndDrain \/ Tick \/ UNCHANGED vars => UNCHANGED <<keyOf, status, active, queues, dedupKeys>>
  BY Zenon DEF EndDrain, Tick, vars
<1> QED
  BY <1>1, <1>2, <1>3, <1>4, <1>5, Zenon DEF Next

LEMMA InitSources == Init => SourceInv
<1> SUFFICES ASSUME Init PROVE SourceInv
  BY Zenon
<1>1. Waiting = {} /\ active = {} /\ dedupKeys = {} /\ Submissions = {}
  BY DEF Init, Waiting, Submissions
<1>2. WaitsOnce
  BY DEF Init, WaitsOnce
<1> QED
  BY <1>1, <1>2, Zenon DEF SourceInv, SourceSets, StatusesAgree, OneWaitsPerKey, KeysExact,
                    StartsInSubmissionOrder, LatestStateSurvives

(* Uniqueness as a cardinality, the way the property states it.            *)
LEMMA AtMostOne ==
    ASSUME NEW S, \A x, y \in S : x = y
    PROVE  Cardinality(S) <= 1
<1>1. CASE S = {}
  BY <1>1, OneOrNone
<1>2. CASE S # {}
  <2>1. PICK x \in S : TRUE
    BY <1>2, Zenon
  <2>2. S = {x}
    BY <2>1, Zenon
  <2>3. Cardinality({x}) = 1
    BY OneOrNone, Zenon
  <2> QED
    BY <2>2, <2>3
<1> QED
  BY <1>1, <1>2, Zenon

LEMMA SourcesAreFaithful == TypeOK /\ QueuesIndexed /\ SourceInv => CoalescingIsFaithful
<1> SUFFICES ASSUME TypeOK, QueuesIndexed, SourceInv PROVE CoalescingIsFaithful
  BY Zenon
<1>1. OnePendingPerSource
  <2> SUFFICES ASSUME NEW key \in StateKeys PROVE Cardinality(Pending(key)) <= 1
    BY Zenon DEF OnePendingPerSource
  <2>1. RuleOf[key] \in Rules
    BY GateAssumption, Zenon
  <2>2. ASSUME NEW i \in Pending(key), NEW j \in Pending(key) PROVE i = j
    <3>1. /\ i \in DOMAIN queues[RuleOf[key]] /\ j \in DOMAIN queues[RuleOf[key]]
          /\ keyOf[queues[RuleOf[key]][i].request] = keyOf[queues[RuleOf[key]][j].request]
      BY Zenon DEF Pending
    <3>2. /\ queues[RuleOf[key]][i].request \in Waiting
          /\ queues[RuleOf[key]][j].request \in Waiting
      BY <2>1, <3>1, EntriesWait, Zenon
    <3>3. queues[RuleOf[key]][i].request = queues[RuleOf[key]][j].request
      BY <3>1, <3>2, Zenon DEF SourceInv, SourceSets, OneWaitsPerKey
    <3> QED
      BY <2>1, <3>1, <3>3, Zenon DEF SourceInv, WaitsOnce
  <2> QED
    BY <2>2, AtMostOne, Zenon
<1>2. DiscreteKeysExact
  <2> SUFFICES ASSUME NEW key \in Keys \ StateKeys
               PROVE  LET live == {r \in active \cup Waiting : keyOf[r] = key}
                      IN  /\ key \in dedupKeys <=> live # {}
                          /\ Cardinality(live) <= 1
    BY Zenon DEF DiscreteKeysExact
  <2> DEFINE live == {r \in active \cup Waiting : keyOf[r] = key}
  <2>1. /\ key \in dedupKeys <=> \E r \in active \cup Waiting : keyOf[r] = key
        /\ \A r, s \in active \cup Waiting : keyOf[r] = key /\ keyOf[s] = key => r = s
    BY Zenon DEF SourceInv, SourceSets, KeysExact
  <2>2. key \in dedupKeys <=> live # {}
    BY <2>1, Zenon
  <2>3. \A r, s \in live : r = s
    BY <2>1, Zenon
  <2>4. Cardinality(live) <= 1
    BY <2>3, AtMostOne, Zenon
  <2> QED
    BY <2>2, <2>4, Zenon
<1> QED
  BY <1>1, <1>2, Zenon DEF CoalescingIsFaithful, SourceInv, SourceSets

-----------------------------------------------------------------------------
(***************************************************************************)
(* The engine.                                                             *)
(***************************************************************************)
(* Whatever triggers it, submit() registers the key it was given.          *)
LEMMA SubmitAppends ==
    ASSUME NEW key, Submit(key)
    PROVE  keyOf' = Append(keyOf, key)
BY Zenon DEF Submit, SubmitCoalesced, SubmitSuppressed, SubmitAdmitted, SubmitQueued, SubmitDropped,
       Submitted

LEMMA EngineStepIsGateStep == [EngineNext]_evars => [Next]_vars
<1> SUFFICES ASSUME [EngineNext]_evars PROVE [Next]_vars
  BY Zenon
<1> USE DEF Next
<1>1. ASSUME NEW key \in Keys, External(key) \/ CronFires(key) PROVE Next
  BY <1>1, Zenon DEF External, CronFires, SubmitFrom
<1>2. ASSUME NEW r \in active, NEW key \in Keys, SharedSet(r, key) \/ DbSet(r, key) PROVE Next
  BY <1>2, Zenon DEF SharedSet, DbSet, SubmitFrom
<1>3. ASSUME NEW r \in active, EmitEvent(r) PROVE UNCHANGED vars
  BY <1>3, Zenon DEF EmitEvent
<1>4. ASSUME NEW event \in inFlight, EventLost(event) PROVE UNCHANGED vars
  BY <1>4, Zenon DEF EventLost
<1>5. ASSUME NEW event \in inFlight, NEW key \in Keys, EventArrives(event, key) PROVE Next
  BY <1>5, Zenon DEF EventArrives, SubmitFrom
<1>6. ASSUME NEW rule \in Rules, NEW fails \in BOOLEAN,
             \/ Create(rule, fails) \/ Delete(rule, fails)
             \/ \E on \in BOOLEAN : Toggle(rule, on, fails)
      PROVE  UNCHANGED vars
  BY <1>6, Zenon DEF Create, Delete, Toggle, Catalogued
<1>7. ASSUME NEW e \in Editors,
             \/ RefuseEdit(e) \/ \E rule \in Rules : BeginEdit(e, rule)
             \/ \E fails \in BOOLEAN : FinishEdit(e, fails)
      PROVE  UNCHANGED vars
  BY <1>7, Zenon DEF FinishEdit, RefuseEdit, BeginEdit, Catalogued
<1>8. ASSUME NEW r \in active, Settle(r) PROVE Next
  BY <1>8, Zenon DEF Settle
<1>9. CASE PromoteNext \/ StopDrain \/ Clock
  BY <1>9, Zenon DEF PromoteNext, StopDrain, Clock
<1>10. CASE UNCHANGED evars
  BY <1>10, Zenon DEF evars
<1> QED
  BY <1>1, <1>2, <1>3, <1>4, <1>5, <1>6, <1>7, <1>8, <1>9, <1>10, Zenon DEF EngineNext

LEMMA EngineInitInv == EngineInit => EngineInv
<1> SUFFICES ASSUME EngineInit PROVE EngineInv
  BY Zenon
<1>1. TypeOK
  BY InitGateInv, Zenon DEF EngineInit, GateInv
<1>2. /\ rows \in [Rules -> [state : {"live", "absent"}, enabled : BOOLEAN, cron : BOOLEAN,
                             revision : {1}]]
      /\ registered = [rule \in Rules |-> IF Live(rule) /\ rows[rule].enabled THEN 1 ELSE 0]
      /\ timers = [rule \in Rules |-> IF registered[rule] = 1 /\ rows[rule].cron THEN 1 ELSE 0]
      /\ edits = [e \in Editors |-> NoEdit] /\ cause = <<>> /\ inFlight = {} /\ keyOf = <<>>
      /\ torn = {}
  BY Zenon DEF EngineInit, Init
<1>3. EngineTypeOK
  BY <1>1, <1>2, EngineAssumption DEF EngineTypeOK, Live
<1>4. RegistryFollowsRows
  <2> SUFFICES ASSUME NEW rule \in Rules
               PROVE  /\ registered[rule] \in {0, IF rows[rule].enabled THEN rows[rule].revision ELSE 0}
                      /\ timers[rule] \in {0, IF rows[rule].cron THEN registered[rule] ELSE 0}
                      /\ registered[rule] # 0 <=> Live(rule) /\ rows[rule].enabled
                      /\ timers[rule] # 0 <=> (Live(rule) /\ rows[rule].enabled) /\ rows[rule].cron
    BY Zenon DEF RegistryFollowsRows
  <2>1. /\ rows[rule].revision = 1
        /\ registered[rule] = IF Live(rule) /\ rows[rule].enabled THEN 1 ELSE 0
        /\ timers[rule] = IF registered[rule] = 1 /\ rows[rule].cron THEN 1 ELSE 0
    BY <1>2, Zenon
  <2> QED
    BY <2>1, SMTT(30)
<1> QED
  BY <1>2, <1>3, <1>4 DEF EngineInv, LaterRequestsRunLaterRules, VersionsAreOfRows, DepthsAreTrue

(* What the invariant says of one request.                                 *)
LEMMA CauseFacts ==
    ASSUME EngineInv, NEW r \in DOMAIN cause
    PROVE  /\ r \in DOMAIN keyOf /\ keyOf[r] \in Keys /\ RuleOf[keyOf[r]] \in Rules
           /\ cause[r] \in Causes
           /\ cause[r].version <= rows[RuleOf[keyOf[r]]].revision
           /\ ~cause[r].alias => cause[r].hops = cause[r].depth
<1>1. /\ cause \in Seq(Causes) /\ keyOf \in Seq(Keys) /\ Len(cause) = Len(keyOf)
  BY Zenon DEF EngineInv, EngineTypeOK, TypeOK
<1>2. r \in DOMAIN keyOf /\ keyOf[r] \in Keys /\ cause[r] \in Causes
  BY <1>1
<1>3. RuleOf[keyOf[r]] \in Rules
  BY <1>2, GateAssumption, Zenon
<1>4. cause[r].version <= rows[RuleOf[keyOf[r]]].revision
  BY Zenon DEF EngineInv, VersionsAreOfRows
<1>5. ~cause[r].alias => cause[r].hops = cause[r].depth
  BY Zenon DEF EngineInv, DepthsAreTrue
<1> QED
  BY <1>2, <1>3, <1>4, <1>5, Zenon

(* A request made from the rule as its row has it keeps the invariant.     *)
LEMMA SubmissionKeepsEngineInv ==
    ASSUME EngineInv, TypeOK', NEW key \in Keys, NEW depth \in 0..MaxDepth, NEW hops \in Nat,
           NEW alias \in BOOLEAN, ~alias => hops = depth,
           SubmitFrom(key, rows[RuleOf[key]].revision, depth, hops, alias),
           inFlight' \subseteq inFlight
    PROVE  EngineInv'
<1> DEFINE rule == RuleOf[key]
           new == [version |-> rows[rule].revision, depth |-> depth, hops |-> hops, alias |-> alias]
           n == Len(cause) + 1
<1>1. /\ keyOf' = Append(keyOf, key) /\ cause' = Append(cause, new)
      /\ UNCHANGED <<rows, registered, timers, edits, torn>>
  BY SubmitAppends, Zenon DEF SubmitFrom, catalogue
<1>2. /\ cause \in Seq(Causes) /\ keyOf \in Seq(Keys) /\ Len(cause) = Len(keyOf)
      /\ rule \in Rules /\ rows[rule].revision \in 1..MaxRevision
  BY GateAssumption, Zenon DEF EngineInv, EngineTypeOK, TypeOK
<1>3. /\ new \in Causes /\ new.version = rows[rule].revision
      /\ new.alias = alias /\ new.hops = hops /\ new.depth = depth
      /\ rows[rule].revision <= rows[rule].revision
  <2>1. new \in Causes
    BY <1>2, Zenon DEF Causes
  <2>2. rows[rule].revision <= rows[rule].revision
    BY <1>2
  <2> QED
    BY <2>1, <2>2, Zenon
<1> HIDE DEF new
<1>4. /\ cause' \in Seq(Causes) /\ Len(cause') = n /\ Len(keyOf') = n
      /\ DOMAIN cause' = 1..n /\ cause'[n] = new /\ keyOf'[n] = key
      /\ \A r \in 1..Len(cause) : cause'[r] = cause[r] /\ keyOf'[r] = keyOf[r]
      /\ DOMAIN cause = 1..Len(cause) /\ Len(cause) \in Nat
  BY <1>1, <1>2, <1>3
<1>5. /\ \A r \in 1..n : r = n \/ r \in 1..Len(cause)
      /\ \A r, s \in 1..n : r <= s /\ s # n => r \in 1..Len(cause)
  BY <1>4
<1>6. EngineTypeOK'
  BY <1>1, <1>4, Zenon DEF EngineInv, EngineTypeOK
<1>7. RegistryFollowsRows'
  BY <1>1, Zenon DEF EngineInv, RegistryFollowsRows, Live
<1>8. ASSUME NEW r \in DOMAIN cause'
      PROVE  /\ cause'[r].version <= rows'[RuleOf[keyOf'[r]]].revision
             /\ ~cause'[r].alias => cause'[r].hops = cause'[r].depth
  <2>1. CASE r = n
    BY <2>1, <1>1, <1>3, <1>4, Zenon
  <2>2. CASE r \in DOMAIN cause
    <3>1. cause'[r] = cause[r] /\ keyOf'[r] = keyOf[r] /\ rows' = rows
      BY <2>2, <1>1, <1>4, Zenon
    <3>2. /\ cause[r].version <= rows[RuleOf[keyOf[r]]].revision
          /\ ~cause[r].alias => cause[r].hops = cause[r].depth
      BY <2>2, CauseFacts, Zenon
    <3> QED
      BY <3>1, <3>2, Zenon
  <2> QED
    BY <2>1, <2>2, <1>4, <1>5, Zenon
<1>9. LaterRequestsRunLaterRules'
  <2> SUFFICES ASSUME NEW r \in DOMAIN cause', NEW s \in DOMAIN cause', r <= s,
                      RuleOf[keyOf'[r]] = RuleOf[keyOf'[s]]
               PROVE  cause'[r].version <= cause'[s].version
    BY Zenon DEF LaterRequestsRunLaterRules
  <2>1. CASE s = n
    <3>1. cause'[s].version = rows'[RuleOf[keyOf'[s]]].revision
      BY <2>1, <1>1, <1>3, <1>4, Zenon
    <3> QED
      BY <3>1, <1>8, Zenon
  <2>2. CASE s # n
    <3>1. r \in DOMAIN cause /\ s \in DOMAIN cause
      BY <2>2, <1>4, <1>5, Zenon
    <3>2. LaterRequestsRunLaterRules
      BY Zenon DEF EngineInv
    <3> QED
      BY <3>1, <3>2, <1>4, Zenon DEF LaterRequestsRunLaterRules
  <2> QED
    BY <2>1, <2>2, Zenon
<1>10. VersionsAreOfRows'
  BY <1>1, <1>8, Zenon DEF EngineInv, VersionsAreOfRows
<1>11. DepthsAreTrue'
  <2>1. \A event \in inFlight' : ~event.alias => event.hops = event.depth
    BY Zenon DEF EngineInv, DepthsAreTrue
  <2> QED
    BY <1>8, <2>1, Zenon DEF DepthsAreTrue
<1> QED
  BY <1>6, <1>7, <1>9, <1>10, <1>11, Zenon DEF EngineInv

(* What the registry or a timer holds of a rule is the rule as its row has it. *)
LEMMA RegisteredIsCurrent ==
    ASSUME EngineInv, NEW rule \in Rules
    PROVE  /\ registered[rule] # 0 => registered[rule] = rows[rule].revision
           /\ timers[rule] # 0 => timers[rule] = rows[rule].revision
BY Zenon DEF EngineInv, RegistryFollowsRows

LEMMA TriggersKeepEngineInv ==
    ASSUME EngineInv, TypeOK', NEW key \in Keys,
           \/ External(key) \/ CronFires(key)
           \/ \E r \in active : SharedSet(r, key) \/ DbSet(r, key)
           \/ \E event \in inFlight : EventArrives(event, key)
    PROVE  EngineInv'
<1> DEFINE version == rows[RuleOf[key]].revision
<1>1. RuleOf[key] \in Rules /\ 0 \in 0..MaxDepth /\ MaxDepth \in Nat
  BY GateAssumption, EngineAssumption
<1>2. /\ registered[RuleOf[key]] # 0 => registered[RuleOf[key]] = version
      /\ timers[RuleOf[key]] # 0 => timers[RuleOf[key]] = version
  BY <1>1, RegisteredIsCurrent, Zenon
<1>3. ASSUME NEW r \in active
      PROVE  /\ cause[r] \in Causes
             /\ ~cause[r].alias => cause[r].hops = cause[r].depth
  <2>1. /\ active \subseteq DOMAIN keyOf /\ keyOf \in Seq(Keys)
        /\ cause \in Seq(Causes) /\ Len(cause) = Len(keyOf)
    BY Zenon DEF EngineInv, EngineTypeOK, TypeOK, Submissions
  <2>2. r \in DOMAIN cause
    BY <2>1
  <2> QED
    BY <2>2, CauseFacts, Zenon
<1>4. CASE External(key) \/ CronFires(key)
  <2>1. SubmitFrom(key, version, 0, 0, FALSE) /\ inFlight' = inFlight
    BY <1>2, <1>4, Zenon DEF External, CronFires, Matches
  <2> QED
    BY <1>1, <2>1, SubmissionKeepsEngineInv, Zenon
<1>5. ASSUME NEW r \in active, SharedSet(r, key) PROVE EngineInv'
  <2>1. /\ SubmitFrom(key, version, cause[r].depth + 1, cause[r].hops + 1, cause[r].alias)
        /\ inFlight' = inFlight /\ cause[r].depth + 1 <= MaxDepth
    BY <1>2, <1>5, Zenon DEF SharedSet, Matches, ChildDepth
  <2>2. cause[r].depth + 1 \in 0..MaxDepth /\ cause[r].hops + 1 \in Nat /\ cause[r].alias \in BOOLEAN
    BY <1>1, <1>3, <2>1 DEF Causes
  <2>3. ~cause[r].alias => cause[r].hops + 1 = cause[r].depth + 1
    BY <1>3, Zenon
  <2> QED
    BY <2>1, <2>2, <2>3, SubmissionKeepsEngineInv, Zenon
<1>6. ASSUME NEW r \in active, DbSet(r, key) PROVE EngineInv'
  <2>1. SubmitFrom(key, version, 0, cause[r].hops + 1, TRUE) /\ inFlight' = inFlight
    BY <1>2, <1>6, Zenon DEF DbSet, Matches
  <2>2. cause[r].hops + 1 \in Nat
    BY <1>3 DEF Causes
  <2> QED
    BY <1>1, <2>1, <2>2, SubmissionKeepsEngineInv, Zenon
<1>7. ASSUME NEW event \in inFlight, EventArrives(event, key) PROVE EngineInv'
  <2>1. /\ SubmitFrom(key, version, event.depth, event.hops, event.alias)
        /\ inFlight' \subseteq inFlight
    BY <1>2, <1>7, Zenon DEF EventArrives, Matches
  <2>2. /\ event.depth \in 0..MaxDepth /\ event.hops \in Nat /\ event.alias \in BOOLEAN
    BY Zenon DEF EngineInv, EngineTypeOK
  <2>3. ~event.alias => event.hops = event.depth
    BY Zenon DEF EngineInv, DepthsAreTrue
  <2> QED
    BY <2>1, <2>2, <2>3, SubmissionKeepsEngineInv, Zenon
<1> QED
  BY <1>4, <1>5, <1>6, <1>7, Zenon

(* A step that leaves the requests and the catalogue alone.                *)
LEMMA EventsKeepEngineInv ==
    ASSUME EngineInv, TypeOK', UNCHANGED <<keyOf, catalogue, cause>>,
           inFlight' \subseteq [depth : 0..MaxDepth, hops : Nat, alias : BOOLEAN],
           \A event \in inFlight' : ~event.alias => event.hops = event.depth
    PROVE  EngineInv'
<1>1. UNCHANGED <<keyOf, cause, rows, registered, timers, edits, torn>>
  BY Zenon DEF catalogue
<1>2. EngineTypeOK'
  BY <1>1, Zenon DEF EngineInv, EngineTypeOK
<1>3. RegistryFollowsRows' /\ LaterRequestsRunLaterRules'
  BY <1>1, Zenon DEF EngineInv, RegistryFollowsRows, LaterRequestsRunLaterRules, Live
<1>4. VersionsAreOfRows'
  BY <1>1, Zenon DEF EngineInv, VersionsAreOfRows
<1>5. DepthsAreTrue'
  <2>1. \A r \in DOMAIN cause : ~cause[r].alias => cause[r].hops = cause[r].depth
    BY Zenon DEF EngineInv, DepthsAreTrue
  <2>2. cause' = cause
    BY <1>1, Zenon
  <2> QED
    BY <2>1, <2>2, Zenon DEF DepthsAreTrue
<1> QED
  BY <1>2, <1>3, <1>4, <1>5, Zenon DEF EngineInv

LEMMA EmitKeepsEngineInv ==
    ASSUME EngineInv, TypeOK', NEW r \in active, EmitEvent(r)
    PROVE  EngineInv'
<1> DEFINE event == [depth |-> cause[r].depth + 1, hops |-> cause[r].hops + 1, alias |-> cause[r].alias]
<1>1. r \in DOMAIN cause
  <2>1. TypeOK /\ cause \in Seq(Causes) /\ Len(cause) = Len(keyOf)
    BY Zenon DEF EngineInv, EngineTypeOK
  <2>2. keyOf \in Seq(Keys) /\ r \in DOMAIN keyOf
    BY <2>1, Zenon DEF TypeOK, Submissions
  <2> QED BY <2>1, <2>2
<1>2. cause[r] \in Causes /\ (~cause[r].alias => cause[r].hops = cause[r].depth)
  BY <1>1, CauseFacts, Zenon
<1>3. /\ inFlight' = inFlight \cup {event} /\ UNCHANGED <<keyOf, catalogue, cause>>
      /\ cause[r].depth + 1 <= MaxDepth
  BY Zenon DEF EmitEvent, ChildDepth, vars
<1>4. event \in [depth : 0..MaxDepth, hops : Nat, alias : BOOLEAN]
  BY <1>2, <1>3, EngineAssumption DEF Causes
<1>5. ~event.alias => event.hops = event.depth
  BY <1>2, Zenon
<1>6. inFlight' \subseteq [depth : 0..MaxDepth, hops : Nat, alias : BOOLEAN]
  BY <1>3, <1>4, Zenon DEF EngineInv, EngineTypeOK
<1>7. \A f \in inFlight' : ~f.alias => f.hops = f.depth
  <2>1. \A f \in inFlight : ~f.alias => f.hops = f.depth
    BY Zenon DEF EngineInv, DepthsAreTrue
  <2> HIDE DEF event
  <2> QED
    BY <1>3, <1>5, <2>1, Zenon
<1> QED
  BY <1>3, <1>6, <1>7, EventsKeepEngineInv, Zenon
-----------------------------------------------------------------------------
(* What a route may leave in the registry and of the timer for the row it  *)
(* has stored: what the row asks for, or, if it throws, nothing that is of *)
(* another revision.                                                       *)
Follows(row, held, timed, fails) ==
    /\ held \in {0, IF row.enabled THEN row.revision ELSE 0}
    /\ timed \in {0, IF row.cron THEN held ELSE 0}
    /\ ~fails => /\ held # 0 <=> row.state = "live" /\ row.enabled
                 /\ timed # 0 <=> (row.state = "live" /\ row.enabled) /\ row.cron

(* A route does so, and touches nothing else of the registry.              *)
Stores(rule, row, held, timed, fails) ==
    /\ Written(rule, row, fails) /\ Follows(row, held, timed, fails)
    /\ registered' = [registered EXCEPT ![rule] = held]
    /\ timers' = [timers EXCEPT ![rule] = timed]

(* Such a route keeps the invariant.                                       *)
LEMMA RouteKeepsEngineInv ==
    ASSUME EngineInv, Catalogued, NEW rule \in Rules,
           NEW row \in [state : {"absent", "live", "deleted"}, enabled : BOOLEAN,
                        cron : BOOLEAN, revision : 1..MaxRevision],
           row.revision >= rows[rule].revision, row.state # "absent",
           edits' \in [Editors -> {NoEdit} \cup [rule : Rules, expected : 1..MaxRevision]],
           NEW fails \in BOOLEAN, NEW held, NEW timed, Stores(rule, row, held, timed, fails)
    PROVE  EngineInv'
<1> USE DEF Stores
<1>1. UNCHANGED <<vars, cause, inFlight>>
  BY Zenon DEF Catalogued
<1>2. UNCHANGED keyOf /\ TypeOK'
  BY <1>1, Zenon DEF EngineInv, EngineTypeOK, TypeOK, Submissions, vars
<1>3. rows \in [Rules -> [state : {"absent", "live", "deleted"}, enabled : BOOLEAN,
                          cron : BOOLEAN, revision : 1..MaxRevision]]
      /\ registered \in [Rules -> 0..MaxRevision] /\ timers \in [Rules -> 0..MaxRevision]
      /\ MaxRevision \in Nat /\ torn \subseteq Rules
  BY EngineAssumption, Zenon DEF EngineInv, EngineTypeOK
<1>4. /\ rows' = [rows EXCEPT ![rule] = row] /\ rows'[rule] = row
      /\ torn' \subseteq Rules /\ (rule \in torn' <=> fails)
      /\ registered'[rule] = held /\ timers'[rule] = timed
      /\ \A other \in Rules \ {rule} : /\ rows'[other] = rows[other]
                                       /\ registered'[other] = registered[other]
                                       /\ timers'[other] = timers[other]
                                       /\ other \in torn' <=> other \in torn
  BY <1>3, Zenon DEF Written
<1>5. EngineTypeOK'
  <2>1. rows' \in [Rules -> [state : {"absent", "live", "deleted"}, enabled : BOOLEAN,
                             cron : BOOLEAN, revision : 1..MaxRevision]]
    BY <1>3, <1>4, Zenon
  <2>2. held \in 0..MaxRevision /\ timed \in 0..MaxRevision
    BY <1>3 DEF Follows
  <2>3. registered' \in [Rules -> 0..MaxRevision] /\ timers' \in [Rules -> 0..MaxRevision]
    BY <1>3, <2>2, Zenon
  <2> QED
    BY <1>1, <1>2, <1>4, <2>1, <2>3, Zenon DEF EngineInv, EngineTypeOK
<1>6. RegistryFollowsRows'
  <2>1. RegistryFollowsRows
    BY Zenon DEF EngineInv
  <2> SUFFICES ASSUME NEW other \in Rules
               PROVE  LET on == rows'[other].state = "live" /\ rows'[other].enabled
                      IN  /\ registered'[other] \in
                                {0, IF rows'[other].enabled THEN rows'[other].revision ELSE 0}
                          /\ timers'[other] \in {0, IF rows'[other].cron THEN registered'[other] ELSE 0}
                          /\ other \notin torn' =>
                                /\ registered'[other] # 0 <=> on
                                /\ timers'[other] # 0 <=> on /\ rows'[other].cron
    BY Zenon DEF RegistryFollowsRows, Live
  <2>2. CASE other = rule
    BY <1>4, <2>2, SMTT(30) DEF Follows
  <2>3. CASE other # rule
    BY <1>4, <2>1, <2>3, Zenon DEF RegistryFollowsRows, Live
  <2> QED
    BY <2>2, <2>3, Zenon
<1>7. LaterRequestsRunLaterRules'
  BY <1>1, <1>2, Zenon DEF EngineInv, LaterRequestsRunLaterRules
<1>8. \A other \in Rules : rows[other].revision <= rows'[other].revision
  BY <1>3, <1>4, SMTT(30)
<1>9. ASSUME NEW r \in DOMAIN cause' PROVE cause'[r].version <= rows'[RuleOf[keyOf'[r]]].revision
  <2>1. r \in DOMAIN cause
    BY <1>1, Zenon
  <2>2. RuleOf[keyOf[r]] \in Rules /\ cause[r].version \in Int
    BY <2>1, CauseFacts, SMTT(30) DEF Causes
  <2>3. cause[r].version <= rows[RuleOf[keyOf[r]]].revision
    BY <2>1, CauseFacts, Zenon
  <2>4. /\ rows[RuleOf[keyOf[r]]].revision \in Int
        /\ rows'[RuleOf[keyOf[r]]].revision \in Int
    BY <1>3, <1>4, <2>2
  <2> QED
    BY <1>1, <1>2, <1>8, <2>2, <2>3, <2>4, SMTT(30)
<1>10. VersionsAreOfRows'
  <2>1. \A other \in Rules :
            rows'[other].state = "absent" => rows'[other].revision = 1 /\ other \notin torn'
    BY <1>3, <1>4, Zenon DEF EngineInv, VersionsAreOfRows
  <2> QED
    BY <1>9, <2>1, Zenon DEF VersionsAreOfRows
<1>11. DepthsAreTrue'
  BY <1>1, Zenon DEF EngineInv, DepthsAreTrue
<1> QED
  BY <1>5, <1>6, <1>7, <1>10, <1>11, Zenon DEF EngineInv

LEMMA EditorsKeepEngineInv ==
    ASSUME EngineInv, NEW e \in Editors,
           \/ RefuseEdit(e) \/ \E rule \in Rules : BeginEdit(e, rule)
           \/ \E fails \in BOOLEAN : FinishEdit(e, fails)
    PROVE  EngineInv'
<1> DEFINE Row == [state : {"absent", "live", "deleted"}, enabled : BOOLEAN,
                   cron : BOOLEAN, revision : 1..MaxRevision]
           Pending1 == {NoEdit} \cup [rule : Rules, expected : 1..MaxRevision]
<1>1. rows \in [Rules -> Row] /\ edits \in [Editors -> Pending1] /\ MaxRevision \in Nat
  BY EngineAssumption, Zenon DEF EngineInv, EngineTypeOK
<1>2. ASSUME NEW fails \in BOOLEAN, FinishEdit(e, fails) PROVE EngineInv'
  <2> DEFINE rule == edits[e].rule
  <2>1. rule \in Rules
    BY <1>1, <1>2, Zenon DEF FinishEdit
  <2>2. PICK cron \in BOOLEAN :
            LET row == [rows[rule] EXCEPT !.revision = @ + 1, !.cron = cron]
            IN  /\ Written(rule, row, fails)
                /\ IF fails THEN Unregister(rule) ELSE Reregister(rule, row)
    BY <1>2, Zenon DEF FinishEdit
  <2> DEFINE row == [rows[rule] EXCEPT !.revision = @ + 1, !.cron = cron]
  <2>3. /\ Live(rule) /\ rows[rule].revision < MaxRevision /\ Catalogued
        /\ edits' = [edits EXCEPT ![e] = NoEdit]
    BY <1>2, Zenon DEF FinishEdit, EditApplies
  <2>4. rows[rule] \in Row /\ rows[rule].state = "live"
    BY <1>1, <2>1, <2>3, Zenon DEF Live
  <2>5. /\ row \in Row /\ row.state = "live" /\ row.revision = rows[rule].revision + 1
        /\ row.revision >= rows[rule].revision
    <3>1. row.state = rows[rule].state /\ row.revision = rows[rule].revision + 1
      BY <2>4, Zenon
    <3>2. rows[rule].revision + 1 \in 1..MaxRevision
      BY <1>1, <2>3, <2>4, SMTT(30)
    <3>3. row \in Row
      BY <2>4, <3>2, Zenon
    <3> HIDE DEF row
    <3> QED
      BY <2>4, <3>1, <3>2, <3>3, SMTT(30)
  <2> DEFINE held == IF ~fails /\ row.enabled THEN row.revision ELSE 0
             timed == IF ~fails /\ row.enabled /\ row.cron THEN row.revision ELSE 0
  <2>6. Written(rule, row, fails) /\ IF fails THEN Unregister(rule) ELSE Reregister(rule, row)
    BY <2>2, Zenon
  <2>7. edits' \in [Editors -> Pending1]
    BY <1>1, <2>3, Zenon
  <2>8. row.revision # 0
    <3> HIDE DEF row
    <3> QED
      BY <1>1, <2>5
  <2> HIDE DEF row
  <2>9. /\ registered' = [registered EXCEPT ![rule] = held]
        /\ timers' = [timers EXCEPT ![rule] = timed]
    BY <2>6, Zenon DEF Reregister, Unregister
  <2>10. Follows(row, held, timed, fails)
    BY <2>5, <2>8, Zenon DEF Follows
  <2> HIDE DEF held, timed
  <2>11. Stores(rule, row, held, timed, fails)
    BY <2>6, <2>9, <2>10, Zenon DEF Stores
  <2>12. /\ row \in Row /\ row.revision >= rows[rule].revision /\ row.state # "absent"
         /\ rule \in Rules /\ Catalogued
    BY <2>1, <2>3, <2>5, Zenon
  <2> HIDE DEF rule
  <2> QED
    BY <1>2, <2>7, <2>11, <2>12, RouteKeepsEngineInv, Zenon
<1>3. CASE RefuseEdit(e) \/ \E rule \in Rules : BeginEdit(e, rule)
  <2>1. UNCHANGED <<vars, cause, inFlight, rows, registered, timers, torn>>
    BY <1>3, Zenon DEF RefuseEdit, BeginEdit, Catalogued
  <2>2. edits' \in [Editors -> Pending1]
    <3>1. CASE RefuseEdit(e)
      BY <1>1, <3>1, Zenon DEF RefuseEdit
    <3>2. ASSUME NEW rule \in Rules, BeginEdit(e, rule) PROVE edits' \in [Editors -> Pending1]
      <4>1. PICK expected \in 1..rows[rule].revision :
                edits' = [edits EXCEPT ![e] = [rule |-> rule, expected |-> expected]]
        BY <3>2, Zenon DEF BeginEdit
      <4>2. expected \in 1..MaxRevision
        BY <1>1
      <4> QED
        BY <1>1, <4>1, <4>2, Zenon
    <3> QED
      BY <1>3, <3>1, <3>2, Zenon
  <2>3. UNCHANGED keyOf /\ TypeOK'
    BY <2>1, Zenon DEF EngineInv, EngineTypeOK, TypeOK, Submissions, vars
  <2>4. EngineTypeOK'
    BY <2>1, <2>2, <2>3, Zenon DEF EngineInv, EngineTypeOK
  <2>5. RegistryFollowsRows' /\ LaterRequestsRunLaterRules'
    BY <2>1, <2>3, Zenon DEF EngineInv, RegistryFollowsRows, LaterRequestsRunLaterRules, Live
  <2>6. VersionsAreOfRows'
    BY <2>1, <2>3, Zenon DEF EngineInv, VersionsAreOfRows
  <2>7. DepthsAreTrue'
    BY <2>1, Zenon DEF EngineInv, DepthsAreTrue
  <2> QED
    BY <2>4, <2>5, <2>6, <2>7, Zenon DEF EngineInv
<1> QED
  BY <1>2, <1>3, Zenon

LEMMA RoutesKeepEngineInv ==
    ASSUME EngineInv, NEW rule \in Rules, NEW fails \in BOOLEAN,
           \/ Create(rule, fails) \/ Delete(rule, fails)
           \/ \E on \in BOOLEAN : Toggle(rule, on, fails)
    PROVE  EngineInv'
<1> DEFINE Row == [state : {"absent", "live", "deleted"}, enabled : BOOLEAN,
                   cron : BOOLEAN, revision : 1..MaxRevision]
<1>1. /\ rows \in [Rules -> Row] /\ MaxRevision \in Nat \ {0}
      /\ edits \in [Editors -> {NoEdit} \cup [rule : Rules, expected : 1..MaxRevision]]
      /\ timers \in [Rules -> 0..MaxRevision] /\ registered \in [Rules -> 0..MaxRevision]
  BY EngineAssumption, Zenon DEF EngineInv, EngineTypeOK
<1>2. UNCHANGED edits /\ Catalogued
  BY Zenon DEF Create, Delete, Toggle
<1>3. Follows(rows[rule], registered[rule], timers[rule], rule \in torn)
  BY Zenon DEF EngineInv, RegistryFollowsRows, Live, Follows
<1>4. ASSUME NEW row \in Row, row.revision = rows[rule].revision, row.state # "absent",
             Written(rule, row, fails), NEW held, NEW timed, Follows(row, held, timed, fails),
             registered' = [registered EXCEPT ![rule] = held],
             timers' = [timers EXCEPT ![rule] = timed]
      PROVE  EngineInv'
  <2>1. row.revision >= rows[rule].revision
    BY <1>1, <1>4, SMTT(30)
  <2>2. Stores(rule, row, held, timed, fails)
    BY <1>4, Zenon DEF Stores
  <2>3. edits' \in [Editors -> {NoEdit} \cup [rule : Rules, expected : 1..MaxRevision]]
    BY <1>1, <1>2, Zenon
  <2> QED
    BY <1>2, <1>4, <2>1, <2>2, <2>3, RouteKeepsEngineInv, Zenon
<1>5. /\ registered = [registered EXCEPT ![rule] = registered[rule]]
      /\ timers = [timers EXCEPT ![rule] = timers[rule]]
      /\ 0 \in Nat /\ rows[rule] \in Row /\ rows[rule].revision # 0
  BY <1>1, SMTT(30)
<1>6. CASE Create(rule, fails)
  <2>1. PICK cron \in BOOLEAN :
            LET row == [state |-> "live", enabled |-> TRUE, cron |-> cron, revision |-> 1]
            IN  /\ Written(rule, row, fails)
                /\ IF fails THEN UNCHANGED <<registered, timers>> ELSE Register(rule, row)
    BY <1>6, Zenon DEF Create
  <2> DEFINE row == [state |-> "live", enabled |-> TRUE, cron |-> cron, revision |-> 1]
  <2>2. rows[rule].state = "absent" /\ rows[rule].revision = 1 /\ rule \notin torn
    BY <1>6, Zenon DEF Create, EngineInv, VersionsAreOfRows
  <2>3. registered[rule] = 0 /\ timers[rule] = 0
    BY <1>3, <2>2, Zenon DEF Follows
  <2>4. row \in Row /\ row.revision = 1 /\ row.state = "live" /\ row.enabled
    BY <1>1, SMTT(30)
  <2>5. /\ Written(rule, row, fails)
        /\ IF fails THEN UNCHANGED <<registered, timers>> ELSE Register(rule, row)
    BY <2>1, Zenon
  <2> HIDE DEF row
  <2>6. CASE fails
    <3>1. Follows(row, 0, 0, fails)
      BY <2>6, Zenon DEF Follows
    <3> QED
      BY <1>4, <1>5, <2>2, <2>3, <2>4, <2>5, <2>6, <3>1, Zenon
  <2>7. CASE ~fails
    <3> DEFINE timed == IF row.cron THEN 1 ELSE 0
    <3>1. registered' = [registered EXCEPT ![rule] = 1]
      BY <2>4, <2>5, <2>7, Zenon DEF Register
    <3>2. timers' = [timers EXCEPT ![rule] = timed]
      BY <1>5, <2>3, <2>4, <2>5, <2>7, Zenon DEF Register
    <3>3. Follows(row, 1, timed, fails)
      BY <2>4, SMTT(30) DEF Follows
    <3> HIDE DEF timed
    <3> QED
      BY <1>4, <2>2, <2>4, <2>5, <3>1, <3>2, <3>3, Zenon
  <2> QED
    BY <2>6, <2>7, Zenon
<1>7. CASE Delete(rule, fails)
  <2> DEFINE row == [rows[rule] EXCEPT !.state = "deleted"]
  <2>1. /\ row \in Row /\ row.revision = rows[rule].revision /\ row.state = "deleted"
        /\ row.enabled = rows[rule].enabled /\ row.cron = rows[rule].cron
    BY <1>5, SMTT(30)
  <2>2. /\ Written(rule, row, fails)
        /\ IF fails THEN UNCHANGED <<registered, timers>> ELSE Unregister(rule)
    BY <1>7, Zenon DEF Delete
  <2> HIDE DEF row
  <2>3. CASE fails
    <3>1. Follows(row, registered[rule], timers[rule], fails)
      BY <1>3, <2>1, <2>3, Zenon DEF Follows
    <3> QED
      BY <1>4, <1>5, <2>1, <2>2, <2>3, <3>1, Zenon
  <2>4. CASE ~fails
    <3>1. Follows(row, 0, 0, fails)
      BY <2>1, Zenon DEF Follows
    <3> QED
      BY <1>4, <2>1, <2>2, <2>4, <3>1, Zenon DEF Unregister
  <2> QED
    BY <2>3, <2>4, Zenon
<1>8. ASSUME NEW enabled \in BOOLEAN, Toggle(rule, enabled, fails) PROVE EngineInv'
  <2> DEFINE row == [rows[rule] EXCEPT !.enabled = enabled]
  <2>1. rows[rule].state = "live" /\ (fails => enabled)
    BY <1>8, Zenon DEF Toggle, Live
  <2>2. /\ row \in Row /\ row.revision = rows[rule].revision /\ row.state = "live"
        /\ row.enabled = enabled /\ row.cron = rows[rule].cron
    BY <1>5, <2>1, SMTT(30)
  <2>3. /\ Written(rule, row, fails)
        /\ fails => UNCHANGED <<registered, timers>>
        /\ ~fails /\ enabled => Register(rule, rows[rule])
        /\ ~fails /\ ~enabled => Unregister(rule)
    BY <1>8, Zenon DEF Toggle
  <2> HIDE DEF row
  <2>4. CASE fails
    <3>1. Follows(row, registered[rule], timers[rule], fails)
      BY <1>3, <2>1, <2>2, <2>4, Zenon DEF Follows
    <3> QED
      BY <1>4, <1>5, <2>2, <2>3, <2>4, <3>1, Zenon
  <2>5. CASE ~fails /\ enabled
    <3> DEFINE timed == IF row.cron THEN row.revision ELSE 0
    <3>1. registered' = [registered EXCEPT ![rule] = row.revision]
      BY <2>2, <2>3, <2>5, Zenon DEF Register
    <3>2. timers' = [timers EXCEPT ![rule] = timed]
      BY <1>3, <1>5, <2>2, <2>3, <2>5, Zenon DEF Register, Follows
    <3>3. Follows(row, row.revision, timed, fails)
      BY <1>5, <2>2, <2>5, Zenon DEF Follows
    <3> HIDE DEF timed
    <3> QED
      BY <1>4, <2>2, <2>3, <3>1, <3>2, <3>3, Zenon
  <2>6. CASE ~fails /\ ~enabled
    <3>1. Follows(row, 0, 0, fails)
      BY <2>2, <2>6, Zenon DEF Follows
    <3> QED
      BY <1>4, <2>2, <2>3, <2>6, <3>1, Zenon DEF Unregister
  <2> QED
    BY <2>4, <2>5, <2>6, Zenon
<1> QED
  BY <1>6, <1>7, <1>8, Zenon
-----------------------------------------------------------------------------
LEMMA StepKeepsEngineInv ==
    ASSUME EngineInv, TypeOK', [EngineNext]_evars
    PROVE  EngineInv'
<1>1. ASSUME UNCHANGED <<keyOf, catalogue, cause, inFlight>> PROVE EngineInv'
  <2>1. /\ inFlight' \subseteq [depth : 0..MaxDepth, hops : Nat, alias : BOOLEAN]
    BY <1>1, Zenon DEF EngineInv, EngineTypeOK
  <2>2. \A event \in inFlight' : ~event.alias => event.hops = event.depth
    BY <1>1, Zenon DEF EngineInv, DepthsAreTrue
  <2> QED
    BY <1>1, <2>1, <2>2, EventsKeepEngineInv, Zenon
<1>2. ASSUME NEW key \in Keys, External(key) \/ CronFires(key) PROVE EngineInv'
  BY <1>2, TriggersKeepEngineInv, Zenon
<1>3. ASSUME NEW r \in active, NEW key \in Keys, SharedSet(r, key) \/ DbSet(r, key) PROVE EngineInv'
  BY <1>3, TriggersKeepEngineInv, Zenon
<1>4. ASSUME NEW r \in active, EmitEvent(r) PROVE EngineInv'
  BY <1>4, EmitKeepsEngineInv, Zenon
<1>5. ASSUME NEW event \in inFlight, EventLost(event) PROVE EngineInv'
  <2>1. UNCHANGED <<keyOf, catalogue, cause>> /\ inFlight' \subseteq inFlight
    BY <1>5, Zenon DEF EventLost, vars
  <2>2. inFlight' \subseteq [depth : 0..MaxDepth, hops : Nat, alias : BOOLEAN]
    BY <2>1, Zenon DEF EngineInv, EngineTypeOK
  <2>3. \A f \in inFlight' : ~f.alias => f.hops = f.depth
    BY <2>1, Zenon DEF EngineInv, DepthsAreTrue
  <2> QED
    BY <2>1, <2>2, <2>3, EventsKeepEngineInv, Zenon
<1>6. ASSUME NEW event \in inFlight, NEW key \in Keys, EventArrives(event, key) PROVE EngineInv'
  BY <1>6, TriggersKeepEngineInv, Zenon
<1>7. ASSUME NEW rule \in Rules, NEW fails \in BOOLEAN,
             \/ Create(rule, fails) \/ Delete(rule, fails)
             \/ \E on \in BOOLEAN : Toggle(rule, on, fails)
      PROVE  EngineInv'
  BY <1>7, RoutesKeepEngineInv, Zenon
<1>8. ASSUME NEW e \in Editors,
             \/ RefuseEdit(e) \/ \E rule \in Rules : BeginEdit(e, rule)
             \/ \E fails \in BOOLEAN : FinishEdit(e, fails)
      PROVE  EngineInv'
  BY <1>8, EditorsKeepEngineInv, Zenon
<1>9. ASSUME NEW r \in active, Settle(r) PROVE EngineInv'
  BY <1>1, <1>9, Zenon DEF Settle, Complete, Engine
<1>10. CASE PromoteNext \/ StopDrain \/ Clock
  BY <1>1, <1>10, Zenon DEF PromoteNext, StopDrain, Clock, Promote, EndDrain, Tick, Engine
<1>11. CASE UNCHANGED evars
  BY <1>1, <1>11, Zenon DEF evars, vars
<1> QED
  BY <1>2, <1>3, <1>4, <1>5, <1>6, <1>7, <1>8, <1>9, <1>10, <1>11, Zenon DEF EngineNext

(* Only a rule that is registered or has a timer submits.                  *)
LEMMA SubmissionIsOfLiveRule ==
    ASSUME EngineInv, NEW key \in Keys, Submit(key),
           registered[RuleOf[key]] # 0 \/ timers[RuleOf[key]] # 0,
           NEW r \in DOMAIN keyOf' \ DOMAIN keyOf
    PROVE  LET rule == RuleOf[keyOf'[r]]
           IN  rows[rule].enabled /\ (Live(rule) \/ rule \in torn)
<1>1. keyOf \in Seq(Keys) /\ keyOf' = Append(keyOf, key)
  BY SubmitAppends, Zenon DEF EngineInv, EngineTypeOK, TypeOK
<1>2. keyOf'[r] = key
  BY <1>1
<1>3. RuleOf[key] \in Rules
  BY GateAssumption, Zenon
<1> QED
  BY <1>2, <1>3, Zenon DEF EngineInv, RegistryFollowsRows

-----------------------------------------------------------------------------
(***************************************************************************)
(* The theorems.  What counts the active set comes first.                  *)
(***************************************************************************)
LOCAL INSTANCE FiniteSetTheorems

(* The library's Cardinality is the gate's: the two have one definition.   *)
LEMMA LibraryCounts == \A S : Cardinality(S) = Count(S)[S]
BY Zenon DEF Cardinality, Count, Step

(* The active set is finite, so its size is a number and counts.           *)
LEMMA ActiveIsCounted == TypeOK => ActiveCounts
<1> SUFFICES ASSUME TypeOK PROVE ActiveCounts
  BY Zenon
<1>1. active \subseteq 1..Len(keyOf) /\ Len(keyOf) \in Nat
  BY DEF TypeOK, Submissions
<1>2. IsFiniteSet(1..Len(keyOf))
  BY <1>1, FS_Interval
<1>3. IsFiniteSet(active) /\ Cardinality(active) \in Nat
  BY <1>1, <1>2, FS_Subset, FS_CardinalityType, Zenon
<1>4. \A r : r \notin active => Cardinality(active \cup {r}) = Cardinality(active) + 1
  BY <1>3, FS_AddElement, Zenon
<1>5. \A r \in active : Cardinality(active \ {r}) = Cardinality(active) - 1
  BY <1>3, FS_RemoveElement, Zenon
<1> DEFINE Size(S) == Count(S)[S]
<1>6. /\ Size(active) \in Nat
      /\ \A r : r \notin active => Size(active \cup {r}) = Size(active) + 1
      /\ \A r \in active : Size(active \ {r}) = Size(active) - 1
  BY <1>3, <1>4, <1>5, LibraryCounts, Zenon
<1> QED
  BY <1>6, CardinalityCounts, Zenon DEF ActiveCounts

(* The gate's state is always well formed, whatever the rules, the keys,   *)
(* the limits and the clock.                                               *)
THEOREM GateInvariant == Spec => []GateInv
<1>1. GateInv /\ [Next]_vars => GateInv'
  BY NextKeepsInv, ActiveIsCounted, Zenon DEF GateInv
<1> QED
  BY <1>1, InitGateInv, PTL DEF Spec

(* submit(), complete() and drain() never exceed maxActive running         *)
(* executions or maxQueuePerRule waiting ones.                             *)
THEOREM CapsHold == Spec => []CapsRespected
<1>1. GateInv => CapsRespected
  BY Zenon DEF GateInv
<1> QED
  BY <1>1, GateInvariant, PTL

(* Between two callbacks, a request waits behind a free slot only when an  *)
(* execution of its own source runs, whose completion will drain it.       *)
THEOREM NothingStranded == Spec => []WorkConserving
<1>1. GateInv => WorkConserving
  BY Zenon DEF GateInv
<1> QED
  BY <1>1, GateInvariant, PTL

(* Whatever the order of arrivals, completions and promotions: a state     *)
(* source has at most one pending request, its executions start in the     *)
(* order of arrival and its last state is never lost, and the registry of  *)
(* discrete keys is exact.                                                 *)
THEOREM KeysAreFaithful == Spec => []CoalescingIsFaithful
<1>1. Spec => []SourceInv
  BY InitSources, NextKeepsSources, GateInvariant, PTL DEF Spec
<1>2. GateInv => TypeOK /\ QueuesIndexed
  BY Zenon DEF GateInv
<1> QED
  BY <1>1, <1>2, GateInvariant, SourcesAreFaithful, PTL

(* Nothing overtakes an entry of its own rule that arrived no later by the *)
(* clock: only drain() takes entries out, one at a time.                   *)
THEOREM QueuesAreFifo == Spec => RuleQueuesAreFifo
<1> DEFINE Fifo == \A rule \in Rules : Len(queues'[rule]) < Len(queues[rule]) =>
                    \E i \in DOMAIN queues[rule] :
                        /\ queues'[rule] = RemoveAt(queues[rule], i)
                        /\ \A j \in 1..(i - 1) : queues[rule][j].at > queues[rule][i].at
<1>1. ASSUME TypeOK, QueuesIndexed, Next PROVE Fifo
  <2>0. \A rule \in Rules : Len(queues[rule]) \in Nat
    BY <1>1 DEF TypeOK
  <2>1. CASE queues' = queues
    BY <2>0, <2>1
  <2>2. ASSUME NEW key \in Keys, SubmitCoalesced(key) PROVE Fifo
    <3>1. PICK rule \in Rules : \E i \in DOMAIN queues[rule] : Replaced(key, rule, i)
      BY <1>1, <2>2, CoalescedReplaces, Zenon
    <3>2. PICK i \in DOMAIN queues[rule] : Replaced(key, rule, i)
      BY <3>1, Zenon
    <3>3. /\ DOMAIN queues'[rule] = DOMAIN queues[rule]
          /\ \A other \in Rules \ {rule} : queues'[other] = queues[other]
      BY <3>2, Zenon DEF Replaced
    <3>4. Len(queues'[rule]) = Len(queues[rule])
      BY <3>2, Zenon DEF Replaced
    <3>5. \A q \in Rules : Len(queues'[q]) = Len(queues[q])
      BY <3>3, <3>4, Zenon
    <3> QED
      BY <2>0, <3>5
  <2>3. ASSUME NEW key \in Keys, SubmitQueued(key) PROVE Fifo
    <3>1. queues' = [queues EXCEPT ![RuleOf[key]] =
                        Append(queues[RuleOf[key]], [request |-> NextRequest, at |-> now])]
      BY <2>3, Zenon DEF SubmitQueued
    <3>2. queues \in [Rules -> Seq(Entries)] /\ RuleOf[key] \in Rules
      BY <1>1, GateAssumption, Zenon DEF TypeOK
    <3>3. /\ Len(queues'[RuleOf[key]]) = Len(queues[RuleOf[key]]) + 1
          /\ \A q \in Rules \ {RuleOf[key]} : queues'[q] = queues[q]
      BY <3>1, <3>2
    <3> QED
      BY <2>0, <3>3
  <2>4. CASE Promote
    <3>1. PICK rule \in Rules : \E i \in DOMAIN queues[rule] : Leaves(rule, i)
      BY <1>1, <2>4, PromoteTakesOne, Zenon
    <3>2. PICK i \in DOMAIN queues[rule] : Leaves(rule, i)
      BY <3>1, Zenon
    <3>3. /\ queues'[rule] = RemoveAt(queues[rule], i)
          /\ \A j \in 1..(i - 1) : queues[rule][j].at > queues[rule][i].at
          /\ \A other \in Rules \ {rule} : queues'[other] = queues[other]
      BY <3>2, Zenon DEF Leaves
    <3> QED
      BY <2>0, <3>3
  <2>5. ASSUME NEW key \in Keys,
               SubmitSuppressed(key) \/ SubmitAdmitted(key) \/ SubmitDropped(key)
        PROVE  queues' = queues
    BY <2>5, Zenon DEF SubmitSuppressed, SubmitAdmitted, SubmitDropped
  <2>6. ASSUME (\E r \in active : Complete(r)) \/ EndDrain \/ Tick PROVE queues' = queues
    BY <2>6, Zenon DEF Complete, EndDrain, Tick
  <2> QED
    BY <1>1, <2>1, <2>2, <2>3, <2>4, <2>5, <2>6 DEF Next, Submit
<1>2. GateInv => TypeOK /\ QueuesIndexed
  BY DEF GateInv
<1>3. TypeOK /\ QueuesIndexed /\ [Next]_vars => [Fifo]_vars
  BY <1>1, Zenon
<1> QED
  BY <1>2, <1>3, GateInvariant, PTL DEF Spec, RuleQueuesAreFifo

(* The engine implements the gate: fire(), evaluate(), a cron timer, a     *)
(* Shared State write and an Automation Event only ever submit, and the    *)
(* catalogue's routes leave the gate alone.                                *)
THEOREM EngineImplementsGate == EngineSpec => Spec
<1>1. EngineInit => Init
  BY Zenon DEF EngineInit
<1> QED
  BY <1>1, EngineStepIsGateStep, PTL DEF EngineSpec, Spec

(* The caps of the gate hold with every trigger of the engine.             *)
THEOREM EngineRespectsCaps == EngineSpec => []CapsRespected
BY EngineImplementsGate, CapsHold, PTL

LEMMA EngineGateInv == EngineSpec => []GateInv
BY EngineImplementsGate, GateInvariant, PTL

(* The strengthened invariant of the engine holds of every behaviour,      *)
(* whatever is edited, toggled or deleted between the two halves of a PUT. *)
THEOREM EngineInvariant == EngineSpec => []EngineInv
<1>1. GateInv' => TypeOK'
  BY Zenon DEF GateInv
<1>2. EngineInv /\ [EngineNext]_evars /\ TypeOK' => EngineInv'
  BY StepKeepsEngineInv, Zenon
<1>3. EngineSpec => []GateInv
  BY EngineGateInv, Zenon
<1> QED
  BY <1>1, <1>2, <1>3, EngineInitInv, PTL DEF EngineSpec

(* register() and unregister() leave the registry and the cron timers at   *)
(* what the rows say.                                                      *)
THEOREM RegistryIsCurrent == EngineSpec => []RegistryFollowsRows
<1>1. EngineInv => RegistryFollowsRows
  BY Zenon DEF EngineInv
<1> QED
  BY <1>1, EngineInvariant, PTL

(* A request submitted later runs no older revision of its rule.           *)
THEOREM RulesOnlyGetNewer == EngineSpec => []LaterRequestsRunLaterRules
<1>1. EngineInv => LaterRequestsRunLaterRules
  BY Zenon DEF EngineInv
<1> QED
  BY <1>1, EngineInvariant, PTL

(* No chain of Automation Events and Shared State writes is longer than    *)
(* MAX_EVENT_DEPTH, whatever the rules, keys and bounds.                   *)
THEOREM ChainsAreBounded == EngineSpec => []MixedChainsAreBounded
<1>1. EngineInv => MixedChainsAreBounded
  <2> SUFFICES ASSUME EngineInv, NEW r \in DOMAIN cause, ~cause[r].alias
               PROVE  cause[r].hops <= MaxDepth
    BY Zenon DEF MixedChainsAreBounded
  <2>1. cause[r] \in Causes /\ cause[r].hops = cause[r].depth
    BY CauseFacts, Zenon
  <2> QED
    BY <2>1, EngineAssumption DEF Causes
<1> QED
  BY <1>1, EngineInvariant, PTL

(* The DELETE route and unregister(): from the step that disables a rule,  *)
(* or deletes it without throwing on the way, no trigger of any kind       *)
(* submits it.                                                             *)
THEOREM DeletedStaysAsleep == EngineSpec => DeletedRuleIsNotWoken
<1> DEFINE Woken == \A r \in DOMAIN keyOf' \ DOMAIN keyOf :
                        LET rule == RuleOf[keyOf'[r]]
                        IN  rows[rule].enabled /\ (Live(rule) \/ rule \in torn)
<1>1. EngineInv /\ [EngineNext]_evars => [Woken]_evars
  <2> SUFFICES ASSUME EngineInv, EngineNext PROVE Woken
    BY Zenon
  <2>1. ASSUME NEW key \in Keys, External(key) \/ CronFires(key) PROVE Woken
    BY <2>1, SubmissionIsOfLiveRule, Zenon DEF External, CronFires, SubmitFrom, Matches
  <2>2. ASSUME NEW r \in active, NEW key \in Keys, SharedSet(r, key) \/ DbSet(r, key) PROVE Woken
    BY <2>2, SubmissionIsOfLiveRule, Zenon DEF SharedSet, DbSet, SubmitFrom, Matches
  <2>3. ASSUME NEW event \in inFlight, NEW key \in Keys, EventArrives(event, key) PROVE Woken
    BY <2>3, SubmissionIsOfLiveRule, Zenon DEF EventArrives, SubmitFrom, Matches
  <2>4. ASSUME UNCHANGED keyOf PROVE Woken
    BY <2>4, Zenon
  <2>5. ASSUME NEW r \in active, EmitEvent(r) PROVE Woken
    BY <2>4, <2>5, Zenon DEF EmitEvent, vars
  <2>6. ASSUME NEW event \in inFlight, EventLost(event) PROVE Woken
    BY <2>4, <2>6, Zenon DEF EventLost, vars
  <2>7. ASSUME NEW rule \in Rules, NEW fails \in BOOLEAN,
               \/ Create(rule, fails) \/ Delete(rule, fails)
               \/ \E on \in BOOLEAN : Toggle(rule, on, fails)
        PROVE  Woken
    BY <2>4, <2>7, Zenon DEF Create, Delete, Toggle, Catalogued, vars
  <2>8. ASSUME NEW e \in Editors,
               \/ RefuseEdit(e) \/ \E rule \in Rules : BeginEdit(e, rule)
               \/ \E fails \in BOOLEAN : FinishEdit(e, fails)
        PROVE  Woken
    BY <2>4, <2>8, Zenon DEF FinishEdit, RefuseEdit, BeginEdit, Catalogued, vars
  <2>9. ASSUME NEW r \in active, Settle(r) PROVE Woken
    BY <2>4, <2>9, Zenon DEF Settle, Complete
  <2>10. CASE PromoteNext \/ StopDrain \/ Clock
    BY <2>4, <2>10, Zenon DEF PromoteNext, StopDrain, Clock, Promote, EndDrain, Tick
  <2> HIDE DEF Woken
  <2> QED
    BY <2>1, <2>2, <2>3, <2>5, <2>6, <2>7, <2>8, <2>9, <2>10, Zenon DEF EngineNext
<1> QED
  BY <1>1, EngineInvariant, PTL DEF EngineSpec, DeletedRuleIsNotWoken
=============================================================================
