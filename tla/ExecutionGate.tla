---------------------------- MODULE ExecutionGate ----------------------------
(***************************************************************************)
(* The concurrency gate between "a rule matched" and "its execution runs"  *)
(* (src/automations/execution-gate.ts): a global cap on active executions, *)
(* a bounded queue per rule, latest-state coalescing for state-driven      *)
(* requests and duplicate suppression for discrete ones.                   *)
(*                                                                         *)
(* A request is numbered in submission order and stands for its thunk.     *)
(* The engine builds both the dedup key and the coalesce key of a request  *)
(* from the same rule/device/topic (or rule/bucket/key), so one key names  *)
(* both.  StateKeys are the keys submitted with a coalesceKey; the others  *)
(* (cron, automation events, manual fire) are submitted without one.       *)
(*                                                                         *)
(* JavaScript runs one callback at a time, so submit is one step.          *)
(* drain() starts each promoted thunk synchronously, and the part of a     *)
(* thunk before its first await may publish and so submit again (a publish *)
(* emits the command-topic signal that rules match on), so a drain is a    *)
(* sequence of steps: nothing but such submissions comes between them.     *)
(***************************************************************************)
EXTENDS Integers, FiniteSets, Sequences

CONSTANTS
    Rules,           \* rule identifiers
    Keys,            \* dedup/coalesce keys
    RuleOf,          \* the rule each key belongs to
    StateKeys,       \* the keys submitted with a coalesceKey
    MaxActive,       \* GateConfig.maxActive
    MaxQueuePerRule, \* GateConfig.maxQueuePerRule
    MaxRequests,     \* bound: how many requests are submitted
    MaxTime          \* bound: the values Date.now() takes

ASSUME GateAssumption ==
    /\ RuleOf \in [Keys -> Rules]
    /\ StateKeys \subseteq Keys
    /\ MaxActive \in Nat \ {0}
    /\ MaxQueuePerRule \in Nat
    /\ MaxRequests \in Nat
    /\ MaxTime \in Nat

VARIABLES
    keyOf,      \* the keys of the requests submitted so far, in order
    status,     \* what became of each of them (history)
    active,     \* activeSet: the requests whose thunk is running
    queues,     \* queues: the pending entries of each rule, <<>> when absent
    queueOrder, \* the rules with a queue, in the Map's insertion order
    dedupKeys,  \* dedupKeys
    draining,   \* where complete()/drain() stands
    now         \* Date.now()

vars == <<keyOf, status, active, queues, queueOrder, dedupKeys, draining, now>>

Statuses == {"active", "queued", "superseded", "dropped", "suppressed", "done"}
Requests == 1..MaxRequests
Entries == [request : Requests, at : 0..MaxTime]

Init ==
    /\ keyOf = <<>>
    /\ status = <<>>
    /\ active = {}
    /\ queues = [rule \in Rules |-> <<>>]
    /\ queueOrder = <<>>
    /\ dedupKeys = {}
    /\ draining = "no"
    /\ now = 0

-----------------------------------------------------------------------------
(* submit().  The five actions below are its five returns.                  *)

NextRequest == Len(keyOf) + 1

(* Nothing can be submitted between the release of a slot and the first    *)
(* promoted thunk: complete() calls drain() at once.                       *)
CanSubmit ==
    /\ draining # "released"
    /\ Len(keyOf) < MaxRequests

Submitted(key, result) ==
    /\ keyOf' = Append(keyOf, key)
    /\ status' = Append(status, result)

SameKeyActive(key) == \E r \in active : keyOf[r] = key

(* The pending entries of a key, by their position in its rule's queue.    *)
Pending(key) ==
    {i \in DOMAIN queues[RuleOf[key]] : keyOf[queues[RuleOf[key]][i].request] = key}

(* Mutation: the newest request is discarded and the pending one kept.     *)
SubmitCoalescedKeepsOld(key) ==
    /\ CanSubmit
    /\ key \in StateKeys
    /\ Pending(key) # {}
    /\ Submitted(key, "superseded")
    /\ UNCHANGED <<active, queues, queueOrder, dedupKeys, draining, now>>

(* A pending state-driven entry takes the newest request and keeps its place. *)
SubmitCoalesced(key) ==
    /\ CanSubmit
    /\ key \in StateKeys
    /\ \E i \in Pending(key) :
        /\ \A j \in Pending(key) : i <= j
        /\ queues' = [queues EXCEPT ![RuleOf[key]][i].request = NextRequest]
        /\ keyOf' = Append(keyOf, key)
        /\ status' = Append([status EXCEPT ![queues[RuleOf[key]][i].request] = "superseded"],
                            "queued")
    /\ UNCHANGED <<active, queueOrder, dedupKeys, draining, now>>

(* A discrete request whose key is registered is a duplicate.              *)
SubmitSuppressed(key) ==
    /\ CanSubmit
    /\ key \notin StateKeys
    /\ key \in dedupKeys
    /\ Submitted(key, "suppressed")
    /\ UNCHANGED <<active, queues, queueOrder, dedupKeys, draining, now>>

Fresh(key) == IF key \in StateKeys THEN Pending(key) = {} ELSE key \notin dedupKeys

MustWait(key) ==
    \/ key \in StateKeys /\ SameKeyActive(key)
    \/ Cardinality(active) >= MaxActive

(* admit(): the thunk starts at once.                                      *)
SubmitAdmitted(key) ==
    /\ CanSubmit
    /\ Fresh(key)
    /\ ~MustWait(key)
    /\ Submitted(key, "active")
    /\ active' = active \cup {NextRequest}
    /\ dedupKeys' = dedupKeys \cup {key}
    /\ UNCHANGED <<queues, queueOrder, draining, now>>

(* Mutation: off by one in the queue bound.                                *)
QueueHasRoomOffByOne(rule) == Len(queues[rule]) <= MaxQueuePerRule

QueueHasRoom(rule) == Len(queues[rule]) < MaxQueuePerRule

SubmitQueued(key) ==
    /\ CanSubmit
    /\ Fresh(key)
    /\ MustWait(key)
    /\ QueueHasRoom(RuleOf[key])
    /\ Submitted(key, "queued")
    /\ queues' = [queues EXCEPT ![RuleOf[key]] =
                    Append(@, [request |-> NextRequest, at |-> now])]
    /\ queueOrder' = IF queues[RuleOf[key]] = <<>>
                     THEN Append(queueOrder, RuleOf[key]) ELSE queueOrder
    /\ dedupKeys' = dedupKeys \cup {key}
    /\ UNCHANGED <<active, draining, now>>

SubmitDropped(key) ==
    /\ CanSubmit
    /\ Fresh(key)
    /\ MustWait(key)
    /\ ~QueueHasRoom(RuleOf[key])
    /\ Submitted(key, "dropped")
    /\ UNCHANGED <<active, queues, queueOrder, dedupKeys, draining, now>>

Submit(key) ==
    \/ SubmitCoalesced(key)
    \/ SubmitSuppressed(key)
    \/ SubmitAdmitted(key)
    \/ SubmitQueued(key)
    \/ SubmitDropped(key)

-----------------------------------------------------------------------------
(* complete() and drain().                                                 *)

(* Mutation: the dedup key outlives its execution.                         *)
CompleteKeepsKey(r) ==
    /\ draining = "no"
    /\ r \in active
    /\ active' = active \ {r}
    /\ status' = [status EXCEPT ![r] = "done"]
    /\ draining' = "released"
    /\ UNCHANGED <<keyOf, queues, queueOrder, dedupKeys, now>>

(* Mutation: complete() frees the slot and does not call drain().          *)
CompleteWithoutDrain(r) ==
    /\ draining = "no"
    /\ r \in active
    /\ active' = active \ {r}
    /\ status' = [status EXCEPT ![r] = "done"]
    /\ dedupKeys' = dedupKeys \ {keyOf[r]}
    /\ UNCHANGED <<keyOf, queues, queueOrder, draining, now>>

(* The thunk settled: its finally callback frees the slot and forgets its  *)
(* key.                                                                    *)
Complete(r) ==
    /\ draining = "no"
    /\ r \in active
    /\ active' = active \ {r}
    /\ status' = [status EXCEPT ![r] = "done"]
    /\ dedupKeys' = dedupKeys \ {keyOf[r]}
    /\ draining' = "released"
    /\ UNCHANGED <<keyOf, queues, queueOrder, now>>

(* Mutation: the comparison is reversed, so the newest entry is found.     *)
IsNewest(m, i) ==
    \A n \in DOMAIN queueOrder : \A j \in DOMAIN queues[queueOrder[n]] :
        queues[queueOrder[m]][i].at >= queues[queueOrder[n]][j].at

(* findOldestQueued(): the scan keeps the first entry with the least       *)
(* enqueuedAt, in the order of the Map and then of the queue.              *)
IsOldest(m, i) ==
    LET at(n, j) == queues[queueOrder[n]][j].at
    IN  \A n \in DOMAIN queueOrder : \A j \in DOMAIN queues[queueOrder[n]] :
            \/ at(m, i) < at(n, j)
            \/ at(m, i) = at(n, j) /\ (m < n \/ (m = n /\ i <= j))

(* queue.splice(i, 1): the entry leaves, the later ones move up by one.    *)
RemoveAt(s, i) == [j \in 1..Len(s) - 1 |-> s[IF j < i THEN j ELSE j + 1]]

Promote ==
    /\ draining \in {"released", "promoted"}
    /\ Cardinality(active) < MaxActive
    /\ \E m \in DOMAIN queueOrder : \E i \in DOMAIN queues[queueOrder[m]] :
        LET rule == queueOrder[m]
            r == queues[rule][i].request
        IN  /\ IsOldest(m, i)
            /\ queues' = [queues EXCEPT ![rule] = RemoveAt(@, i)]
            /\ queueOrder' = IF Len(queues[rule]) = 1
                             THEN RemoveAt(queueOrder, m) ELSE queueOrder
            /\ active' = active \cup {r}
            /\ status' = [status EXCEPT ![r] = "active"]
    /\ draining' = "promoted"
    /\ UNCHANGED <<keyOf, dedupKeys, now>>

(* Mutation: drain() promotes one entry instead of looping.                *)
EndDrainAfterOne ==
    /\ draining \in {"released", "promoted"}
    /\ draining = "promoted" \/ Cardinality(active) >= MaxActive \/ queueOrder = <<>>
    /\ draining' = "no"
    /\ UNCHANGED <<keyOf, status, active, queues, queueOrder, dedupKeys, now>>

EndDrain ==
    /\ draining \in {"released", "promoted"}
    /\ Cardinality(active) >= MaxActive \/ queueOrder = <<>>
    /\ draining' = "no"
    /\ UNCHANGED <<keyOf, status, active, queues, queueOrder, dedupKeys, now>>

(* The wall clock: it moves on, stands still for a millisecond or, when it *)
(* is set, steps back.                                                     *)
Tick ==
    /\ now' \in 0..MaxTime
    /\ now' # now
    /\ UNCHANGED <<keyOf, status, active, queues, queueOrder, dedupKeys, draining>>

Next ==
    \/ \E key \in Keys : Submit(key)
    \/ \E r \in active : Complete(r)
    \/ Promote
    \/ EndDrain
    \/ Tick

Spec == Init /\ [][Next]_vars

(* A drain is synchronous.  That a thunk settles is not the gate's doing.  *)
Fairness ==
    /\ WF_vars(Promote)
    /\ WF_vars(EndDrain)

FairSpec == Spec /\ Fairness

-----------------------------------------------------------------------------
(* Properties.                                                             *)

Submissions == DOMAIN keyOf

TypeOK ==
    /\ keyOf \in Seq(Keys)
    /\ Len(keyOf) <= MaxRequests
    /\ status \in Seq(Statuses)
    /\ Len(status) = Len(keyOf)
    /\ active \subseteq Submissions
    /\ queues \in [Rules -> Seq(Entries)]
    /\ queueOrder \in Seq(Rules)
    /\ dedupKeys \subseteq Keys
    /\ draining \in {"no", "released", "promoted"}
    /\ now \in 0..MaxTime

(* The requests waiting in some queue.                                     *)
Waiting == {r \in Submissions : \E rule \in Rules : \E i \in DOMAIN queues[rule] :
                queues[rule][i].request = r}

(* The caps hold whatever the interleaving of submissions, completions and *)
(* reentrant submissions: never more than maxActive running executions,    *)
(* never more than maxQueuePerRule waiting for a rule.                     *)
CapsRespected ==
    /\ Cardinality(active) <= MaxActive
    /\ \A rule \in Rules : Len(queues[rule]) <= MaxQueuePerRule

(* A free slot and a waiting request coexist only when the request waits   *)
(* for an execution of its own source: otherwise nobody would ever call    *)
(* drain() for it, since only complete() does.                             *)
WorkConserving ==
    draining = "no" /\ Cardinality(active) < MaxActive =>
        \A r \in Waiting : keyOf[r] \in StateKeys /\ SameKeyActive(keyOf[r])

(* The Map of queues holds each rule once and only while its queue has an  *)
(* entry, and an entry waits in the queue of the rule it belongs to.       *)
QueuesIndexed ==
    /\ \A rule \in Rules : queues[rule] # <<>> <=> \E m \in DOMAIN queueOrder : queueOrder[m] = rule
    /\ \A m, n \in DOMAIN queueOrder : queueOrder[m] = queueOrder[n] => m = n
    /\ \A rule \in Rules : \A i \in DOMAIN queues[rule] :
            /\ queues[rule][i].request \in Submissions
            /\ RuleOf[keyOf[queues[rule][i].request]] = rule

(* The inductive invariant behind CapsRespected and WorkConserving: empty  *)
(* queues must really be absent from the Map for drain() to stop only when *)
(* nothing waits.                                                          *)
GateInv == TypeOK /\ QueuesIndexed /\ CapsRespected /\ WorkConserving

(* At most one execution per source is pending ("only the newest pending   *)
(* request survives").                                                     *)
OnePendingPerSource ==
    \A key \in StateKeys : Cardinality(Pending(key)) <= 1

(* The executions of one source start in the order in which its states     *)
(* arrived: a waiting request is newer than every one that has started.    *)
StartsInSubmissionOrder ==
    \A r \in Waiting, s \in Submissions :
        keyOf[r] \in StateKeys /\ keyOf[s] = keyOf[r] /\ status[s] \in {"active", "done"}
            => s < r

(* Coalescing loses no final state: a superseded request has a newer one   *)
(* of its source that waits, runs or has run.                              *)
LatestStateSurvives ==
    \A s \in Submissions : status[s] = "superseded" =>
        \E r \in Submissions : /\ r > s
                               /\ keyOf[r] = keyOf[s]
                               /\ status[r] \in {"queued", "active", "done"}

(* For discrete requests the registry of keys is exact: a key is           *)
(* registered if and only if one execution of it waits or runs, and it is  *)
(* the only one.  A stale key would suppress every later event; a missing  *)
(* one would run a duplicate.                                              *)
DiscreteKeysExact ==
    \A key \in Keys \ StateKeys :
        LET live == {r \in active \cup Waiting : keyOf[r] = key}
        IN  /\ key \in dedupKeys <=> live # {}
            /\ Cardinality(live) <= 1

(* What the keys promise: of a state source one pending request, in order, *)
(* and never an older one in the place of the newest; of a discrete source *)
(* no request twice, and none suppressed without cause.                    *)
CoalescingIsFaithful ==
    OnePendingPerSource /\ StartsInSubmissionOrder /\ LatestStateSurvives /\ DiscreteKeysExact

(* Each rule's queue is FIFO up to the wall clock: an entry overtakes      *)
(* another only if the clock stepped back between their arrivals, never    *)
(* when they arrived in the same millisecond.                              *)
RuleQueuesAreFifo ==
    [][\A rule \in Rules : Len(queues'[rule]) < Len(queues[rule]) =>
            \E i \in DOMAIN queues[rule] :
                /\ queues'[rule] = RemoveAt(queues[rule], i)
                /\ \A j \in 1..(i - 1) : queues[rule][j].at > queues[rule][i].at]_vars

(* No waiting request is forgotten: it starts, or a newer state of its     *)
(* source takes its place, provided the executions that hold a slot settle *)
(* (one that does not keeps its slot, and the queue may wait behind it).   *)
QueuedEventuallyStarts ==
    (\A r \in Requests : []<>(r \notin active)) =>
        \A r \in Requests :
            (r \in Submissions /\ status[r] = "queued")
                ~> (r \in Submissions /\ status[r] \in {"active", "done", "superseded"})

(* "Preserve per-source serialization" (execution-gate.ts:116): two        *)
(* executions of one source never run at the same time.                    *)
PerSourceSerialization ==
    \A r, s \in active : keyOf[r] = keyOf[s] /\ keyOf[r] \in StateKeys => r = s
=============================================================================
