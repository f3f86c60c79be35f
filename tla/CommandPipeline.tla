--------------------------- MODULE CommandPipeline ---------------------------
(***************************************************************************)
(* The life of commands: CommandService.execute, the in-memory             *)
(* PendingCommandTracker that correlates replies, telemetry and timeouts,  *)
(* the durable CommandHistoryStore, the adapter in index.ts that records   *)
(* acknowledgements, and the reconciliation at startup.                    *)
(*                                                                         *)
(* Node.js runs one callback at a time: an action is the code between two  *)
(* awaits.  Any durable write may fail (it throws and its transaction is   *)
(* rolled back) and the process may die between any two actions.           *)
(***************************************************************************)
EXTENDS CommandLifecycle, Sequences, FiniteSets

CONSTANTS
    Commands,    \* the calls of execute()
    Devices,     \* the devices that commands may observe
    Inputs,      \* the requests that are made, see InputType
    MaxFaults,   \* bound: durable writes that fail
    MaxRestarts  \* bound: process restarts

(* What decides the control flow of execute(): is there a handler and does *)
(* the scope allow the action; is it a verified physical action; does the  *)
(* target acknowledge; were ConfirmOptions given; which tier was asked for; *)
(* which device is observed and is it registered.                          *)
InputType == [accepted : BOOLEAN, physical : BOOLEAN, ack : BOOLEAN, confirm : BOOLEAN,
              requested : RequestedTiers, device : Devices, present : BOOLEAN]

ASSUME PipelineAssumption ==
    /\ Inputs \subseteq InputType
    /\ MaxFaults \in Nat
    /\ MaxRestarts \in Nat

VARIABLES
    up,         \* is the process running?
    restarts,   \* restarts so far
    faults,     \* failed writes so far
    input,      \* what each call asks for
    call,       \* where each call of execute() stands
    record,     \* durable: the command_records row and its transitions
    pending,    \* tracker: the state of the pending entry
    resolution, \* what the tracker's promise resolved to
    result,     \* the ActionResult returned
    dispatches, \* how often the handler was invoked (history)
    evidence,   \* what was received for the command (history)
    unrecorded  \* some durable write of this command failed (history)

vars == <<up, restarts, faults, input, call, record, pending, resolution,
          result, dispatches, evidence, unrecorded>>

None == "none"

NoRecord == [state |-> None, completed |-> FALSE, success |-> None, trail |-> <<>>]
NewRecord == [state |-> "REQUESTED", completed |-> FALSE, success |-> None,
              trail |-> <<"REQUESTED">>]

Outcome(state, success) == [state |-> state, success |-> success]
NoOutcome == Outcome(None, FALSE)

Tier(c) == EffectiveTier(input[c].requested, input[c].confirm, input[c].ack)

Init ==
    /\ up = TRUE
    /\ restarts = 0
    /\ faults = 0
    /\ input \in [Commands -> Inputs]
    /\ call = [c \in Commands |-> "idle"]
    /\ record = [c \in Commands |-> NoRecord]
    /\ pending = [c \in Commands |-> None]
    /\ resolution = [c \in Commands |-> NoOutcome]
    /\ result = [c \in Commands |-> NoOutcome]
    /\ dispatches = [c \in Commands |-> 0]
    /\ evidence = [c \in Commands |-> {}]
    /\ unrecorded = [c \in Commands |-> FALSE]

-----------------------------------------------------------------------------
(* CommandHistoryStore                                                     *)

(* transition(): a missing or completed record, a repeated state and a     *)
(* transition the table does not allow are no-ops.                         *)
Transition(rec, to, completed, success) ==
    IF rec.state = None \/ rec.completed \/ ~CanTransition(rec.state, to)
    THEN rec
    ELSE [state |-> to,
          completed |-> completed,
          success |-> IF success = None THEN rec.success ELSE success,
          trail |-> Append(rec.trail, to)]

(* A write takes effect or throws; CommandService.recordTransition and the *)
(* adapter in index.ts log the error and carry on.                         *)
Write(c, rec) ==
    \/ /\ record' = [record EXCEPT ![c] = rec]
       /\ UNCHANGED <<faults, unrecorded>>
    \/ /\ record[c] # rec
       /\ faults < MaxFaults
       /\ faults' = faults + 1
       /\ unrecorded' = [unrecorded EXCEPT ![c] = TRUE]
       /\ UNCHANGED record

NoWrite == UNCHANGED <<record, faults, unrecorded>>

RecordTransition(c, to, completed, success) ==
    Write(c, Transition(record[c], to, completed, success))

Return(c, state, success) ==
    /\ call' = [call EXCEPT ![c] = "returned"]
    /\ result' = [result EXCEPT ![c] = Outcome(state, success)]

-----------------------------------------------------------------------------
(* CommandService.execute, up to the handler                               *)

(* No handler, or outside the automation's scope: no record at all.        *)
ExecuteRefused(c) ==
    /\ up /\ call[c] = "idle" /\ ~input[c].accepted
    /\ Return(c, "FAILED", FALSE)
    /\ NoWrite
    /\ UNCHANGED <<up, restarts, input, pending, resolution, dispatches, evidence>>

(* Mutation: the command goes on without its record.                       *)
ExecuteUnrecordableGoesOn(c) ==
    /\ up /\ call[c] = "idle" /\ input[c].accepted /\ input[c].physical
    /\ faults < MaxFaults
    /\ faults' = faults + 1
    /\ unrecorded' = [unrecorded EXCEPT ![c] = TRUE]
    /\ call' = [call EXCEPT ![c] = "dispatching"]
    /\ pending' = [pending EXCEPT ![c] = IF Tier(c) = "dispatch" THEN None ELSE "DISPATCHED"]
    /\ dispatches' = [dispatches EXCEPT ![c] = @ + 1]
    /\ UNCHANGED <<up, restarts, input, record, resolution, result, evidence>>

(* The REQUESTED record cannot be written: refused before dispatch.        *)
ExecuteUnrecordable(c) ==
    /\ up /\ call[c] = "idle" /\ input[c].accepted /\ input[c].physical
    /\ faults < MaxFaults
    /\ faults' = faults + 1
    /\ unrecorded' = [unrecorded EXCEPT ![c] = TRUE]
    /\ Return(c, "FAILED", FALSE)
    /\ UNCHANGED <<up, restarts, input, record, pending, resolution, dispatches, evidence>>

(* The record after store.create(); only physical commands have one.       *)
Created(c) == IF input[c].physical THEN NewRecord ELSE NoRecord

(* The device to observe is not registered: REQUESTED -> FAILED.           *)
ExecuteUnobservable(c) ==
    /\ up /\ call[c] = "idle" /\ input[c].accepted
    /\ Tier(c) = "observed" /\ ~input[c].present
    /\ \/ /\ record' = [record EXCEPT ![c] = Transition(Created(c), "FAILED", TRUE, "no")]
          /\ UNCHANGED <<faults, unrecorded>>
       \/ /\ input[c].physical /\ faults < MaxFaults
          /\ record' = [record EXCEPT ![c] = Created(c)]
          /\ faults' = faults + 1
          /\ unrecorded' = [unrecorded EXCEPT ![c] = TRUE]
    /\ Return(c, "FAILED", FALSE)
    /\ UNCHANGED <<up, restarts, input, pending, resolution, dispatches, evidence>>

(* create(), then register() unless the tier is dispatch, then the handler *)
(* is invoked: one synchronous run up to the first await.                  *)
ExecuteDispatch(c) ==
    /\ up /\ call[c] = "idle" /\ input[c].accepted
    /\ Tier(c) = "observed" => input[c].present
    /\ record' = [record EXCEPT ![c] = Created(c)]
    /\ pending' = [pending EXCEPT ![c] = IF Tier(c) = "dispatch" THEN None ELSE "DISPATCHED"]
    /\ dispatches' = [dispatches EXCEPT ![c] = @ + 1]
    /\ call' = [call EXCEPT ![c] = "dispatching"]
    /\ UNCHANGED <<up, restarts, faults, input, resolution, result, evidence, unrecorded>>

-----------------------------------------------------------------------------
(* CommandService.execute, from the handler on                             *)

(* Mutation: the failure is returned but not recorded.                     *)
HandlerFailsUnrecorded(c) ==
    /\ up /\ call[c] = "dispatching"
    /\ pending' = [pending EXCEPT ![c] = None]
    /\ Return(c, "FAILED", FALSE)
    /\ NoWrite
    /\ UNCHANGED <<up, restarts, input, resolution, dispatches, evidence>>

(* The handler threw or reported success: false: cancel() the pending      *)
(* entry, whatever it has received, and record the failure.                *)
HandlerFails(c) ==
    /\ up /\ call[c] = "dispatching"
    /\ pending' = [pending EXCEPT ![c] = None]
    /\ resolution' = [resolution EXCEPT ![c] = IF pending[c] = None THEN @ ELSE Outcome("FAILED", FALSE)]
    /\ RecordTransition(c, "FAILED", TRUE, "no")
    /\ Return(c, "FAILED", FALSE)
    /\ UNCHANGED <<up, restarts, input, dispatches, evidence>>

(* Dispatch tier: DISPATCHED completes the command.                        *)
HandlerCompletes(c) ==
    /\ up /\ call[c] = "dispatching" /\ Tier(c) = "dispatch"
    /\ evidence' = [evidence EXCEPT ![c] = @ \cup {"handler"}]
    /\ RecordTransition(c, "DISPATCHED", TRUE, "yes")
    /\ Return(c, "DISPATCHED", TRUE)
    /\ UNCHANGED <<up, restarts, input, pending, resolution, dispatches>>

(* Mutation: a tracked command reports success as soon as it is sent.      *)
HandlerHandsOverEarly(c) ==
    /\ up /\ call[c] = "dispatching" /\ Tier(c) # "dispatch"
    /\ evidence' = [evidence EXCEPT ![c] = @ \cup {"handler"}]
    /\ pending' = [pending EXCEPT ![c] = None]
    /\ RecordTransition(c, CompletionState(Tier(c)), TRUE, "yes")
    /\ Return(c, CompletionState(Tier(c)), TRUE)
    /\ UNCHANGED <<up, restarts, input, resolution, dispatches>>

(* Tracked: DISPATCHED is recorded as an open state, then the resolution   *)
(* is awaited.                                                             *)
HandlerHandsOver(c) ==
    /\ up /\ call[c] = "dispatching" /\ Tier(c) # "dispatch"
    /\ evidence' = [evidence EXCEPT ![c] = @ \cup {"handler"}]
    /\ RecordTransition(c, "DISPATCHED", FALSE, None)
    /\ call' = [call EXCEPT ![c] = "waiting"]
    /\ UNCHANGED <<up, restarts, input, pending, resolution, result, dispatches>>

(* Mutation: the outcome is recorded without its success flag.             *)
CompleteWithoutFlag(c) ==
    /\ up /\ call[c] = "waiting" /\ resolution[c] # NoOutcome
    /\ RecordTransition(c, resolution[c].state, TRUE, None)
    /\ Return(c, resolution[c].state, resolution[c].success)
    /\ UNCHANGED <<up, restarts, input, pending, resolution, dispatches, evidence>>

(* The awaited promise has resolved: record the outcome and return it.     *)
Complete(c) ==
    /\ up /\ call[c] = "waiting" /\ resolution[c] # NoOutcome
    /\ RecordTransition(c, resolution[c].state, TRUE, IF resolution[c].success THEN "yes" ELSE "no")
    /\ Return(c, resolution[c].state, resolution[c].success)
    /\ UNCHANGED <<up, restarts, input, pending, resolution, dispatches, evidence>>

-----------------------------------------------------------------------------
(* PendingCommandTracker                                                   *)

(* finalize(): the entry leaves the map, its timer is cleared and its      *)
(* promise resolves.                                                       *)
Finalize(c, state, success) ==
    /\ pending' = [pending EXCEPT ![c] = None]
    /\ resolution' = [resolution EXCEPT ![c] = Outcome(state, success)]

(* Mutation: only acknowledgement waits have a timer.                      *)
TimeoutAckOnly(c) ==
    /\ up /\ pending[c] # None /\ Tier(c) = "acknowledged"
    /\ Finalize(c, "TIMED_OUT", FALSE)
    /\ NoWrite
    /\ UNCHANGED <<up, restarts, input, call, result, dispatches, evidence>>

Timeout(c) ==
    /\ up /\ pending[c] # None
    /\ Finalize(c, "TIMED_OUT", FALSE)
    /\ NoWrite
    /\ UNCHANGED <<up, restarts, input, call, result, dispatches, evidence>>

(* A correlated reply can only come from a device that was sent the        *)
(* correlation id.  A reply without a pending entry is ignored.            *)
CanReply(c) == up /\ pending[c] # None /\ input[c].ack

(* route(): success === false wins over anything else in the reply.        *)
RouteRejection(c) ==
    /\ CanReply(c)
    /\ Finalize(c, "FAILED", FALSE)
    /\ NoWrite
    /\ UNCHANGED <<up, restarts, input, call, result, dispatches, evidence>>

(* route(), acknowledged tier: an acknowledgement completes the wait.      *)
RouteAckCompletes(c) ==
    /\ CanReply(c) /\ Tier(c) = "acknowledged"
    /\ evidence' = [evidence EXCEPT ![c] = @ \cup {"ack"}]
    /\ Finalize(c, "ACKNOWLEDGED", TRUE)
    /\ NoWrite
    /\ UNCHANGED <<up, restarts, input, call, result, dispatches>>

(* What evaluating the condition on a state gives, and its resolution.     *)
Verdicts == {"satisfied", "unsatisfied", "throws"}

ObservationOutcome(verdict) ==
    CASE verdict = "satisfied" -> Outcome("OBSERVED", TRUE)
      [] verdict = "unsatisfied" -> Outcome("STATE_MISMATCH", FALSE)
      [] verdict = "throws" -> Outcome("FAILED", FALSE)

Observed(c, verdict) == IF verdict = "satisfied" THEN {"state"} ELSE {}

(* index.ts onTransition: an acknowledgement that overtakes the DISPATCHED *)
(* write implies it.                                                       *)
Implied(rec) ==
    IF rec.state = "REQUESTED" THEN Transition(rec, "DISPATCHED", FALSE, None) ELSE rec

(* The first of the two writes, or the second, may fail.                   *)
RecordAck(c) ==
    LET implied == Implied(record[c])
        acked == Transition(implied, "ACKNOWLEDGED", FALSE, None)
    IN  \/ /\ record' = [record EXCEPT ![c] = acked]
           /\ UNCHANGED <<faults, unrecorded>>
        \/ /\ acked # record[c]
           /\ faults < MaxFaults
           /\ faults' = faults + 1
           /\ unrecorded' = [unrecorded EXCEPT ![c] = TRUE]
           /\ \E rec \in {record[c], implied} : record' = [record EXCEPT ![c] = rec]

(* route(), observed tier: the first acknowledgement is a milestone.       *)
(* The same reply may carry a state, which is a settled observation.       *)
RouteReply(c) ==
    /\ CanReply(c) /\ Tier(c) = "observed"
    /\ \E acknowledges \in BOOLEAN, verdict \in Verdicts \cup {None} :
        LET advanced == acknowledges /\ CanTransition(pending[c], "ACKNOWLEDGED")
        IN  /\ IF advanced THEN RecordAck(c) ELSE NoWrite
            /\ evidence' = [evidence EXCEPT ![c] =
                    @ \cup (IF acknowledges THEN {"ack"} ELSE {}) \cup Observed(c, verdict)]
            /\ IF verdict = None
               THEN /\ pending' = [pending EXCEPT ![c] = IF advanced THEN "ACKNOWLEDGED" ELSE @]
                    /\ UNCHANGED resolution
               ELSE Finalize(c, ObservationOutcome(verdict).state, ObservationOutcome(verdict).success)
    /\ UNCHANGED <<up, restarts, input, call, result, dispatches>>

(* observeState(): telemetry of a device reaches every command that        *)
(* observes it.  A state that does not satisfy the condition is ignored.   *)
Watching(d) == {c \in Commands : pending[c] # None /\ Tier(c) = "observed" /\ input[c].device = d}

ObserveState(d) ==
    /\ up
    /\ \E verdict \in [Watching(d) -> Verdicts] :
        LET settled == {c \in Watching(d) : verdict[c] # "unsatisfied"}
        IN  /\ settled # {}
            /\ pending' = [c \in Commands |-> IF c \in settled THEN None ELSE pending[c]]
            /\ resolution' = [c \in Commands |->
                    IF c \in settled THEN ObservationOutcome(verdict[c]) ELSE resolution[c]]
            /\ evidence' = [c \in Commands |->
                    IF c \in settled THEN evidence[c] \cup Observed(c, verdict[c]) ELSE evidence[c]]
    /\ NoWrite
    /\ UNCHANGED <<up, restarts, input, call, result, dispatches>>

-----------------------------------------------------------------------------
(* Mutation: what was in flight is taken up again by the next process.     *)
CrashResubmits ==
    /\ up
    /\ restarts < MaxRestarts
    /\ up' = FALSE
    /\ call' = [c \in Commands |-> IF call[c] \in {"dispatching", "waiting"} THEN "idle" ELSE call[c]]
    /\ pending' = [c \in Commands |-> None]
    /\ resolution' = [c \in Commands |-> NoOutcome]
    /\ NoWrite
    /\ UNCHANGED <<restarts, input, result, dispatches, evidence>>

(* The process stops, gracefully or not: calls in flight and the tracker   *)
(* are gone.                                                               *)
Crash ==
    /\ up
    /\ restarts < MaxRestarts
    /\ up' = FALSE
    /\ call' = [c \in Commands |-> IF call[c] \in {"dispatching", "waiting"} THEN "lost" ELSE call[c]]
    /\ pending' = [c \in Commands |-> None]
    /\ resolution' = [c \in Commands |-> NoOutcome]
    /\ NoWrite
    /\ UNCHANGED <<restarts, input, result, dispatches, evidence>>

(* The records that a restart finds without terminal_at.                   *)
Stale == {c \in Commands : record[c].state # None /\ ~record[c].completed}

Reconciled(stale) ==
    [c \in Commands |-> IF c \in stale THEN Transition(record[c], "FAILED", TRUE, "no") ELSE record[c]]

(* Mutation: one UPDATE by lifecycle state, which closes completed         *)
(* DISPATCHED and ACKNOWLEDGED records as well.                            *)
RestartByState ==
    /\ ~up
    /\ restarts' = restarts + 1
    /\ record' = [c \in Commands |->
            IF record[c].state \in {"REQUESTED", "DISPATCHED", "ACKNOWLEDGED"}
            THEN [record[c] EXCEPT !.state = "FAILED", !.completed = TRUE, !.success = "no",
                                   !.trail = Append(@, "FAILED")]
            ELSE record[c]]
    /\ up' = TRUE
    /\ UNCHANGED <<faults, input, call, pending, resolution, result, dispatches, evidence, unrecorded>>

(* reconcileInterrupted() runs before anything is served.                  *)
Restart ==
    /\ ~up
    /\ restarts' = restarts + 1
    /\ record' = Reconciled(Stale)
    /\ up' = TRUE
    /\ UNCHANGED <<faults, input, call, pending, resolution, result, dispatches, evidence, unrecorded>>

(* A write of the reconciliation throws: startup fails half-way.           *)
RestartFails ==
    /\ ~up
    /\ faults < MaxFaults
    /\ faults' = faults + 1
    /\ \E done \in SUBSET Stale : done # Stale /\ record' = Reconciled(done)
    /\ UNCHANGED <<up, restarts, input, call, pending, resolution, result, dispatches, evidence, unrecorded>>

-----------------------------------------------------------------------------
Execute(c) ==
    \/ ExecuteRefused(c)
    \/ ExecuteUnrecordable(c)
    \/ ExecuteUnobservable(c)
    \/ ExecuteDispatch(c)

Handler(c) == HandlerFails(c) \/ HandlerCompletes(c) \/ HandlerHandsOver(c)

Route(c) == RouteRejection(c) \/ RouteAckCompletes(c) \/ RouteReply(c)

Next ==
    \/ \E c \in Commands : Execute(c) \/ Handler(c) \/ Complete(c) \/ Timeout(c) \/ Route(c)
    \/ \E d \in Devices : ObserveState(d)
    \/ Crash
    \/ Restart
    \/ RestartFails

Spec == Init /\ [][Next]_vars

(* Armed timers fire, the continuation of a resolved promise runs, and the *)
(* supervisor restarts the process.  Nothing is assumed of devices.        *)
Fairness ==
    /\ \A c \in Commands : WF_vars(Timeout(c)) /\ WF_vars(Complete(c))
    /\ WF_vars(Restart)

(* Handlers settle too.  The MQTT path settles with its publish and Hue    *)
(* exchanges time out (hue-local-transport.ts); for the Kasa library, which *)
(* execute() awaits without a timeout of its own, this is an assumption.   *)
HandlerFairness == \A c \in Commands : WF_vars(Handler(c))

FairSpec == Spec /\ Fairness /\ HandlerFairness

-----------------------------------------------------------------------------
(* Properties                                                              *)

RecordType == [state : States \cup {None}, completed : BOOLEAN,
               success : {"yes", "no", None}, trail : Seq(States)]
OutcomeType == [state : States \cup {None}, success : BOOLEAN]

TypeOK ==
    /\ up \in BOOLEAN
    /\ restarts \in 0..MaxRestarts
    /\ faults \in 0..MaxFaults
    /\ input \in [Commands -> Inputs]
    /\ call \in [Commands -> {"idle", "dispatching", "waiting", "returned", "lost"}]
    /\ record \in [Commands -> RecordType]
    /\ pending \in [Commands -> {None, "DISPATCHED", "ACKNOWLEDGED"}]
    /\ resolution \in [Commands -> OutcomeType]
    /\ result \in [Commands -> OutcomeType]
    /\ dispatches \in [Commands -> Nat]
    /\ evidence \in [Commands -> SUBSET {"handler", "ack", "state"}]
    /\ unrecorded \in [Commands -> BOOLEAN]

(* A command reported as a success was handed over by its handler and has  *)
(* the evidence its tier calls for, and is reported in that tier's state   *)
(* (execute, route and evaluateObservation).                               *)
SuccessIsProven ==
    \A c \in Commands : result[c].success =>
        /\ result[c].state = CompletionState(Tier(c))
        /\ "handler" \in evidence[c]
        /\ Tier(c) = "acknowledged" => "ack" \in evidence[c]
        /\ Tier(c) = "observed" => "state" \in evidence[c]

(* A physical command is dispatched only with a durable record, and at     *)
(* most once, whatever fails or restarts.                                  *)
DispatchIsAudited ==
    \A c \in Commands : dispatches[c] > 0 =>
        /\ dispatches[c] = 1
        /\ input[c].physical => record[c].state # None

(* Nothing leaks and nothing hangs: a pending entry belongs to a call that *)
(* still runs, and a call that awaits a resolution has an armed entry or   *)
(* a resolution.                                                           *)
PendingIsAwaited ==
    \A c \in Commands :
        /\ pending[c] # None => up /\ call[c] \in {"dispatching", "waiting"}
        /\ call[c] = "waiting" => pending[c] # None \/ resolution[c] # NoOutcome

(* The transitions of a record are a path of the lifecycle table from      *)
(* REQUESTED to the record's state.                                        *)
IsTimeline(rec) ==
    IF rec.state = None
    THEN rec.trail = <<>>
    ELSE /\ Len(rec.trail) > 0
         /\ rec.trail[1] = "REQUESTED"
         /\ rec.trail[Len(rec.trail)] = rec.state
         /\ \A i \in 1..(Len(rec.trail) - 1) : rec.trail[i + 1] \in AllowedTransitions[rec.trail[i]]

(* Every recorded timeline is such a path, although execute(), the         *)
(* acknowledgement adapter and the reconciliation all append to it.        *)
TimelineIsPath == \A c \in Commands : IsTimeline(record[c])

(* A completed record never changes: not by a late reply, not by a restart. *)
CompletedIsFinal ==
    [][\A c \in Commands : record[c].completed => record'[c] = record[c]]_vars

(* What holds of a call at each point of execute().                        *)
CallInv ==
    /\ ~up => restarts < MaxRestarts
    /\ \A c \in Commands :
        /\ call[c] = "idle" => dispatches[c] = 0 /\ record[c].state = None /\ resolution[c] = NoOutcome
        /\ pending[c] # None => Tier(c) # "dispatch" /\ resolution[c] = NoOutcome
        /\ call[c] = "dispatching" /\ Tier(c) # "dispatch" =>
                pending[c] # None \/ resolution[c] # NoOutcome
        /\ call[c] = "waiting" => Tier(c) # "dispatch" /\ "handler" \in evidence[c]
        /\ resolution[c].success =>
                /\ resolution[c].state = CompletionState(Tier(c))
                /\ Tier(c) = "acknowledged" => "ack" \in evidence[c]
                /\ Tier(c) = "observed" => "state" \in evidence[c]

(* The inductive invariant: the safety properties above and what they      *)
(* need to know of a call's progress.                                      *)
PipelineInv ==
    /\ TypeOK
    /\ SuccessIsProven
    /\ DispatchIsAudited
    /\ PendingIsAwaited
    /\ TimelineIsPath
    /\ CallInv

(* When every write of a command succeeded, history and the caller agree:  *)
(* the record of a returned command is complete and says what the caller   *)
(* was told.                                                               *)
HistoryAgrees ==
    \A c \in Commands :
        call[c] = "returned" /\ record[c].state # None /\ ~unrecorded[c] =>
            /\ record[c].completed
            /\ record[c].state = result[c].state
            /\ record[c].success = IF result[c].success THEN "yes" ELSE "no"

IsOpen(rec) == rec.state # None /\ ~rec.completed

(* An open record belongs to a call in flight; after a restart there is    *)
(* none left unless a write failed since.                                  *)
OpenRecordsAreLive ==
    \A c \in Commands : up /\ IsOpen(record[c]) =>
        call[c] \in {"dispatching", "waiting"} \/ unrecorded[c]

(* An acknowledgement that reaches an observed-tier command is in its      *)
(* timeline even when it overtakes the DISPATCHED write.                   *)
AcknowledgementIsKept ==
    \A c \in Commands :
        "ack" \in evidence[c] /\ Tier(c) = "observed" /\ record[c].state # None /\ ~unrecorded[c] =>
            \E i \in DOMAIN record[c].trail : record[c].trail[i] = "ACKNOWLEDGED"

(* The history tells the truth about commands that have returned, that run *)
(* and that were acknowledged, unless a write of theirs failed, and every  *)
(* timeline in it is a path of the lifecycle.                              *)
HistoryIsTrue == HistoryAgrees /\ OpenRecordsAreLive /\ AcknowledgementIsKept /\ TimelineIsPath

(* The confirmation window bounds the wait: a call that awaits its         *)
(* resolution returns, unless the process stops.                           *)
WaitIsBounded ==
    \A c \in Commands : call[c] = "waiting" ~> call[c] \in {"returned", "lost"}

(* Every record is eventually completed, by its call or by the             *)
(* reconciliation after a restart, unless a write of its command failed.   *)
RecordsAreCompleted ==
    \A c \in Commands : IsOpen(record[c]) ~> record[c].completed \/ unrecorded[c]

(* reconcileInterrupted explains every record it closes with "Process      *)
(* restarted while the command was in flight": it never closes, as failed, *)
(* the record of a command that had returned a success to its caller.      *)
InterruptedMeansInFlight ==
    \A c \in Commands : result[c].success => record[c].success # "no"

(* "A requested tier that exceeds what the device can prove is an          *)
(* over-request and is clamped down" (command-service.ts:613).             *)
TierIsNeverRaised ==
    \A c \in Commands : input[c].requested # "any" =>
        TierRank(Tier(c)) <= TierRank(input[c].requested)

-----------------------------------------------------------------------------
(* The refinement mapping to VerifiedCommand.                              *)

AbstractPhase(c) ==
    CASE call[c] = "idle" -> "new"
      [] call[c] \in {"dispatching", "waiting"} -> "sent"
      [] call[c] = "returned" -> "done"
      [] call[c] = "lost" -> "lost"

AbstractOutcome(c) ==
    IF call[c] # "returned" THEN "none" ELSE IF result[c].success THEN "success" ELSE "failure"

AbstractJournal(c) ==
    IF record[c].state = None THEN "none"
    ELSE IF ~record[c].completed THEN "open"
    ELSE IF record[c].success = "yes" THEN "success" ELSE "failure"

Abstract == INSTANCE VerifiedCommand WITH
    phase <- [c \in Commands |-> AbstractPhase(c)],
    outcome <- [c \in Commands |-> AbstractOutcome(c)],
    journal <- [c \in Commands |-> AbstractJournal(c)]

(* The pipeline implements VerifiedCommand: whatever fails and whenever    *)
(* the process stops, no command is sent twice, no outcome is revised and  *)
(* no journal entry is closed twice or with another outcome.               *)
ImplementsVerifiedCommand == Abstract!Spec
=============================================================================
