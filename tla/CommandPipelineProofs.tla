------------------------ MODULE CommandPipelineProofs ------------------------
(***************************************************************************)
(* Proofs about the command pipeline, for any commands, devices, requests, *)
(* number of failing writes and number of restarts.  The invariant is      *)
(* proved in two halves: the journal (record, faults, unrecorded), which   *)
(* only transition() and create() touch, and the control state.  Then the  *)
(* pipeline is shown to implement VerifiedCommand, and its history to tell *)
(* the truth.                                                              *)
(***************************************************************************)
EXTENDS CommandPipeline, TLAPS

(* The journal's half of PipelineInv.                                      *)
JournalInv ==
    /\ faults \in 0..MaxFaults
    /\ record \in [Commands -> RecordType]
    /\ unrecorded \in [Commands -> BOOLEAN]
    /\ TimelineIsPath

(* The other half: the types of the control state and what holds of it.    *)
ControlTypes ==
    /\ up \in BOOLEAN
    /\ restarts \in 0..MaxRestarts
    /\ input \in [Commands -> Inputs]
    /\ call \in [Commands -> {"idle", "dispatching", "waiting", "returned", "lost"}]
    /\ pending \in [Commands -> {None, "DISPATCHED", "ACKNOWLEDGED"}]
    /\ resolution \in [Commands -> OutcomeType]
    /\ result \in [Commands -> OutcomeType]
    /\ dispatches \in [Commands -> Nat]
    /\ evidence \in [Commands -> SUBSET {"handler", "ack", "state"}]

ControlInv ==
    /\ ControlTypes
    /\ SuccessIsProven
    /\ DispatchIsAudited
    /\ PendingIsAwaited
    /\ CallInv

(* After execute() has created the record, no step creates or removes one. *)
SameRecords == \A c \in Commands : record'[c].state = None <=> record[c].state = None

(* The same half for one command.                                          *)
CommandInv(c) ==
    /\ result[c].success =>
            /\ result[c].state = CompletionState(Tier(c))
            /\ "handler" \in evidence[c]
            /\ Tier(c) = "acknowledged" => "ack" \in evidence[c]
            /\ Tier(c) = "observed" => "state" \in evidence[c]
    /\ dispatches[c] > 0 => dispatches[c] = 1 /\ (input[c].physical => record[c].state # None)
    /\ pending[c] # None => up /\ call[c] \in {"dispatching", "waiting"}
    /\ call[c] = "waiting" => pending[c] # None \/ resolution[c] # NoOutcome
    /\ call[c] = "idle" => dispatches[c] = 0 /\ record[c].state = None /\ resolution[c] = NoOutcome
    /\ pending[c] # None => Tier(c) # "dispatch" /\ resolution[c] = NoOutcome
    /\ call[c] = "dispatching" /\ Tier(c) # "dispatch" => pending[c] # None \/ resolution[c] # NoOutcome
    /\ call[c] = "waiting" => Tier(c) # "dispatch" /\ "handler" \in evidence[c]
    /\ resolution[c].success =>
            /\ resolution[c].state = CompletionState(Tier(c))
            /\ Tier(c) = "acknowledged" => "ack" \in evidence[c]
            /\ Tier(c) = "observed" => "state" \in evidence[c]

-----------------------------------------------------------------------------
(* The journal                                                             *)

(* The table leads from states to states.                                  *)
LEMMA TableType == AllowedTransitions \in [States -> SUBSET States]
BY Zenon DEF AllowedTransitions, States

(* transition() extends a timeline by an allowed step or not at all, and   *)
(* never creates or removes a record.                                      *)
LEMMA TransitionKeepsTimeline ==
    ASSUME NEW rec \in RecordType, IsTimeline(rec), NEW to \in States,
           NEW completed \in BOOLEAN, NEW success \in {"yes", "no", None}
    PROVE  /\ Transition(rec, to, completed, success) \in RecordType
           /\ IsTimeline(Transition(rec, to, completed, success))
           /\ Transition(rec, to, completed, success).state = None <=> rec.state = None
<1> DEFINE new == Transition(rec, to, completed, success)
<1>0. None \notin States
  BY Zenon DEF None, States
<1>1. CASE rec.state = None \/ rec.completed \/ ~CanTransition(rec.state, to)
  BY <1>1, Zenon DEF Transition
<1>2. CASE ~(rec.state = None \/ rec.completed \/ ~CanTransition(rec.state, to))
  <2>1. new = [state |-> to, completed |-> completed,
               success |-> IF success = None THEN rec.success ELSE success,
               trail |-> Append(rec.trail, to)]
    BY <1>2, Zenon DEF Transition
  <2>2. rec.trail \in Seq(States) /\ rec.state \in States
    BY <1>2, Zenon DEF RecordType
  <2>3. /\ Append(rec.trail, to) \in Seq(States)
        /\ Len(Append(rec.trail, to)) = Len(rec.trail) + 1
        /\ Append(rec.trail, to)[Len(rec.trail) + 1] = to
        /\ \A i \in 1..Len(rec.trail) : Append(rec.trail, to)[i] = rec.trail[i]
        /\ Len(rec.trail) \in Nat
    BY <2>2
  <2>4. new \in RecordType
    BY <2>1, <2>3 DEF RecordType
  <2>5. to \in AllowedTransitions[rec.state]
    BY <1>2, Zenon DEF CanTransition
  <2>6. /\ Len(rec.trail) > 0
        /\ rec.trail[1] = "REQUESTED"
        /\ rec.trail[Len(rec.trail)] = rec.state
        /\ \A i \in 1..(Len(rec.trail) - 1) : rec.trail[i + 1] \in AllowedTransitions[rec.trail[i]]
    BY <1>2, Zenon DEF IsTimeline
  <2>7. ASSUME NEW i \in 1..Len(rec.trail)
        PROVE  Append(rec.trail, to)[i + 1] \in AllowedTransitions[Append(rec.trail, to)[i]]
    <3>1. CASE i = Len(rec.trail)
      BY <3>1, <2>3, <2>5, <2>6, Zenon
    <3>2. CASE i # Len(rec.trail)
      <4>1. i \in 1..(Len(rec.trail) - 1) /\ i + 1 \in 1..Len(rec.trail)
        BY <3>2, <2>3
      <4> QED BY <4>1, <2>3, <2>6, Zenon
    <3> QED BY <3>1, <3>2, Zenon
  <2>8. new.state = to /\ new.trail = Append(rec.trail, to) /\ to # None
    BY <2>1, <1>0
  <2>9. IsTimeline(new)
    BY <2>8, <2>3, <2>6, <2>7 DEF IsTimeline
  <2> QED BY <1>2, <2>4, <2>8, <2>9, Zenon
<1> QED BY <1>1, <1>2, Zenon

(* What create() stores is a timeline.                                     *)
LEMMA CreatedIsTimeline ==
    /\ NoRecord \in RecordType /\ IsTimeline(NoRecord)
    /\ NewRecord \in RecordType /\ IsTimeline(NewRecord) /\ NewRecord.state # None
<1>1. <<>> \in Seq(States) /\ <<"REQUESTED">> \in Seq(States)
  BY DEF States
<1>2. Len(<<"REQUESTED">>) = 1 /\ <<"REQUESTED">>[1] = "REQUESTED"
  BY Zenon
<1>3. NoRecord \in RecordType /\ IsTimeline(NoRecord)
  BY <1>1, Zenon DEF NoRecord, RecordType, IsTimeline, None
<1>4. NewRecord \in RecordType /\ NewRecord.state # None
  BY <1>1, Zenon DEF NewRecord, RecordType, States, None
<1>5. NewRecord.trail = <<"REQUESTED">> /\ NewRecord.state = "REQUESTED"
  BY Zenon DEF NewRecord
<1>6. IsTimeline(NewRecord)
  BY <1>2, <1>4, <1>5 DEF IsTimeline
<1> QED BY <1>3, <1>4, <1>6, Zenon

(* A step that replaces one record by a timeline keeps the journal sound.  *)
LEMMA ReplaceKeepsTimelines ==
    ASSUME JournalInv, NEW c \in Commands, NEW rec \in RecordType, IsTimeline(rec),
           record' = [record EXCEPT ![c] = rec],
           faults' \in 0..MaxFaults, unrecorded' \in [Commands -> BOOLEAN]
    PROVE  JournalInv'
<1>1. record' \in [Commands -> RecordType]
  BY Zenon DEF JournalInv
<1>2. \A d \in Commands : record'[d] = IF d = c THEN rec ELSE record[d]
  BY Zenon DEF JournalInv
<1>3. \A d \in Commands : IsTimeline(record'[d])
  BY <1>2, Zenon DEF JournalInv, TimelineIsPath
<1>4. TimelineIsPath'
  BY <1>3, Zenon DEF TimelineIsPath, IsTimeline
<1> QED BY <1>1, <1>4, Zenon DEF JournalInv

(* And neither creates nor removes a record when it replaces one.          *)
LEMMA ReplaceKeepsJournal ==
    ASSUME JournalInv, NEW c \in Commands, NEW rec \in RecordType, IsTimeline(rec),
           rec.state = None <=> record[c].state = None,
           record' = [record EXCEPT ![c] = rec],
           faults' \in 0..MaxFaults, unrecorded' \in [Commands -> BOOLEAN]
    PROVE  JournalInv' /\ SameRecords
<1>1. JournalInv'
  BY ReplaceKeepsTimelines, Zenon
<1>2. SameRecords
  BY Zenon DEF JournalInv, SameRecords
<1> QED BY <1>1, <1>2, Zenon

(* The same when the write fails, or when there is none.                   *)
LEMMA NoReplaceKeepsJournal ==
    ASSUME JournalInv, record' = record,
           faults' \in 0..MaxFaults, unrecorded' \in [Commands -> BOOLEAN]
    PROVE  JournalInv' /\ SameRecords
BY Zenon DEF JournalInv, SameRecords, TimelineIsPath, IsTimeline

(* recordTransition() keeps the journal sound whether it succeeds or not.  *)
LEMMA RecordTransitionKeepsJournal ==
    ASSUME JournalInv, NEW c \in Commands, NEW to \in States, NEW completed \in BOOLEAN,
           NEW success \in {"yes", "no", None}, RecordTransition(c, to, completed, success)
    PROVE  JournalInv' /\ SameRecords
<1>1. PICK rec : rec = Transition(record[c], to, completed, success)
  BY Zenon
<1>2. record[c] \in RecordType /\ IsTimeline(record[c])
  BY Zenon DEF JournalInv, TimelineIsPath
<1>3. rec \in RecordType /\ IsTimeline(rec) /\ (rec.state = None <=> record[c].state = None)
  BY <1>1, <1>2, TransitionKeepsTimeline
<1>4. CASE record' = [record EXCEPT ![c] = rec] /\ UNCHANGED <<faults, unrecorded>>
  BY <1>3, <1>4, ReplaceKeepsJournal, Zenon DEF JournalInv
<1>5. CASE /\ faults < MaxFaults /\ faults' = faults + 1
           /\ unrecorded' = [unrecorded EXCEPT ![c] = TRUE]
           /\ record' = record
  <2>1. faults' \in 0..MaxFaults /\ unrecorded' \in [Commands -> BOOLEAN]
    BY <1>5, PipelineAssumption DEF JournalInv
  <2> QED BY <1>5, <2>1, NoReplaceKeepsJournal, Zenon
<1> QED BY <1>1, <1>4, <1>5, Zenon DEF RecordTransition, Write

(* The adapter's one or two writes keep the journal sound.                 *)
LEMMA RecordAckKeepsJournal ==
    ASSUME JournalInv, NEW c \in Commands, RecordAck(c)
    PROVE  JournalInv' /\ SameRecords
<1>1. PICK implied : implied = Implied(record[c])
  BY Zenon
<1>2. PICK acked : acked = Transition(implied, "ACKNOWLEDGED", FALSE, None)
  BY Zenon
<1>3. record[c] \in RecordType /\ IsTimeline(record[c])
  BY Zenon DEF JournalInv, TimelineIsPath
<1>4. "DISPATCHED" \in States /\ "ACKNOWLEDGED" \in States
  BY Zenon DEF States
<1>5. implied \in RecordType /\ IsTimeline(implied) /\ (implied.state = None <=> record[c].state = None)
  <2>1. LET rec == Transition(record[c], "DISPATCHED", FALSE, None)
        IN  rec \in RecordType /\ IsTimeline(rec) /\ (rec.state = None <=> record[c].state = None)
    BY <1>3, <1>4, TransitionKeepsTimeline, Zenon
  <2> QED BY <1>1, <1>3, <2>1, Zenon DEF Implied
<1>6. acked \in RecordType /\ IsTimeline(acked) /\ (acked.state = None <=> implied.state = None)
  BY <1>2, <1>4, <1>5, TransitionKeepsTimeline, Zenon
<1>7. CASE record' = [record EXCEPT ![c] = acked] /\ UNCHANGED <<faults, unrecorded>>
  BY <1>5, <1>6, <1>7, ReplaceKeepsJournal, Zenon DEF JournalInv
<1>8. CASE /\ faults < MaxFaults /\ faults' = faults + 1
           /\ unrecorded' = [unrecorded EXCEPT ![c] = TRUE]
           /\ \E rec \in {record[c], implied} : record' = [record EXCEPT ![c] = rec]
  <2>1. PICK rec \in {record[c], implied} : record' = [record EXCEPT ![c] = rec]
    BY <1>8, Zenon
  <2>2. faults' \in 0..MaxFaults /\ unrecorded' \in [Commands -> BOOLEAN]
    BY <1>8, PipelineAssumption DEF JournalInv
  <2>3. rec \in RecordType /\ IsTimeline(rec) /\ (rec.state = None <=> record[c].state = None)
    BY <2>1, <1>3, <1>5, Zenon
  <2> QED BY <2>1, <2>2, <2>3, ReplaceKeepsJournal, Zenon
<1> QED BY <1>1, <1>2, <1>7, <1>8, Zenon DEF RecordAck

(* Reconciling any set of records keeps the journal sound.                 *)
LEMMA ReconcileKeepsJournal ==
    ASSUME JournalInv, NEW stale \in SUBSET Commands, record' = Reconciled(stale),
           faults' \in 0..MaxFaults, unrecorded' = unrecorded
    PROVE  JournalInv' /\ SameRecords
<1>1. \A d \in Commands : record[d] \in RecordType /\ IsTimeline(record[d])
  BY Zenon DEF JournalInv, TimelineIsPath
<1>2. "FAILED" \in States
  BY Zenon DEF States
<1>3. \A d \in Commands :
        LET rec == Transition(record[d], "FAILED", TRUE, "no")
        IN  rec \in RecordType /\ IsTimeline(rec) /\ (rec.state = None <=> record[d].state = None)
  BY <1>1, <1>2, TransitionKeepsTimeline, Zenon
<1>4. \A d \in Commands :
        record'[d] = IF d \in stale THEN Transition(record[d], "FAILED", TRUE, "no") ELSE record[d]
  BY Zenon DEF Reconciled
<1>5. \A d \in Commands :
        record'[d] \in RecordType /\ IsTimeline(record'[d]) /\ (record'[d].state = None <=> record[d].state = None)
  BY <1>1, <1>3, <1>4, Zenon
<1>6. record' \in [Commands -> RecordType]
  BY <1>5, Zenon DEF Reconciled
<1>7. TimelineIsPath'
  BY <1>5, Zenon DEF TimelineIsPath, IsTimeline
<1>8. SameRecords
  BY <1>5, Zenon DEF SameRecords
<1> QED BY <1>6, <1>7, <1>8, Zenon DEF JournalInv

-----------------------------------------------------------------------------
(* The control state, action by action                                     *)

(* The tier of a command is fixed by its request.                          *)
LEMMA TierStays ==
    ASSUME ControlTypes, UNCHANGED input
    PROVE  \A c \in Commands : Tier(c)' = Tier(c) /\ Tier(c) \in Tiers
<1>1. \A c \in Commands : Tier(c)' = Tier(c)
  BY Zenon DEF Tier
<1>2. \A c \in Commands : input[c].requested \in RequestedTiers
  BY PipelineAssumption DEF ControlTypes, InputType
<1>3. \A c \in Commands : Tier(c) \in Tiers
  BY <1>2, Zenon DEF Tier, EffectiveTier, SelectRequiredTier, RequestedTiers, Tiers
<1> QED BY <1>1, <1>3, Zenon

(* The states and outcomes used below are well typed and not NoOutcome.    *)
LEMMA OutcomeFacts ==
    /\ States \cap {None} = {}
    /\ {"DISPATCHED", "ACKNOWLEDGED", "OBSERVED", "FAILED", "TIMED_OUT", "STATE_MISMATCH"} \subseteq States
    /\ \A s \in States, b \in BOOLEAN : Outcome(s, b) \in OutcomeType /\ Outcome(s, b) # NoOutcome
    /\ \A s, b : Outcome(s, b).state = s /\ Outcome(s, b).success = b
    /\ NoOutcome \in OutcomeType /\ NoOutcome.success = FALSE
BY Zenon DEF States, None, Outcome, NoOutcome, OutcomeType

(* ControlInv is CommandInv of every command.                              *)
LEMMA ControlByCommand ==
    /\ ControlInv <=> ControlTypes /\ (~up => restarts < MaxRestarts) /\ \A c \in Commands : CommandInv(c)
    /\ ControlInv' <=> ControlTypes' /\ (~up' => restarts' < MaxRestarts) /\ \A c \in Commands : CommandInv(c)'
<1>1. ControlInv <=> ControlTypes /\ (~up => restarts < MaxRestarts) /\ \A c \in Commands : CommandInv(c)
  BY Zenon DEF ControlInv, CommandInv, SuccessIsProven, DispatchIsAudited, PendingIsAwaited, CallInv
<1>2. ControlInv' <=> ControlTypes' /\ (~up' => restarts' < MaxRestarts) /\ \A c \in Commands : CommandInv(c)'
  BY Zenon DEF ControlInv, CommandInv, SuccessIsProven, DispatchIsAudited, PendingIsAwaited, CallInv
<1> QED BY <1>1, <1>2, Zenon

(* A step of one command leaves the others alone.                          *)
Others(c) ==
    \A d \in Commands : d # c =>
        /\ call'[d] = call[d] /\ pending'[d] = pending[d] /\ resolution'[d] = resolution[d]
        /\ result'[d] = result[d] /\ dispatches'[d] = dispatches[d] /\ evidence'[d] = evidence[d]
        /\ record'[d].state = None <=> record[d].state = None

(* Then only the moving command's invariant has to be shown.               *)
LEMMA OneCommandMoves ==
    ASSUME ControlInv, ControlTypes', UNCHANGED <<input, up, restarts>>,
           NEW c \in Commands, Others(c), CommandInv(c)'
    PROVE  ControlInv'
<1>1. ControlTypes /\ (~up => restarts < MaxRestarts) /\ \A d \in Commands : CommandInv(d)
  BY ControlByCommand, Zenon
<1>2. \A d \in Commands : Tier(d)' = Tier(d) /\ Tier(d) \in Tiers
  BY <1>1, TierStays, Zenon
<1>3. ASSUME NEW d \in Commands, d # c PROVE CommandInv(d)'
  <2>1. CommandInv(d)
    BY <1>1, Zenon
  <2> QED BY <2>1, <1>2, <1>3, SMTT(30) DEF CommandInv, Others
<1>4. \A d \in Commands : CommandInv(d)'
  BY <1>3, Zenon
<1> QED BY <1>1, <1>4, ControlByCommand, Zenon

(* Refused without a record.                                               *)
LEMMA ExecuteRefusedKeepsControl ==
    ASSUME ControlInv, SameRecords, NEW c \in Commands, ExecuteRefused(c)
    PROVE  ControlInv'
<1>1. ControlTypes /\ CommandInv(c)
  BY ControlByCommand, Zenon
<1>2. UNCHANGED <<input, up, restarts>>
  BY Zenon DEF ExecuteRefused
<1>3. Tier(c)' = Tier(c) /\ Tier(c) \in Tiers
  BY <1>1, <1>2, TierStays, Zenon
<1>4. ControlTypes'
  BY <1>1, OutcomeFacts, Zenon DEF ControlTypes, ExecuteRefused, Return, NoWrite
<1>5. Others(c)
  BY <1>1, Zenon DEF ControlTypes, Others, SameRecords, ExecuteRefused, Return, NoWrite
<1>6. CommandInv(c)'
  BY <1>1, <1>2, <1>3, OutcomeFacts DEF ControlTypes, CommandInv, CompletionState, Tiers, Outcome, SameRecords, ExecuteRefused, Return, NoWrite
<1> QED BY <1>2, <1>4, <1>5, <1>6, OneCommandMoves, Zenon

(* Refused because the record could not be created.                        *)
LEMMA ExecuteUnrecordableKeepsControl ==
    ASSUME ControlInv, SameRecords, NEW c \in Commands, ExecuteUnrecordable(c)
    PROVE  ControlInv'
<1>1. ControlTypes /\ CommandInv(c)
  BY ControlByCommand
<1>2. UNCHANGED <<input, up, restarts>>
  BY Zenon DEF ExecuteUnrecordable
<1>3. Tier(c)' = Tier(c) /\ Tier(c) \in Tiers
  BY <1>1, <1>2, TierStays
<1>4. ControlTypes'
  BY <1>1, OutcomeFacts, Zenon DEF ControlTypes, ExecuteUnrecordable, Return
<1>5. Others(c)
  BY <1>1, Zenon DEF ControlTypes, Others, SameRecords, ExecuteUnrecordable, Return
<1>6. CommandInv(c)'
  BY <1>1, <1>2, <1>3, OutcomeFacts, Zenon DEF ControlTypes, CommandInv, CompletionState, Tiers, Outcome, SameRecords, ExecuteUnrecordable, Return
<1> QED BY <1>2, <1>4, <1>5, <1>6, OneCommandMoves

(* Refused with a record, because nothing could confirm it.                *)
LEMMA ExecuteUnobservableKeepsControl ==
    ASSUME ControlInv, record \in [Commands -> RecordType], record' \in [Commands -> RecordType], NEW c \in Commands, ExecuteUnobservable(c)
    PROVE  ControlInv'
<1>1. ControlTypes /\ CommandInv(c)
  BY ControlByCommand, Zenon
<1>2. UNCHANGED <<input, up, restarts>>
  BY Zenon DEF ExecuteUnobservable
<1>3. Tier(c)' = Tier(c) /\ Tier(c) \in Tiers
  BY <1>1, <1>2, TierStays, Zenon
<1>4. ControlTypes'
  BY <1>1, OutcomeFacts, Zenon DEF ControlTypes, ExecuteUnobservable, Return
<1>5. Others(c)
  <2>1. \E r : record' = [record EXCEPT ![c] = r]
    BY Zenon DEF ExecuteUnobservable
  <2>2. \A d \in Commands : d # c => record'[d] = record[d]
    BY <2>1, Zenon
  <2>3. \A d \in Commands : d # c => call'[d] = call[d] /\ result'[d] = result[d]
    BY <1>1, Zenon DEF ControlTypes, ExecuteUnobservable, Return
  <2>4. UNCHANGED <<pending, resolution, dispatches, evidence>>
    BY Zenon DEF ExecuteUnobservable
  <2> QED BY <2>2, <2>3, <2>4, Zenon DEF Others
<1>6. CommandInv(c)'
  BY <1>1, <1>2, <1>3, OutcomeFacts DEF ControlTypes, CommandInv, CompletionState, Tiers, Outcome, ExecuteUnobservable, Return, NoRecord, NewRecord
<1> QED BY <1>2, <1>4, <1>5, <1>6, OneCommandMoves, Zenon

(* The record comes before the dispatch, and the entry before the handler. *)
LEMMA ExecuteDispatchKeepsControl ==
    ASSUME ControlInv, record \in [Commands -> RecordType], record' \in [Commands -> RecordType], NEW c \in Commands, ExecuteDispatch(c)
    PROVE  ControlInv'
<1>1. ControlTypes /\ CommandInv(c)
  BY ControlByCommand
<1>2. UNCHANGED <<input, up, restarts>>
  BY Zenon DEF ExecuteDispatch
<1>3. Tier(c)' = Tier(c) /\ Tier(c) \in Tiers
  BY <1>1, <1>2, TierStays
<1>4. ControlTypes'
  BY <1>1, OutcomeFacts DEF ControlTypes, ExecuteDispatch, Created
<1>5. Others(c)
  BY <1>1, Zenon DEF ControlTypes, Others, ExecuteDispatch, Created
<1>7. "DISPATCHED" # None
  BY Zenon DEF None
<1>8. input[c].physical => record'[c].state # None
  BY CreatedIsTimeline, Zenon DEF ExecuteDispatch, Created
<1>6. CommandInv(c)'
  BY <1>1, <1>2, <1>3, <1>7, <1>8 DEF ControlTypes, CommandInv, CompletionState, Tiers, ExecuteDispatch
<1> QED BY <1>2, <1>4, <1>5, <1>6, OneCommandMoves

(* The handler failed: the entry is cancelled.                             *)
LEMMA HandlerFailsKeepsControl ==
    ASSUME ControlInv, SameRecords, NEW c \in Commands, HandlerFails(c)
    PROVE  ControlInv'
<1>1. ControlTypes /\ CommandInv(c)
  BY ControlByCommand
<1>2. UNCHANGED <<input, up, restarts>>
  BY Zenon DEF HandlerFails
<1>3. Tier(c)' = Tier(c) /\ Tier(c) \in Tiers
  BY <1>1, <1>2, TierStays
<1>4. ControlTypes'
  BY <1>1, OutcomeFacts, Zenon DEF ControlTypes, HandlerFails, Return
<1>5. Others(c)
  BY <1>1, Zenon DEF ControlTypes, Others, SameRecords, HandlerFails, Return
<1>6. CommandInv(c)'
  BY <1>1, <1>2, <1>3, OutcomeFacts DEF ControlTypes, CommandInv, CompletionState, Tiers, Outcome, SameRecords, HandlerFails, Return
<1> QED BY <1>2, <1>4, <1>5, <1>6, OneCommandMoves

(* Dispatch tier: the handler's success is the evidence.                   *)
LEMMA HandlerCompletesKeepsControl ==
    ASSUME ControlInv, SameRecords, NEW c \in Commands, HandlerCompletes(c)
    PROVE  ControlInv'
<1>1. ControlTypes /\ CommandInv(c)
  BY ControlByCommand, Zenon
<1>2. UNCHANGED <<input, up, restarts>>
  BY Zenon DEF HandlerCompletes
<1>3. Tier(c)' = Tier(c) /\ Tier(c) \in Tiers
  BY <1>1, <1>2, TierStays, Zenon
<1>4. ControlTypes'
  BY <1>1, OutcomeFacts, Zenon DEF ControlTypes, HandlerCompletes, Return
<1>5. Others(c)
  BY <1>1, Zenon DEF ControlTypes, Others, SameRecords, HandlerCompletes, Return
<1>6. CommandInv(c)'
  BY <1>1, <1>2, <1>3, OutcomeFacts DEF ControlTypes, CommandInv, CompletionState, Tiers, Outcome, SameRecords, HandlerCompletes, Return
<1> QED BY <1>2, <1>4, <1>5, <1>6, OneCommandMoves, Zenon

(* Tracked: an entry or a resolution is there to wait for.                 *)
LEMMA HandlerHandsOverKeepsControl ==
    ASSUME ControlInv, SameRecords, NEW c \in Commands, HandlerHandsOver(c)
    PROVE  ControlInv'
<1>1. ControlTypes /\ CommandInv(c)
  BY ControlByCommand
<1>2. UNCHANGED <<input, up, restarts>>
  BY Zenon DEF HandlerHandsOver
<1>3. Tier(c)' = Tier(c) /\ Tier(c) \in Tiers
  BY <1>1, <1>2, TierStays
<1>4. ControlTypes'
  BY <1>1, OutcomeFacts, Zenon DEF ControlTypes, HandlerHandsOver
<1>5. Others(c)
  BY <1>1, Zenon DEF ControlTypes, Others, SameRecords, HandlerHandsOver
<1>6. CommandInv(c)'
  BY <1>1, <1>2, <1>3, OutcomeFacts DEF ControlTypes, CommandInv, CompletionState, Tiers, Outcome, SameRecords, HandlerHandsOver
<1> QED BY <1>2, <1>4, <1>5, <1>6, OneCommandMoves

(* The resolution, with its evidence, becomes the result.                  *)
LEMMA CompleteKeepsControl ==
    ASSUME ControlInv, SameRecords, NEW c \in Commands, Complete(c)
    PROVE  ControlInv'
<1>1. ControlTypes /\ CommandInv(c)
  BY ControlByCommand
<1>2. UNCHANGED <<input, up, restarts>>
  BY Zenon DEF Complete
<1>3. Tier(c)' = Tier(c) /\ Tier(c) \in Tiers
  BY <1>1, <1>2, TierStays
<1>7. Outcome(resolution[c].state, resolution[c].success) = resolution[c]
  BY <1>1, Zenon DEF ControlTypes, Outcome, OutcomeType
<1>4. ControlTypes'
  BY <1>1, <1>7, Zenon DEF ControlTypes, Complete, Return
<1>5. Others(c)
  BY <1>1, Zenon DEF ControlTypes, Others, SameRecords, Complete, Return
<1>6. CommandInv(c)'
  BY <1>1, <1>2, <1>3, <1>7, Zenon DEF ControlTypes, CommandInv, Tiers, SameRecords, Complete, Return
<1> QED BY <1>2, <1>4, <1>5, <1>6, OneCommandMoves

(* The window closes: a failure.                                           *)
LEMMA TimeoutKeepsControl ==
    ASSUME ControlInv, SameRecords, NEW c \in Commands, Timeout(c)
    PROVE  ControlInv'
<1>1. ControlTypes /\ CommandInv(c)
  BY ControlByCommand
<1>2. UNCHANGED <<input, up, restarts>>
  BY Zenon DEF Timeout
<1>3. Tier(c)' = Tier(c) /\ Tier(c) \in Tiers
  BY <1>1, <1>2, TierStays
<1>4. ControlTypes'
  BY <1>1, OutcomeFacts, Zenon DEF ControlTypes, Timeout, Finalize
<1>5. Others(c)
  BY <1>1, Zenon DEF ControlTypes, Others, SameRecords, Timeout, Finalize
<1>6. CommandInv(c)'
  <2>1. /\ pending'[c] = None /\ resolution'[c] = Outcome("TIMED_OUT", FALSE)
        /\ UNCHANGED <<call, result, dispatches, evidence>>
        /\ pending[c] # None
    BY <1>1, Zenon DEF ControlTypes, Timeout, Finalize
  <2>2. resolution'[c] # NoOutcome /\ resolution'[c].success = FALSE
    BY <2>1, SMTT(30) DEF Outcome, NoOutcome, None
  <2> QED BY <1>1, <1>2, <1>3, <2>1, <2>2, Zenon DEF CommandInv, SameRecords
<1> QED BY <1>2, <1>4, <1>5, <1>6, OneCommandMoves

(* The device rejects: a failure.                                          *)
LEMMA RouteRejectionKeepsControl ==
    ASSUME ControlInv, SameRecords, NEW c \in Commands, RouteRejection(c)
    PROVE  ControlInv'
<1>1. ControlTypes /\ CommandInv(c)
  BY ControlByCommand
<1>2. UNCHANGED <<input, up, restarts>>
  BY Zenon DEF RouteRejection
<1>3. Tier(c)' = Tier(c) /\ Tier(c) \in Tiers
  BY <1>1, <1>2, TierStays
<1>4. ControlTypes'
  BY <1>1, OutcomeFacts, Zenon DEF ControlTypes, RouteRejection, Finalize, CanReply
<1>5. Others(c)
  BY <1>1, Zenon DEF ControlTypes, Others, SameRecords, RouteRejection, Finalize, CanReply
<1>6. CommandInv(c)'
  <2>1. /\ pending'[c] = None /\ resolution'[c] = Outcome("FAILED", FALSE)
        /\ pending[c] # None /\ UNCHANGED <<call, result, dispatches, evidence>>
    BY <1>1, Zenon DEF ControlTypes, RouteRejection, Finalize, CanReply
  <2>2. resolution'[c] # NoOutcome /\ resolution'[c].success = FALSE
    BY <2>1, SMTT(30) DEF Outcome, NoOutcome, None
  <2> QED BY <1>1, <1>2, <1>3, <2>1, <2>2, Zenon DEF CommandInv, SameRecords
<1> QED BY <1>2, <1>4, <1>5, <1>6, OneCommandMoves

(* Acknowledged tier: the acknowledgement is the evidence.                 *)
LEMMA RouteAckCompletesKeepsControl ==
    ASSUME ControlInv, SameRecords, NEW c \in Commands, RouteAckCompletes(c)
    PROVE  ControlInv'
<1>1. ControlTypes /\ CommandInv(c)
  BY ControlByCommand
<1>2. UNCHANGED <<input, up, restarts>>
  BY Zenon DEF RouteAckCompletes
<1>3. Tier(c)' = Tier(c) /\ Tier(c) \in Tiers
  BY <1>1, <1>2, TierStays
<1>4. ControlTypes'
  BY <1>1, OutcomeFacts, Zenon DEF ControlTypes, RouteAckCompletes, Finalize, CanReply
<1>5. Others(c)
  BY <1>1, Zenon DEF ControlTypes, Others, SameRecords, RouteAckCompletes, Finalize, CanReply
<1>6. CommandInv(c)'
  BY <1>1, <1>2, <1>3, OutcomeFacts DEF ControlTypes, CommandInv, CompletionState, Tiers, Outcome, SameRecords, RouteAckCompletes, Finalize, CanReply
<1> QED BY <1>2, <1>4, <1>5, <1>6, OneCommandMoves

(* What an observation resolves to, and that success needs a match.        *)
LEMMA ObservationFacts ==
    \A v \in Verdicts :
        /\ ObservationOutcome(v) \in OutcomeType /\ ObservationOutcome(v) # NoOutcome
        /\ Outcome(ObservationOutcome(v).state, ObservationOutcome(v).success) = ObservationOutcome(v)
        /\ ObservationOutcome(v).success => ObservationOutcome(v).state = "OBSERVED" /\ v = "satisfied"
BY Zenon DEF Verdicts, ObservationOutcome, Outcome, OutcomeType, NoOutcome, None, States

(* Observed tier: a reply is a milestone, a settled state, or both.        *)
LEMMA RouteReplyKeepsControl ==
    ASSUME ControlInv, SameRecords, NEW c \in Commands, RouteReply(c)
    PROVE  ControlInv'
<1>1. ControlTypes /\ CommandInv(c)
  BY ControlByCommand
<1>2. UNCHANGED <<input, up, restarts, call, result, dispatches>> /\ CanReply(c) /\ Tier(c) = "observed"
  BY Zenon DEF RouteReply
<1>3. Tier(c)' = Tier(c) /\ Tier(c) \in Tiers
  BY <1>1, <1>2, TierStays, Zenon
<1>4. PICK seen \in SUBSET {"ack", "state"}, verdict \in Verdicts \cup {None}, stage \in {pending[c], "ACKNOWLEDGED"} :
        /\ evidence' = [evidence EXCEPT ![c] = @ \cup seen]
        /\ verdict = "satisfied" => "state" \in seen
        /\ IF verdict = None
           THEN pending' = [pending EXCEPT ![c] = stage] /\ UNCHANGED resolution
           ELSE Finalize(c, ObservationOutcome(verdict).state, ObservationOutcome(verdict).success)
  <2>1. PICK acknowledges \in BOOLEAN, verdict \in Verdicts \cup {None} :
          /\ evidence' = [evidence EXCEPT ![c] =
                  @ \cup (IF acknowledges THEN {"ack"} ELSE {}) \cup Observed(c, verdict)]
          /\ IF verdict = None
             THEN /\ pending' = [pending EXCEPT ![c] =
                        IF acknowledges /\ CanTransition(pending[c], "ACKNOWLEDGED") THEN "ACKNOWLEDGED" ELSE @]
                  /\ UNCHANGED resolution
             ELSE Finalize(c, ObservationOutcome(verdict).state, ObservationOutcome(verdict).success)
    BY Zenon DEF RouteReply
  <2>2. PICK seen : seen = (IF acknowledges THEN {"ack"} ELSE {}) \cup Observed(c, verdict)
    BY Zenon
  <2>3. seen \in SUBSET {"ack", "state"} /\ (verdict = "satisfied" => "state" \in seen)
    BY <2>2, Zenon DEF Observed
  <2>4. evidence' = [evidence EXCEPT ![c] = @ \cup seen]
    <3>1. evidence[c] \cup (IF acknowledges THEN {"ack"} ELSE {}) \cup Observed(c, verdict) = evidence[c] \cup seen
      BY <2>2, Zenon
    <3> QED BY <2>1, <3>1, Zenon
  <2>5. PICK stage \in {pending[c], "ACKNOWLEDGED"} :
          stage = IF acknowledges /\ CanTransition(pending[c], "ACKNOWLEDGED") THEN "ACKNOWLEDGED" ELSE pending[c]
    BY Zenon
  <2> QED BY <2>1, <2>3, <2>4, <2>5, Zenon
<1>5. pending[c] # None /\ "ACKNOWLEDGED" # None /\ up
  BY <1>2, Zenon DEF CanReply, None
<1>6. evidence'[c] = evidence[c] \cup seen /\ evidence' \in [Commands -> SUBSET {"handler", "ack", "state"}]
  BY <1>1, <1>4, Zenon DEF ControlTypes
<1>7. CASE verdict = None
  <2>1. ControlTypes'
    BY <1>1, <1>2, <1>4, <1>6, <1>7, SMTT(30) DEF ControlTypes
  <2>2. Others(c)
    BY <1>1, <1>2, <1>4, <1>7, Zenon DEF ControlTypes, Others, SameRecords
  <2>3. pending'[c] # None /\ resolution' = resolution
    BY <1>1, <1>4, <1>5, <1>7, Zenon DEF ControlTypes
  <2>4. resolution[c] = NoOutcome /\ call[c] \in {"dispatching", "waiting"} /\ ~NoOutcome.success
    BY <1>1, <1>5, OutcomeFacts, Zenon DEF CommandInv
  <2>5. /\ resolution'[c] = NoOutcome /\ call'[c] = call[c] /\ evidence[c] \subseteq evidence'[c]
        /\ up' /\ result'[c] = result[c] /\ dispatches'[c] = dispatches[c] /\ input'[c] = input[c]
        /\ record'[c].state = None <=> record[c].state = None
    BY <1>2, <1>5, <1>6, <2>3, <2>4, Zenon DEF SameRecords
  <2>6. CommandInv(c)'
    BY <1>1, <1>2, <1>3, <2>3, <2>4, <2>5, Zenon DEF CommandInv
  <2> QED BY <1>2, <2>1, <2>2, <2>6, OneCommandMoves, Zenon
<1>8. CASE verdict # None
  <2>1. verdict \in Verdicts
    BY <1>4, <1>8, Zenon
  <2>2. /\ pending' = [pending EXCEPT ![c] = None]
        /\ resolution' = [resolution EXCEPT ![c] = ObservationOutcome(verdict)]
    BY <1>4, <1>8, <2>1, ObservationFacts, Zenon DEF Finalize
  <2>3. ControlTypes'
    BY <1>1, <1>2, <1>6, <2>1, <2>2, ObservationFacts, Zenon DEF ControlTypes
  <2>4. Others(c)
    BY <1>1, <1>2, <1>4, <2>2, Zenon DEF ControlTypes, Others, SameRecords
  <2>5. resolution'[c] = ObservationOutcome(verdict) /\ pending'[c] = None
    BY <1>1, <2>2, Zenon DEF ControlTypes
  <2>6. resolution'[c].success => resolution'[c].state = "OBSERVED" /\ "state" \in evidence'[c]
    BY <2>1, <2>5, <1>4, <1>6, ObservationFacts, SMTT(30)
  <2>7. CommandInv(c)'
    BY <1>1, <1>2, <1>3, <1>5, <1>6, <2>1, <2>5, <2>6, ObservationFacts DEF CommandInv, CompletionState, SameRecords
  <2> QED BY <1>2, <2>3, <2>4, <2>7, OneCommandMoves
<1> QED BY <1>7, <1>8, Zenon

(* Telemetry resolves any number of commands at once.                      *)
LEMMA ObserveStateKeepsControl ==
    ASSUME ControlInv, SameRecords, NEW d \in Devices, ObserveState(d)
    PROVE  ControlInv'
<1>1. ControlTypes /\ (~up => restarts < MaxRestarts) /\ \A c \in Commands : CommandInv(c)
  BY ControlByCommand, Zenon
<1>2. UNCHANGED <<input, up, restarts, call, result, dispatches>>
  BY Zenon DEF ObserveState
<1>3. \A c \in Commands : Tier(c)' = Tier(c) /\ Tier(c) \in Tiers
  BY <1>1, <1>2, TierStays, Zenon
<1>4. PICK verdict \in [Watching(d) -> Verdicts], settled \in SUBSET Watching(d) :
        /\ pending' = [c \in Commands |-> IF c \in settled THEN None ELSE pending[c]]
        /\ resolution' = [c \in Commands |->
                IF c \in settled THEN ObservationOutcome(verdict[c]) ELSE resolution[c]]
        /\ evidence' = [c \in Commands |->
                IF c \in settled THEN evidence[c] \cup Observed(c, verdict[c]) ELSE evidence[c]]
  <2>1. PICK verdict \in [Watching(d) -> Verdicts] :
          LET settled == {c \in Watching(d) : verdict[c] # "unsatisfied"}
          IN  /\ pending' = [c \in Commands |-> IF c \in settled THEN None ELSE pending[c]]
              /\ resolution' = [c \in Commands |->
                      IF c \in settled THEN ObservationOutcome(verdict[c]) ELSE resolution[c]]
              /\ evidence' = [c \in Commands |->
                      IF c \in settled THEN evidence[c] \cup Observed(c, verdict[c]) ELSE evidence[c]]
    BY Zenon DEF ObserveState
  <2>2. PICK settled \in SUBSET Watching(d) : settled = {c \in Watching(d) : verdict[c] # "unsatisfied"}
    BY Zenon
  <2> QED BY <2>1, <2>2, Zenon
<1>5. \A c \in settled :
        /\ c \in Commands /\ pending[c] # None /\ Tier(c) = "observed" /\ verdict[c] \in Verdicts
        /\ Observed(c, verdict[c]) \subseteq {"state"}
        /\ verdict[c] = "satisfied" => "state" \in Observed(c, verdict[c])
  BY <1>4, Zenon DEF Watching, Observed
<1>6. ControlTypes'
  <2>1. pending' \in [Commands -> {None, "DISPATCHED", "ACKNOWLEDGED"}]
    BY <1>1, <1>4, Zenon DEF ControlTypes
  <2>2. resolution' \in [Commands -> OutcomeType]
    BY <1>1, <1>4, <1>5, ObservationFacts, Zenon DEF ControlTypes
  <2>3. evidence' \in [Commands -> SUBSET {"handler", "ack", "state"}]
    BY <1>1, <1>4, <1>5, Zenon DEF ControlTypes
  <2> QED BY <1>1, <1>2, <2>1, <2>2, <2>3, Zenon DEF ControlTypes
<1>7. ASSUME NEW c \in Commands PROVE CommandInv(c)'
  <2>1. CommandInv(c)
    BY <1>1, Zenon
  <2>2. CASE c \notin settled
    <3>1. pending'[c] = pending[c] /\ resolution'[c] = resolution[c] /\ evidence'[c] = evidence[c]
      BY <1>4, <2>2, Zenon
    <3> QED BY <1>2, <1>3, <2>1, <3>1, Zenon DEF CommandInv, SameRecords
  <2>3. CASE c \in settled
    <3>1. /\ pending'[c] = None /\ resolution'[c] = ObservationOutcome(verdict[c])
          /\ evidence[c] \subseteq evidence'[c]
          /\ verdict[c] = "satisfied" => "state" \in evidence'[c]
      BY <1>4, <1>5, <2>3, Zenon
    <3>2. /\ resolution'[c] # NoOutcome
          /\ resolution'[c].success => resolution'[c].state = "OBSERVED" /\ "state" \in evidence'[c]
      BY <1>5, <2>3, <3>1, ObservationFacts, Zenon
    <3>3. pending[c] # None /\ Tier(c) = "observed"
      BY <1>5, <2>3, Zenon
    <3> QED BY <1>2, <1>3, <2>1, <3>1, <3>2, <3>3, Zenon DEF CommandInv, CompletionState, SameRecords
  <2> QED BY <2>2, <2>3, Zenon
<1> QED BY <1>1, <1>2, <1>6, <1>7, ControlByCommand, Zenon

(* A stop ends every call in flight; its entries are gone.                 *)
LEMMA CrashKeepsControl ==
    ASSUME ControlInv, SameRecords, Crash
    PROVE  ControlInv'
<1>1. ControlTypes /\ (~up => restarts < MaxRestarts) /\ \A c \in Commands : CommandInv(c)
  BY ControlByCommand, Zenon
<1>2. UNCHANGED <<input, restarts, result, dispatches, evidence>> /\ restarts < MaxRestarts
  BY Zenon DEF Crash
<1>3. \A c \in Commands : Tier(c)' = Tier(c) /\ Tier(c) \in Tiers
  BY <1>1, <1>2, TierStays, Zenon
<1>4. ControlTypes'
  BY <1>1, OutcomeFacts, Zenon DEF ControlTypes, Crash
<1>5. ASSUME NEW c \in Commands PROVE CommandInv(c)'
  <2>1. CommandInv(c)
    BY <1>1, Zenon
  <2>2. /\ call'[c] = IF call[c] \in {"dispatching", "waiting"} THEN "lost" ELSE call[c]
        /\ pending'[c] = None /\ resolution'[c] = NoOutcome
    BY Zenon DEF Crash
  <2>3. NoOutcome.success = FALSE
    BY OutcomeFacts, Zenon
  <2> QED BY <1>2, <1>3, <2>1, <2>2, <2>3, Zenon DEF CommandInv, SameRecords
<1> QED BY <1>2, <1>4, <1>5, ControlByCommand, Zenon

(* A restart, complete or not, touches the journal only.                   *)
LEMMA RestartKeepsControl ==
    ASSUME ControlInv, SameRecords, Restart \/ RestartFails
    PROVE  ControlInv'
<1>1. ControlTypes /\ (~up => restarts < MaxRestarts) /\ \A c \in Commands : CommandInv(c)
  BY ControlByCommand, Zenon
<1>2. ~up /\ UNCHANGED <<input, call, pending, resolution, result, dispatches, evidence>>
  BY Zenon DEF Restart, RestartFails
<1>3. \A c \in Commands : Tier(c)' = Tier(c) /\ Tier(c) \in Tiers
  BY <1>1, <1>2, TierStays, Zenon
<1>4. ControlTypes' /\ (~up' => restarts' < MaxRestarts)
  <2>1. up' \in BOOLEAN /\ restarts' \in 0..MaxRestarts /\ (~up' => restarts' < MaxRestarts)
    <3>1. restarts \in Nat /\ MaxRestarts \in Nat /\ restarts < MaxRestarts
      BY <1>1, <1>2, PipelineAssumption DEF ControlTypes
    <3>2. CASE up' = TRUE /\ restarts' = restarts + 1
      BY <3>1, <3>2
    <3>3. CASE up' = up /\ restarts' = restarts
      BY <1>1, <3>1, <3>3, Zenon DEF ControlTypes
    <3> QED BY <3>2, <3>3, Zenon DEF Restart, RestartFails
  <2> QED BY <1>1, <1>2, <2>1, Zenon DEF ControlTypes
<1>5. ASSUME NEW c \in Commands PROVE CommandInv(c)'
  <2>1. CommandInv(c)
    BY <1>1, Zenon
  <2> QED BY <1>2, <1>3, <2>1, Zenon DEF CommandInv, SameRecords
<1> QED BY <1>4, <1>5, ControlByCommand, Zenon

-----------------------------------------------------------------------------
(* Every step keeps the journal                                            *)

(* Refusing an unobservable command creates its record and closes it.      *)
LEMMA ExecuteUnobservableKeepsJournal ==
    ASSUME JournalInv, NEW c \in Commands, ExecuteUnobservable(c)
    PROVE  JournalInv'
<1>1. Created(c) \in RecordType /\ IsTimeline(Created(c)) /\ "FAILED" \in States
  BY CreatedIsTimeline, Zenon DEF Created, States
<1>2. PICK rec : rec = Transition(Created(c), "FAILED", TRUE, "no")
  BY Zenon
<1>3. rec \in RecordType /\ IsTimeline(rec)
  BY <1>1, <1>2, TransitionKeepsTimeline, Zenon
<1>4. PICK new \in {rec, Created(c)} :
        /\ record' = [record EXCEPT ![c] = new]
        /\ faults' \in 0..MaxFaults
        /\ unrecorded' \in [Commands -> BOOLEAN]
  <2>1. CASE record' = [record EXCEPT ![c] = rec] /\ UNCHANGED <<faults, unrecorded>>
    BY <2>1, Zenon DEF JournalInv
  <2>2. CASE /\ faults < MaxFaults /\ record' = [record EXCEPT ![c] = Created(c)]
             /\ faults' = faults + 1 /\ unrecorded' = [unrecorded EXCEPT ![c] = TRUE]
    <3>1. faults' \in 0..MaxFaults /\ unrecorded' \in [Commands -> BOOLEAN]
      BY <2>2, PipelineAssumption DEF JournalInv
    <3> QED BY <2>2, <3>1, Zenon
  <2> QED BY <1>2, <2>1, <2>2, Zenon DEF ExecuteUnobservable
<1>5. new \in RecordType /\ IsTimeline(new)
  BY <1>1, <1>3, <1>4, Zenon
<1> QED BY <1>4, <1>5, ReplaceKeepsTimelines, Zenon

(* execute() starts the record's timeline.                                 *)
LEMMA ExecuteDispatchKeepsJournal ==
    ASSUME JournalInv, NEW c \in Commands, ExecuteDispatch(c)
    PROVE  JournalInv'
<1>1. Created(c) \in RecordType /\ IsTimeline(Created(c))
  BY CreatedIsTimeline, Zenon DEF Created
<1>2. PICK new : new = Created(c) /\ record' = [record EXCEPT ![c] = new]
  BY Zenon DEF ExecuteDispatch
<1> QED BY <1>1, <1>2, ReplaceKeepsTimelines, Zenon DEF ExecuteDispatch, JournalInv

(* Every other step keeps the journal and the set of its records.          *)
LEMMA StepKeepsJournal ==
    ASSUME JournalInv, ControlTypes, Next
    PROVE  \/ JournalInv' /\ SameRecords
           \/ JournalInv' /\ \E c \in Commands : ExecuteUnobservable(c) \/ ExecuteDispatch(c)
<1> USE OutcomeFacts
<1>1. NoWrite => JournalInv' /\ SameRecords
  BY NoReplaceKeepsJournal, Zenon DEF NoWrite, JournalInv
<1>2. ASSUME NEW c \in Commands, Execute(c) \/ Handler(c) \/ Complete(c) \/ Timeout(c) \/ Route(c)
      PROVE  \/ JournalInv' /\ SameRecords
             \/ JournalInv' /\ (ExecuteUnobservable(c) \/ ExecuteDispatch(c))
  <2>1. CASE ExecuteRefused(c) \/ Timeout(c) \/ RouteRejection(c) \/ RouteAckCompletes(c)
    BY <1>1, <2>1, Zenon DEF ExecuteRefused, Timeout, RouteRejection, RouteAckCompletes
  <2>2. CASE ExecuteUnrecordable(c)
    <3>1. record' = record /\ faults' \in 0..MaxFaults /\ unrecorded' \in [Commands -> BOOLEAN]
      BY <2>2, PipelineAssumption, SMTT(30) DEF ExecuteUnrecordable, JournalInv
    <3> QED BY <3>1, NoReplaceKeepsJournal, Zenon
  <2>3. CASE ExecuteUnobservable(c)
    BY <2>3, ExecuteUnobservableKeepsJournal, Zenon
  <2>4. CASE ExecuteDispatch(c)
    BY <2>4, ExecuteDispatchKeepsJournal, Zenon
  <2>5. CASE HandlerFails(c)
    BY <2>5, RecordTransitionKeepsJournal, Zenon DEF HandlerFails
  <2>6. CASE HandlerCompletes(c)
    BY <2>6, RecordTransitionKeepsJournal, Zenon DEF HandlerCompletes
  <2>7. CASE HandlerHandsOver(c)
    BY <2>7, RecordTransitionKeepsJournal, Zenon DEF HandlerHandsOver
  <2>8. CASE Complete(c)
    <3>1. PICK to, success :
            /\ to = resolution[c].state
            /\ success = IF resolution[c].success THEN "yes" ELSE "no"
            /\ RecordTransition(c, to, TRUE, success)
      BY <2>8, Zenon DEF Complete
    <3>2. to \in States \/ to = None
      BY <3>1, SMTT(30) DEF ControlTypes, OutcomeType
    <3>3. CASE to \in States
      BY <3>1, <3>3, RecordTransitionKeepsJournal, Zenon
    <3>4. CASE to = None
      <4>1. CanTransition(record[c].state, None) => record[c].state \notin States
        BY TableType, Zenon DEF CanTransition
      <4>2. record[c].state \in States \cup {None}
        BY Zenon DEF JournalInv, RecordType
      <4>3. Transition(record[c], None, TRUE, success) = record[c]
        BY <4>1, <4>2, Zenon DEF Transition
      <4>4. [record EXCEPT ![c] = record[c]] = record
        BY Zenon DEF JournalInv
      <4>5. record' = record /\ faults' = faults /\ unrecorded' = unrecorded
        BY <3>1, <3>4, <4>3, <4>4, Zenon DEF RecordTransition, Write
      <4> QED BY <4>5, NoReplaceKeepsJournal, Zenon DEF JournalInv
    <3> QED BY <3>2, <3>3, <3>4, Zenon
  <2>9. CASE RouteReply(c)
    <3>1. NoWrite \/ RecordAck(c)
      BY <2>9, Zenon DEF RouteReply
    <3> QED BY <1>1, <3>1, RecordAckKeepsJournal, Zenon
  <2> QED BY <1>2, <2>1, <2>2, <2>3, <2>4, <2>5, <2>6, <2>7, <2>8, <2>9, Zenon DEF Execute, Handler, Route
<1>3. ASSUME NEW d \in Devices, ObserveState(d) PROVE JournalInv' /\ SameRecords
  BY <1>1, <1>3, Zenon DEF ObserveState
<1>4. CASE Crash
  BY <1>1, <1>4, Zenon DEF Crash
<1>5. CASE Restart
  <2>1. Stale \in SUBSET Commands /\ record' = Reconciled(Stale)
    BY <1>5, Zenon DEF Restart, Stale
  <2> QED BY <1>5, <2>1, ReconcileKeepsJournal, Zenon DEF Restart, JournalInv
<1>6. CASE RestartFails
  <2>1. PICK done \in SUBSET Stale : record' = Reconciled(done)
    BY <1>6, Zenon DEF RestartFails
  <2>2. done \in SUBSET Commands /\ faults' \in 0..MaxFaults /\ unrecorded' = unrecorded
    BY <1>6, <2>1, PipelineAssumption, SMTT(30) DEF RestartFails, Stale, JournalInv
  <2> QED BY <2>1, <2>2, ReconcileKeepsJournal, Zenon
<1> QED BY <1>2, <1>3, <1>4, <1>5, <1>6, Zenon DEF Next

-----------------------------------------------------------------------------
(* PipelineInv is its two halves.                                          *)
LEMMA InvHalves ==
    /\ PipelineInv <=> JournalInv /\ ControlInv
    /\ PipelineInv' <=> JournalInv' /\ ControlInv'
BY Zenon DEF PipelineInv, JournalInv, ControlInv, ControlTypes, TypeOK

(* It holds before any command.                                            *)
LEMMA InitInv == Init => PipelineInv
<1> SUFFICES ASSUME Init PROVE PipelineInv
  BY Zenon
<1>1. JournalInv
  BY CreatedIsTimeline, PipelineAssumption, SMTT(30) DEF Init, JournalInv, TimelineIsPath
<1>2. ControlTypes /\ (~up => restarts < MaxRestarts)
  BY OutcomeFacts, PipelineAssumption, SMTT(30) DEF Init, ControlTypes
<1>3. ASSUME NEW c \in Commands PROVE CommandInv(c)
  BY OutcomeFacts, SMTT(30) DEF Init, CommandInv, NoRecord
<1> QED BY <1>1, <1>2, <1>3, ControlByCommand, InvHalves, Zenon

(* And every step keeps it.                                                *)
LEMMA NextKeepsInv == PipelineInv /\ [Next]_vars => PipelineInv'
<1> SUFFICES ASSUME PipelineInv, [Next]_vars PROVE PipelineInv'
  BY Zenon
<1>1. JournalInv /\ ControlInv /\ ControlTypes
  BY InvHalves, Zenon DEF ControlInv
<1>2. CASE UNCHANGED vars
  <2>1. JournalInv'
    BY <1>1, <1>2, NoReplaceKeepsJournal, Zenon DEF vars, JournalInv
  <2>2. \A c \in Commands : Tier(c)' = Tier(c)
    BY <1>1, <1>2, TierStays, Zenon DEF vars
  <2>3. ControlInv'
    <3>1. ControlTypes /\ (~up => restarts < MaxRestarts) /\ \A c \in Commands : CommandInv(c)
      BY <1>1, ControlByCommand, Zenon
    <3>2. ControlTypes' /\ (~up' => restarts' < MaxRestarts)
      BY <3>1, <1>2, Zenon DEF vars, ControlTypes
    <3>3. \A c \in Commands : CommandInv(c)'
      BY <3>1, <2>2, <1>2, SMTT(30) DEF vars, CommandInv
    <3> QED BY <3>2, <3>3, ControlByCommand, Zenon
  <2> QED BY <2>1, <2>3, InvHalves, Zenon
<1>3. CASE \E c \in Commands : ExecuteUnobservable(c) \/ ExecuteDispatch(c)
  <2>1. JournalInv' /\ record \in [Commands -> RecordType] /\ record' \in [Commands -> RecordType]
    BY <1>1, <1>3, ExecuteUnobservableKeepsJournal, ExecuteDispatchKeepsJournal, Zenon DEF JournalInv
  <2> QED BY <1>1, <1>3, <2>1, ExecuteUnobservableKeepsControl, ExecuteDispatchKeepsControl, InvHalves, Zenon
<1>4. CASE Next /\ ~(\E c \in Commands : ExecuteUnobservable(c) \/ ExecuteDispatch(c))
  <2>1. JournalInv' /\ SameRecords
    BY <1>1, <1>4, StepKeepsJournal, Zenon
  <2>2. ASSUME NEW c \in Commands, Execute(c) \/ Handler(c) \/ Complete(c) \/ Timeout(c) \/ Route(c)
        PROVE  ControlInv'
    BY <1>1, <1>4, <2>1, <2>2, ExecuteRefusedKeepsControl, ExecuteUnrecordableKeepsControl,
       HandlerFailsKeepsControl, HandlerCompletesKeepsControl, HandlerHandsOverKeepsControl,
       CompleteKeepsControl, TimeoutKeepsControl, RouteRejectionKeepsControl,
       RouteAckCompletesKeepsControl, RouteReplyKeepsControl, Zenon
       DEF Execute, Handler, Route
  <2>3. ControlInv'
    BY <1>1, <1>4, <2>1, <2>2, ObserveStateKeepsControl, CrashKeepsControl, RestartKeepsControl, Zenon DEF Next
  <2> QED BY <2>1, <2>3, InvHalves, Zenon
<1> QED BY <1>2, <1>3, <1>4, Zenon

(* The inductive invariant of the pipeline, with any number of commands,   *)
(* failing writes and restarts.                                            *)
THEOREM PipelineInvariant == Spec => []PipelineInv
BY InitInv, NextKeepsInv, PTL DEF Spec

(* No success is ever reported without the evidence of its tier: what      *)
(* execute() returns is backed by the handler and the device.              *)
THEOREM SuccessHasEvidence == Spec => []SuccessIsProven
<1>1. PipelineInv => SuccessIsProven
  BY Zenon DEF PipelineInv
<1> QED BY <1>1, PipelineInvariant, PTL

(* No physical command is dispatched twice or without a durable record,    *)
(* although writes fail and the process restarts.                          *)
THEOREM AuditBeforeDispatch == Spec => []DispatchIsAudited
<1>1. PipelineInv => DispatchIsAudited
  BY Zenon DEF PipelineInv
<1> QED BY <1>1, PipelineInvariant, PTL

(* The tracker neither leaks an entry nor leaves a call without one.       *)
THEOREM TrackerInStep == Spec => []PendingIsAwaited
<1>1. PipelineInv => PendingIsAwaited
  BY Zenon DEF PipelineInv
<1> QED BY <1>1, PipelineInvariant, PTL

(* Every durable timeline is a path of the lifecycle table.                *)
THEOREM TimelinesFollowTable == Spec => []TimelineIsPath
<1>1. PipelineInv => TimelineIsPath
  BY Zenon DEF PipelineInv
<1> QED BY <1>1, PipelineInvariant, PTL

-----------------------------------------------------------------------------
(* The pipeline implements VerifiedCommand, and a completed record is      *)
(* final.  A step is examined for each command: what it does to the call,  *)
(* and what it does to the record.                                         *)

(* What the refinement needs besides PipelineInv: a missing record is      *)
(* blank, and no call runs while the process is down.                      *)
Blank == \A c \in Commands : record[c].state = None => record[c] = NoRecord
Quiet == ~up => \A c \in Commands : call[c] \notin {"dispatching", "waiting"}

JournalOf(rec) ==
    IF rec.state = None THEN "none"
    ELSE IF ~rec.completed THEN "open"
    ELSE IF rec.success = "yes" THEN "success" ELSE "failure"

(* new continues rec.                                                      *)
Continues(rec, new) ==
    /\ rec.completed => new = rec
    /\ rec.state = None \/ new.state = None => new = rec

Closes(rec, new, outcome) ==
    JournalOf(new) = JournalOf(rec) \/ (JournalOf(rec) = "open" /\ JournalOf(new) = outcome)

(* transition() leaves a completed record alone; it closes an open one     *)
(* with the outcome it is given.                                           *)
LEMMA TransitionContinues ==
    ASSUME NEW rec \in RecordType, NEW to, NEW completed \in BOOLEAN,
           NEW success \in {"yes", "no", None}
    PROVE  LET new == Transition(rec, to, completed, success)
           IN  /\ Continues(rec, new)
               /\ completed = FALSE => JournalOf(new) = JournalOf(rec)
               /\ success = "yes" => Closes(rec, new, "success")
               /\ success = "no" => Closes(rec, new, "failure")
<1> DEFINE new == Transition(rec, to, completed, success)
<1>1. CASE rec.state = None \/ rec.completed \/ ~CanTransition(rec.state, to)
  <2>1. new = rec
    BY <1>1, Zenon DEF Transition
  <2> QED BY <2>1, Zenon DEF Continues, Closes
<1>2. CASE ~(rec.state = None \/ rec.completed \/ ~CanTransition(rec.state, to))
  <2>1. new = [state |-> to, completed |-> completed,
               success |-> IF success = None THEN rec.success ELSE success,
               trail |-> Append(rec.trail, to)]
    BY <1>2, Zenon DEF Transition
  <2>2. rec.state \in States /\ to \in AllowedTransitions[rec.state]
    BY <1>2, Zenon DEF RecordType, CanTransition
  <2>3. to \in States /\ None \notin States
    BY <2>2, TableType, Zenon DEF States, None
  <2>4. new.state = to /\ to # None /\ new.completed = completed
    BY <2>1, <2>3
  <2>5. (success = "yes" => new.success = "yes") /\ (success = "no" => new.success = "no")
    BY <2>1 DEF None
  <2>6. JournalOf(rec) = "open"
    BY <1>2, Zenon DEF JournalOf
  <2>7. completed = FALSE => JournalOf(new) = "open"
    BY <2>4, Zenon DEF JournalOf
  <2>8. completed = TRUE /\ success = "yes" => JournalOf(new) = "success"
    BY <2>4, <2>5, Zenon DEF JournalOf
  <2>9. completed = TRUE /\ success = "no" => JournalOf(new) = "failure"
    BY <2>4, <2>5, Zenon DEF JournalOf
  <2>10. Continues(rec, new)
    BY <1>2, <2>4, Zenon DEF Continues
  <2> HIDE DEF new
  <2> QED BY <2>6, <2>7, <2>8, <2>9, <2>10, Zenon DEF Closes, new
<1> QED BY <1>1, <1>2, Zenon

(* A write happens or fails.                                               *)
LEMMA WriteIsLocal ==
    ASSUME record \in [Commands -> RecordType], NEW c \in Commands, NEW rec, Write(c, rec)
    PROVE  /\ record'[c] = rec \/ record'[c] = record[c]
           /\ \A d \in Commands \ {c} : record'[d] = record[d]
BY Zenon DEF Write

-----------------------------------------------------------------------------
(* The steps of one command, seen from VerifiedCommand.                    *)

AbstractStep(d) ==
    \/ Abstract!Stay(d) \/ Abstract!Refuse(d) \/ Abstract!Send(d)
    \/ Abstract!Settle(d) \/ Abstract!Interrupt(d) \/ Abstract!Reconcile(d)

LEMMA JournalIsOfRecord ==
    ASSUME NEW d \in Commands
    PROVE  /\ AbstractJournal(d) = JournalOf(record[d])
           /\ AbstractJournal(d)' = JournalOf(record'[d])
BY Zenon DEF AbstractJournal, JournalOf

LEMMA StaySteps ==
    ASSUME NEW d \in Commands, call'[d] = call[d], result'[d] = result[d],
           JournalOf(record'[d]) = JournalOf(record[d])
    PROVE  AbstractStep(d)
<1>1. /\ AbstractPhase(d)' = AbstractPhase(d) /\ AbstractOutcome(d)' = AbstractOutcome(d)
      /\ AbstractJournal(d)' = AbstractJournal(d)
  BY JournalIsOfRecord, Zenon DEF AbstractPhase, AbstractOutcome
<1> QED BY <1>1, Zenon DEF AbstractStep, Abstract!Stay

(* A call that stays in flight, as far as its caller can tell.             *)
LEMMA RunSteps ==
    ASSUME NEW d \in Commands, call[d] = "dispatching", call'[d] = "waiting",
           JournalOf(record'[d]) = JournalOf(record[d])
    PROVE  AbstractStep(d)
<1>1. /\ AbstractPhase(d)' = AbstractPhase(d) /\ AbstractOutcome(d)' = AbstractOutcome(d)
      /\ AbstractJournal(d)' = AbstractJournal(d)
  BY JournalIsOfRecord, Zenon DEF AbstractPhase, AbstractOutcome
<1> QED BY <1>1, Zenon DEF AbstractStep, Abstract!Stay

LEMMA RefuseSteps ==
    ASSUME NEW d \in Commands, call[d] = "idle", call'[d] = "returned",
           result'[d].success = FALSE,
           JournalOf(record'[d]) \in {JournalOf(record[d]), "open", "failure"}
    PROVE  AbstractStep(d)
<1>1. AbstractPhase(d) = "new" /\ AbstractPhase(d)' = "done" /\ AbstractOutcome(d)' = "failure"
  BY Zenon DEF AbstractPhase, AbstractOutcome
<1> QED BY <1>1, JournalIsOfRecord, Zenon DEF AbstractStep, Abstract!Refuse

LEMMA SendSteps ==
    ASSUME NEW d \in Commands, call[d] = "idle", call'[d] = "dispatching",
           JournalOf(record'[d]) \in {JournalOf(record[d]), "open"}
    PROVE  AbstractStep(d)
<1>1. /\ AbstractPhase(d) = "new" /\ AbstractPhase(d)' = "sent"
      /\ AbstractOutcome(d)' = AbstractOutcome(d)
  BY Zenon DEF AbstractPhase, AbstractOutcome
<1> QED BY <1>1, JournalIsOfRecord, Zenon DEF AbstractStep, Abstract!Send

LEMMA SettleSteps ==
    ASSUME NEW d \in Commands, call[d] \in {"dispatching", "waiting"}, call'[d] = "returned",
           Closes(record[d], record'[d], IF result'[d].success THEN "success" ELSE "failure")
    PROVE  AbstractStep(d)
<1>1. /\ AbstractPhase(d) = "sent" /\ AbstractPhase(d)' = "done"
      /\ AbstractOutcome(d)' = IF result'[d].success THEN "success" ELSE "failure"
  BY Zenon DEF AbstractPhase, AbstractOutcome
<1>2. AbstractOutcome(d)' \in {"success", "failure"}
  BY <1>1, Zenon
<1> QED BY <1>1, <1>2, JournalIsOfRecord, Zenon DEF Closes, AbstractStep, Abstract!Settle, Abstract!Outcomes

LEMMA InterruptSteps ==
    ASSUME NEW d \in Commands, call[d] \in {"dispatching", "waiting"}, call'[d] = "lost",
           record'[d] = record[d]
    PROVE  AbstractStep(d)
<1>1. /\ AbstractPhase(d) = "sent" /\ AbstractPhase(d)' = "lost"
      /\ AbstractOutcome(d)' = AbstractOutcome(d) /\ AbstractJournal(d)' = AbstractJournal(d)
  BY JournalIsOfRecord, Zenon DEF AbstractPhase, AbstractOutcome
<1> QED BY <1>1, Zenon DEF AbstractStep, Abstract!Interrupt

LEMMA ReconcileSteps ==
    ASSUME NEW d \in Commands, call[d] \in {"returned", "lost"}, call'[d] = call[d],
           result'[d] = result[d], Closes(record[d], record'[d], "failure")
    PROVE  AbstractStep(d)
<1>1. /\ AbstractPhase(d)' = AbstractPhase(d) /\ AbstractOutcome(d)' = AbstractOutcome(d)
      /\ AbstractPhase(d) \in {"done", "lost"}
  BY Zenon DEF AbstractPhase, AbstractOutcome
<1> QED BY <1>1, JournalIsOfRecord, Zenon DEF Closes, AbstractStep, Abstract!Stay, Abstract!Reconcile
-----------------------------------------------------------------------------
(* The actions.                                                            *)

RefinementInv == PipelineInv /\ Blank /\ Quiet

(* What every step does to every command.                                  *)
GoodStep(d) ==
    /\ record[d].completed => record'[d] = record[d]
    /\ record'[d].state = None => record'[d] = NoRecord
    /\ AbstractStep(d)

LEMMA UntouchedIsGood ==
    ASSUME RefinementInv, NEW d \in Commands, call'[d] = call[d], result'[d] = result[d],
           record'[d] = record[d]
    PROVE  GoodStep(d)
BY StaySteps, Zenon DEF RefinementInv, Blank, GoodStep

LEMMA ContinuedIsBlank ==
    ASSUME RefinementInv, NEW d \in Commands, Continues(record[d], record'[d])
    PROVE  /\ record[d].completed => record'[d] = record[d]
           /\ record'[d].state = None => record'[d] = NoRecord
BY Zenon DEF RefinementInv, Blank, Continues

LEMMA TypesOfState ==
    ASSUME RefinementInv
    PROVE  /\ record \in [Commands -> RecordType] /\ result \in [Commands -> OutcomeType]
           /\ call \in [Commands -> {"idle", "dispatching", "waiting", "returned", "lost"}]
           /\ resolution \in [Commands -> OutcomeType]
           /\ \A c \in Commands : call[c] = "idle" => record[c].state = None
BY Zenon DEF RefinementInv, PipelineInv, TypeOK, CallInv

LEMMA ReturnFacts ==
    ASSUME RefinementInv, NEW c \in Commands, NEW state, NEW success, Return(c, state, success)
    PROVE  /\ call'[c] = "returned" /\ result'[c].success = success
           /\ \A d \in Commands \ {c} : call'[d] = call[d] /\ result'[d] = result[d]
BY TypesOfState, Zenon DEF Return, Outcome

LEMMA IdleIsBlank ==
    ASSUME RefinementInv, NEW c \in Commands, call[c] = "idle"
    PROVE  record[c] = NoRecord /\ JournalOf(record[c]) = "none" /\ record[c].completed = FALSE
<1>1. record[c] = NoRecord
  BY TypesOfState, Zenon DEF RefinementInv, Blank
<1>2. NoRecord.state = None /\ NoRecord.completed = FALSE
  BY Zenon DEF NoRecord
<1>3. JournalOf(NoRecord) = "none"
  BY <1>2, Zenon DEF JournalOf
<1> QED BY <1>1, <1>2, <1>3, Zenon

(* execute() creates a record, or none, for a call that was idle.          *)
LEMMA CreatedFacts ==
    ASSUME NEW c \in Commands
    PROVE  LET closed == Transition(Created(c), "FAILED", TRUE, "no")
           IN  /\ Created(c) \in RecordType
               /\ JournalOf(Created(c)) \in {"none", "open"}
               /\ Created(c).state = None => Created(c) = NoRecord
               /\ JournalOf(closed) \in {"none", "open", "failure"}
               /\ closed.state = None => closed = NoRecord
<1> DEFINE closed == Transition(Created(c), "FAILED", TRUE, "no")
<1>1. Created(c) \in RecordType
  BY CreatedIsTimeline, Zenon DEF Created
<1>2. JournalOf(Created(c)) \in {"none", "open"} /\ (Created(c).state = None => Created(c) = NoRecord)
  BY Zenon DEF Created, JournalOf, NoRecord, NewRecord, None
<1>3. Continues(Created(c), closed) /\ Closes(Created(c), closed, "failure")
  BY <1>1, TransitionContinues, Zenon
<1> HIDE DEF closed
<1> QED BY <1>1, <1>2, <1>3, Zenon DEF Continues, Closes, closed

LEMMA ExecuteRefines ==
    ASSUME RefinementInv, NEW c \in Commands, Execute(c), NEW d \in Commands
    PROVE  GoodStep(d)
<1> DEFINE closed == Transition(Created(c), "FAILED", TRUE, "no")
<1>1. record \in [Commands -> RecordType]
  BY TypesOfState, Zenon
<1>2. ASSUME ExecuteRefused(c) \/ ExecuteUnrecordable(c) \/ ExecuteUnobservable(c)
      PROVE  GoodStep(d)
  <2>1. Return(c, "FAILED", FALSE) /\ call[c] = "idle"
    BY <1>2, Zenon DEF ExecuteRefused, ExecuteUnrecordable, ExecuteUnobservable
  <2>2. /\ record'[c] \in {record[c], Created(c), closed}
        /\ d # c => record'[d] = record[d]
    BY <1>1, <1>2, Zenon DEF ExecuteRefused, ExecuteUnrecordable, ExecuteUnobservable, NoWrite
  <2>3. CASE d # c
    BY <2>1, <2>2, <2>3, ReturnFacts, UntouchedIsGood, Zenon
  <2>4. CASE d = c
    <3>1. /\ JournalOf(record'[c]) \in {JournalOf(record[c]), "open", "failure"}
          /\ record'[c].state = None => record'[c] = NoRecord
      BY <2>1, <2>2, CreatedFacts, IdleIsBlank, Zenon
    <3>2. AbstractStep(c)
      BY <2>1, <3>1, ReturnFacts, RefuseSteps, Zenon
    <3> QED BY <2>1, <2>4, <3>1, <3>2, IdleIsBlank, Zenon DEF GoodStep
  <2> QED BY <2>3, <2>4, Zenon
<1>3. ASSUME ExecuteDispatch(c) PROVE GoodStep(d)
  <2>1. /\ call[c] = "idle" /\ call' = [call EXCEPT ![c] = "dispatching"] /\ result' = result
        /\ record' = [record EXCEPT ![c] = Created(c)]
    BY <1>3, Zenon DEF ExecuteDispatch
  <2>2. CASE d # c
    BY <2>1, <2>2, TypesOfState, UntouchedIsGood, Zenon
  <2>3. CASE d = c
    <3>1. call'[c] = "dispatching" /\ record'[c] = Created(c)
      BY <2>1, TypesOfState, Zenon
    <3>2. JournalOf(record'[c]) \in {JournalOf(record[c]), "open"}
      BY <2>1, <3>1, CreatedFacts, IdleIsBlank, Zenon
    <3>3. AbstractStep(c)
      BY <2>1, <3>1, <3>2, SendSteps, Zenon
    <3> QED BY <2>1, <2>3, <3>1, <3>3, CreatedFacts, IdleIsBlank, Zenon DEF GoodStep
  <2> QED BY <2>2, <2>3
<1> QED BY <1>2, <1>3, Zenon DEF Execute

(* A step that records an outcome and returns it.                          *)
LEMMA SettledIsGood ==
    ASSUME RefinementInv, NEW c \in Commands, NEW state, NEW success, NEW to, NEW flag,
           \/ success = TRUE /\ flag = "yes"
           \/ success = FALSE /\ flag = "no",
           call[c] \in {"dispatching", "waiting"}, Return(c, state, success),
           RecordTransition(c, to, TRUE, flag),
           NEW d \in Commands
    PROVE  GoodStep(d)
<1> DEFINE new == Transition(record[c], to, TRUE, flag)
           outcome == IF success THEN "success" ELSE "failure"
<1>1. record[c] \in RecordType /\ record \in [Commands -> RecordType]
  BY TypesOfState, Zenon
<1>2. Continues(record[c], new) /\ Closes(record[c], new, outcome)
  <2>1. CASE success = TRUE /\ flag = "yes"
    BY <1>1, <2>1, TransitionContinues, Zenon
  <2>2. CASE success = FALSE /\ flag = "no"
    BY <1>1, <2>2, TransitionContinues, Zenon
  <2> QED BY <2>1, <2>2, Zenon
<1>3. /\ record'[c] = new \/ record'[c] = record[c]
      /\ d # c => record'[d] = record[d]
  BY <1>1, WriteIsLocal, Zenon DEF RecordTransition
<1> HIDE DEF new
<1>4. CASE d # c
  BY <1>3, <1>4, ReturnFacts, UntouchedIsGood, Zenon
<1>5. CASE d = c
  <2>1. Continues(record[c], record'[c]) /\ Closes(record[c], record'[c], outcome)
    BY <1>2, <1>3, Zenon DEF Continues, Closes
  <2>2. call'[c] = "returned" /\ result'[c].success = success
    BY ReturnFacts, Zenon
  <2>3. AbstractStep(c)
    BY <2>1, <2>2, SettleSteps, Zenon
  <2> QED BY <1>5, <2>1, <2>3, ContinuedIsBlank, Zenon DEF GoodStep
<1> QED BY <1>4, <1>5, Zenon

LEMMA HandlerRefines ==
    ASSUME RefinementInv, NEW c \in Commands, Handler(c), NEW d \in Commands
    PROVE  GoodStep(d)
<1>1. CASE HandlerFails(c)
  <2>1. call[c] = "dispatching" /\ Return(c, "FAILED", FALSE)
        /\ RecordTransition(c, "FAILED", TRUE, "no")
    BY <1>1, Zenon DEF HandlerFails
  <2> QED BY <2>1, SettledIsGood, Zenon
<1>2. CASE HandlerCompletes(c)
  <2>1. call[c] = "dispatching" /\ Return(c, "DISPATCHED", TRUE)
        /\ RecordTransition(c, "DISPATCHED", TRUE, "yes")
    BY <1>2, Zenon DEF HandlerCompletes
  <2> QED BY <2>1, SettledIsGood, Zenon
<1>3. CASE HandlerHandsOver(c)
  <2> DEFINE new == Transition(record[c], "DISPATCHED", FALSE, None)
  <2>1. /\ call[c] = "dispatching" /\ call' = [call EXCEPT ![c] = "waiting"] /\ result' = result
        /\ Write(c, new)
    BY <1>3, Zenon DEF HandlerHandsOver, RecordTransition
  <2>2. record[c] \in RecordType /\ record \in [Commands -> RecordType]
    BY TypesOfState, Zenon
  <2>3. Continues(record[c], new) /\ JournalOf(new) = JournalOf(record[c])
    BY <2>2, TransitionContinues, Zenon
  <2>4. /\ record'[c] = new \/ record'[c] = record[c]
        /\ d # c => record'[d] = record[d]
    BY <2>1, <2>2, WriteIsLocal, Zenon
  <2> HIDE DEF new
  <2>5. CASE d # c
    BY <2>1, <2>4, <2>5, TypesOfState, UntouchedIsGood, Zenon
  <2>6. CASE d = c
    <3>1. Continues(record[c], record'[c]) /\ JournalOf(record'[c]) = JournalOf(record[c])
      BY <2>3, <2>4, Zenon DEF Continues
    <3>2. call'[c] = "waiting"
      BY <2>1, TypesOfState, Zenon
    <3> QED BY <2>1, <2>6, <3>1, <3>2, RunSteps, ContinuedIsBlank, Zenon DEF GoodStep
  <2> QED BY <2>5, <2>6
<1> QED BY <1>1, <1>2, <1>3, Zenon DEF Handler

LEMMA CompleteRefines ==
    ASSUME RefinementInv, NEW c \in Commands, Complete(c), NEW d \in Commands
    PROVE  GoodStep(d)
<1> DEFINE state == resolution[c].state
           success == resolution[c].success
           flag == IF success THEN "yes" ELSE "no"
<1>1. success \in BOOLEAN
  BY TypesOfState, Zenon DEF OutcomeType
<1>2. \/ success = TRUE /\ flag = "yes"
      \/ success = FALSE /\ flag = "no"
  BY <1>1, Zenon
<1>3. /\ call[c] = "waiting" /\ Return(c, state, success) /\ RecordTransition(c, state, TRUE, flag)
  BY Zenon DEF Complete
<1> HIDE DEF state, success, flag
<1> QED BY <1>2, <1>3, SettledIsGood, Zenon

(* The acknowledgement adapter appends to an open record and leaves it     *)
(* open, whichever of its two writes fails.                                *)
LEMMA AckContinues ==
    ASSUME RefinementInv, NEW c \in Commands, RecordAck(c), NEW d \in Commands
    PROVE  Continues(record[d], record'[d]) /\ JournalOf(record'[d]) = JournalOf(record[d])
<1> DEFINE implied == Implied(record[c])
           acked == Transition(implied, "ACKNOWLEDGED", FALSE, None)
<1>1. record[c] \in RecordType /\ record \in [Commands -> RecordType] /\ IsTimeline(record[c])
  BY TypesOfState, Zenon DEF RefinementInv, PipelineInv, TimelineIsPath
<1>2. implied \in RecordType
  BY <1>1, TransitionKeepsTimeline, Zenon DEF Implied, States
<1>3. Continues(record[c], implied) /\ JournalOf(implied) = JournalOf(record[c])
  <2>1. implied = record[c] \/ implied = Transition(record[c], "DISPATCHED", FALSE, None)
    BY Zenon DEF Implied
  <2>2. Continues(record[c], record[c])
    BY Zenon DEF Continues
  <2>3. LET new == Transition(record[c], "DISPATCHED", FALSE, None)
        IN  Continues(record[c], new) /\ JournalOf(new) = JournalOf(record[c])
    BY <1>1, TransitionContinues, Zenon
  <2> HIDE DEF implied
  <2> QED BY <2>1, <2>2, <2>3, Zenon
<1>4. record' = [record EXCEPT ![c] = acked]
      \/ \E rec \in {record[c], implied} : record' = [record EXCEPT ![c] = rec]
  BY Zenon DEF RecordAck
<1> HIDE DEF implied
<1>5. Continues(implied, acked) /\ JournalOf(acked) = JournalOf(implied)
  BY <1>2, TransitionContinues, Zenon
<1> HIDE DEF acked
<1>6. d # c => record'[d] = record[d]
  BY <1>1, <1>4, Zenon
<1>7. record'[c] \in {record[c], implied, acked}
  BY <1>1, <1>4, Zenon
<1>8. Continues(record[c], acked) /\ JournalOf(acked) = JournalOf(record[c])
  BY <1>3, <1>5, Zenon DEF Continues
<1> QED BY <1>3, <1>6, <1>7, <1>8, Zenon DEF Continues

(* The tracker resolves promises; it touches no call and closes no record. *)
LEMMA TrackerRefines ==
    ASSUME RefinementInv, NEW d \in Commands,
           \/ \E c \in Commands : Timeout(c) \/ Route(c)
           \/ \E v \in Devices : ObserveState(v)
    PROVE  GoodStep(d)
<1>1. call' = call /\ result' = result
  BY Zenon DEF Timeout, Route, RouteRejection, RouteAckCompletes, RouteReply, ObserveState
<1>2. record' = record \/ \E c \in Commands : RecordAck(c)
  BY Zenon DEF Timeout, Route, RouteRejection, RouteAckCompletes, RouteReply, ObserveState, NoWrite
<1>3. CASE record' = record
  BY <1>1, <1>3, UntouchedIsGood, Zenon
<1>4. CASE \E c \in Commands : RecordAck(c)
  <2>1. Continues(record[d], record'[d]) /\ JournalOf(record'[d]) = JournalOf(record[d])
    BY <1>4, AckContinues, Zenon
  <2>2. AbstractStep(d)
    BY <1>1, <2>1, StaySteps, Zenon
  <2> QED BY <2>1, <2>2, ContinuedIsBlank, Zenon DEF GoodStep
<1> QED BY <1>2, <1>3, <1>4, Zenon

LEMMA CrashRefines ==
    ASSUME RefinementInv, NEW d \in Commands, Crash
    PROVE  GoodStep(d)
<1>1. /\ call'[d] = IF call[d] \in {"dispatching", "waiting"} THEN "lost" ELSE call[d]
      /\ record' = record /\ result' = result
  BY Zenon DEF Crash, NoWrite
<1>2. CASE call[d] \notin {"dispatching", "waiting"}
  BY <1>1, <1>2, UntouchedIsGood, Zenon
<1>3. CASE call[d] \in {"dispatching", "waiting"}
  <2>1. AbstractStep(d)
    BY <1>1, <1>3, InterruptSteps, Zenon
  <2> QED BY <1>1, <2>1, Zenon DEF GoodStep, RefinementInv, Blank
<1> QED BY <1>2, <1>3, Zenon

(* The reconciliation closes records of calls that have ended.             *)
LEMMA RestartRefines ==
    ASSUME RefinementInv, NEW d \in Commands, Restart \/ RestartFails
    PROVE  GoodStep(d)
<1> DEFINE new == Transition(record[d], "FAILED", TRUE, "no")
<1>1. ~up /\ call' = call /\ result' = result
  BY Zenon DEF Restart, RestartFails
<1>2. PICK stale \in SUBSET Stale : record' = Reconciled(stale)
  BY Zenon DEF Restart, RestartFails
<1>3. record'[d] = IF d \in stale THEN new ELSE record[d]
  BY <1>2, Zenon DEF Reconciled
<1>4. CASE d \notin stale
  BY <1>1, <1>3, <1>4, UntouchedIsGood, Zenon
<1>5. CASE d \in stale
  <2>1. record[d].state # None
    BY <1>5, Zenon DEF Stale
  <2>2. call[d] \in {"returned", "lost"}
    BY <1>1, <2>1, TypesOfState, Zenon DEF RefinementInv, Quiet
  <2>3. Continues(record[d], new) /\ Closes(record[d], new, "failure")
    BY TypesOfState, TransitionContinues, Zenon
  <2> HIDE DEF new
  <2>4. AbstractStep(d)
    BY <1>1, <1>3, <1>5, <2>2, <2>3, ReconcileSteps, Zenon
  <2> QED BY <1>3, <1>5, <2>3, <2>4, ContinuedIsBlank, Zenon DEF GoodStep
<1> QED BY <1>4, <1>5, Zenon

LEMMA StepRefines ==
    ASSUME RefinementInv, Next, NEW d \in Commands
    PROVE  GoodStep(d)
BY ExecuteRefines, HandlerRefines, CompleteRefines, TrackerRefines, CrashRefines, RestartRefines, Zenon
   DEF Next

LEMMA QuietStep ==
    ASSUME RefinementInv, [Next]_vars
    PROVE  Quiet'
<1>1. CASE Crash
  BY <1>1, Zenon DEF Crash, Quiet
<1>2. CASE up' = TRUE
  BY <1>2, Zenon DEF Quiet
<1>3. CASE up' = up /\ call' = call
  BY <1>3, Zenon DEF RefinementInv, Quiet
<1>4. ASSUME NEW c \in Commands, Execute(c) \/ Handler(c) \/ Complete(c) \/ Timeout(c) \/ Route(c)
      PROVE  up' = up /\ up
  BY <1>4, Zenon DEF Execute, Handler, Route, ExecuteRefused, ExecuteUnrecordable, ExecuteUnobservable,
     ExecuteDispatch, HandlerFails, HandlerCompletes, HandlerHandsOver, Complete, Timeout,
     RouteRejection, RouteAckCompletes, RouteReply, CanReply
<1>5. ASSUME NEW v \in Devices, ObserveState(v) PROVE up' = up /\ call' = call
  BY <1>5, Zenon DEF ObserveState
<1>6. ASSUME Restart PROVE up' = TRUE
  BY <1>6, Zenon DEF Restart
<1>7. ASSUME RestartFails \/ UNCHANGED vars PROVE up' = up /\ call' = call
  BY <1>7, Zenon DEF RestartFails, vars
<1>8. up' = up /\ up => Quiet'
  BY Zenon DEF Quiet
<1> QED BY <1>1, <1>2, <1>3, <1>4, <1>5, <1>6, <1>7, <1>8, Zenon DEF Next

LEMMA RefinementInvariant == Spec => []RefinementInv
<1>1. Init => Blank /\ Quiet
  BY DEF Init, Blank, Quiet
<1>2. RefinementInv /\ [Next]_vars => Blank' /\ Quiet'
  <2> SUFFICES ASSUME RefinementInv, [Next]_vars PROVE Blank'
    BY QuietStep, Zenon
  <2>1. CASE Next
    BY <2>1, StepRefines, Zenon DEF GoodStep, Blank
  <2>2. CASE UNCHANGED vars
    BY <2>2, Zenon DEF vars, RefinementInv, Blank
  <2> QED BY <2>1, <2>2, Zenon
<1> QED BY <1>1, <1>2, InitInv, NextKeepsInv, PTL DEF Spec, RefinementInv

(* A completed record never changes again: not by a late acknowledgement,  *)
(* not by the reconciliation after a restart.                              *)
THEOREM RecordsAreFinal == Spec => CompletedIsFinal
<1> DEFINE Final == \A c \in Commands : record[c].completed => record'[c] = record[c]
<1>1. RefinementInv /\ [Next]_vars => [Final]_vars
  BY StepRefines, Zenon DEF GoodStep
<1> QED BY <1>1, RefinementInvariant, PTL DEF Spec, CompletedIsFinal

(* CommandService, its tracker and its store keep the promise of           *)
(* VerifiedCommand: sent at most once, one outcome, and a journal that is  *)
(* closed at most once, with that outcome or as a failure.                 *)
THEOREM PipelineRefines == Spec => ImplementsVerifiedCommand
<1>1. Init => Abstract!Init
  <2> SUFFICES ASSUME Init PROVE Abstract!Init
    BY Zenon
  <2>1. \A c \in Commands : AbstractPhase(c) = "new" /\ AbstractOutcome(c) = "none"
    BY Zenon DEF Init, AbstractPhase, AbstractOutcome
  <2>2. \A c \in Commands : AbstractJournal(c) = "none"
    BY Zenon DEF Init, AbstractJournal, NoRecord
  <2> QED BY <2>1, <2>2, Zenon DEF Abstract!Init
<1>2. RefinementInv /\ [Next]_vars => [Abstract!Next]_(Abstract!vars)
  <2> SUFFICES ASSUME RefinementInv, [Next]_vars PROVE [Abstract!Next]_(Abstract!vars)
    BY Zenon
  <2>1. CASE Next
    BY <2>1, StepRefines, Zenon DEF GoodStep, AbstractStep, Abstract!Next
  <2>2. CASE UNCHANGED vars
    <3>1. \A c \in Commands : /\ AbstractPhase(c)' = AbstractPhase(c)
                               /\ AbstractOutcome(c)' = AbstractOutcome(c)
                               /\ AbstractJournal(c)' = AbstractJournal(c)
      BY <2>2, Zenon DEF vars, AbstractPhase, AbstractOutcome, AbstractJournal
    <3> QED BY <3>1, Zenon DEF Abstract!vars
  <2> QED BY <2>1, <2>2, Zenon
<1> QED BY <1>1, <1>2, RefinementInvariant, PTL DEF Spec, ImplementsVerifiedCommand, Abstract!Spec

-----------------------------------------------------------------------------
(* The history tells the truth.  Its inductive invariant follows the       *)
(* record of a command, none of whose writes failed, through the stages of *)
(* its call.                                                               *)

Acknowledged(rec) == \E i \in DOMAIN rec.trail : rec.trail[i] = "ACKNOWLEDGED"

(* How the tracker may resolve a command of this tier.                     *)
SettledStates(tier) ==
    IF tier = "observed" THEN {"OBSERVED", "STATE_MISMATCH", "FAILED", "TIMED_OUT"}
    ELSE {"ACKNOWLEDGED", "FAILED", "TIMED_OUT"}

(* The states an open record may be in.  Only the observed tier has an     *)
(* acknowledgement on record while its call runs.                          *)
OpenStates(tier, stage) ==
    CASE stage = "dispatching" -> {"REQUESTED"} \cup (IF tier = "observed" THEN {"ACKNOWLEDGED"} ELSE {})
      [] stage = "waiting" -> {"DISPATCHED"} \cup (IF tier = "observed" THEN {"ACKNOWLEDGED"} ELSE {})
      [] stage = "lost" -> {"REQUESTED", "DISPATCHED", "ACKNOWLEDGED"}

(* The record is closed with what the caller was told.                     *)
Tells(rec, told) ==
    /\ rec.completed
    /\ rec.state = told.state
    /\ rec.success = IF told.success THEN "yes" ELSE "no"

(* What a record says, given the stage of its call, its tier, what its     *)
(* caller was told, the evidence seen, the tracker's entry for it and      *)
(* whether the process runs.                                               *)
Truthful(rec, stage, tier, told, seen, entry, running) ==
    /\ stage \in {"dispatching", "waiting"} => ~rec.completed /\ rec.state \in OpenStates(tier, stage)
    /\ stage = "returned" => Tells(rec, told)
    /\ stage = "lost" => rec.completed \/ (~running /\ rec.state \in OpenStates(tier, stage))
    /\ tier = "observed" /\ "ack" \in seen => Acknowledged(rec)
    /\ entry = "ACKNOWLEDGED" => Acknowledged(rec)

RecordIsTruthful(c) ==
    Truthful(record[c], call[c], Tier(c), result[c], evidence[c], pending[c], up)

HistoryOf(c) ==
    /\ call[c] = "idle" => evidence[c] = {}
    /\ resolution[c] # NoOutcome => resolution[c].state \in SettledStates(Tier(c))
    /\ record[c].state # None /\ ~unrecorded[c] => RecordIsTruthful(c)

HistoryInv == RefinementInv /\ \A c \in Commands : HistoryOf(c)

(* The lifecycle table permits what happens to an open record.             *)
LEMMA OpenRecordsProceed ==
    /\ \A tier \in Tiers : \A s \in OpenStates(tier, "dispatching") : CanTransition(s, "FAILED")
    /\ \A s \in OpenStates("dispatch", "dispatching") : CanTransition(s, "DISPATCHED")
    /\ \A tier \in Tiers \ {"dispatch"} :
        \A s \in OpenStates(tier, "waiting"), to \in SettledStates(tier) : CanTransition(s, to)
    /\ \A tier \in Tiers : \A s \in OpenStates(tier, "lost") : CanTransition(s, "FAILED")
    /\ CanTransition("REQUESTED", "DISPATCHED") /\ CanTransition("DISPATCHED", "ACKNOWLEDGED")
    /\ ~CanTransition("ACKNOWLEDGED", "DISPATCHED") /\ ~CanTransition("ACKNOWLEDGED", "ACKNOWLEDGED")
<1>1. /\ AllowedTransitions["REQUESTED"] = {"DISPATCHED", "FAILED"}
      /\ AllowedTransitions["DISPATCHED"] =
            {"ACKNOWLEDGED", "OBSERVED", "FAILED", "TIMED_OUT", "STATE_MISMATCH"}
      /\ AllowedTransitions["ACKNOWLEDGED"] = {"OBSERVED", "FAILED", "TIMED_OUT", "STATE_MISMATCH"}
  BY Zenon DEF AllowedTransitions, States
<1>2. \A tier \in Tiers : \A s \in OpenStates(tier, "dispatching") : CanTransition(s, "FAILED")
  BY <1>1, Zenon DEF OpenStates, CanTransition
<1>3. \A s \in OpenStates("dispatch", "dispatching") : CanTransition(s, "DISPATCHED")
  BY <1>1, Zenon DEF OpenStates, CanTransition
<1>4. \A tier \in Tiers \ {"dispatch"} :
        \A s \in OpenStates(tier, "waiting"), to \in SettledStates(tier) : CanTransition(s, to)
  BY <1>1, Zenon DEF OpenStates, CanTransition, SettledStates
<1>5. \A tier \in Tiers : \A s \in OpenStates(tier, "lost") : CanTransition(s, "FAILED")
  BY <1>1, Zenon DEF OpenStates, CanTransition
<1> QED BY <1>1, <1>2, <1>3, <1>4, <1>5, Zenon DEF CanTransition

Arrived(new, to, completed, success) ==
    /\ new.state = to /\ new.completed = completed
    /\ success # None => new.success = success
    /\ to = "ACKNOWLEDGED" => Acknowledged(new)

(* A transition that the table permits takes an open record there.         *)
LEMMA TransitionArrives ==
    ASSUME NEW rec \in RecordType, rec.state # None, ~rec.completed,
           NEW to, CanTransition(rec.state, to), NEW completed, NEW success,
           NEW new, new = Transition(rec, to, completed, success)
    PROVE  Arrived(new, to, completed, success)
<1>1. new = [state |-> to, completed |-> completed,
             success |-> IF success = None THEN rec.success ELSE success,
             trail |-> Append(rec.trail, to)]
  BY Zenon DEF Transition
<1>2. rec.trail \in Seq(States)
  BY Zenon DEF RecordType
<1>3. LET n == Len(rec.trail) + 1
      IN  n \in DOMAIN Append(rec.trail, to) /\ Append(rec.trail, to)[n] = to
  BY <1>2
<1>4. new.trail = Append(rec.trail, to)
  BY <1>1
<1> QED BY <1>1, <1>3, <1>4 DEF Acknowledged, Arrived

(* A timeline keeps its acknowledgement.                                   *)
LEMMA AcknowledgedStays ==
    ASSUME NEW rec \in RecordType, Acknowledged(rec), NEW to, NEW completed, NEW success
    PROVE  Acknowledged(Transition(rec, to, completed, success))
<1> DEFINE new == Transition(rec, to, completed, success)
<1>1. CASE new = rec
  BY <1>1, Zenon
<1>2. CASE new.trail = Append(rec.trail, to)
  <2>1. rec.trail \in Seq(States)
    BY Zenon DEF RecordType
  <2>2. PICK i \in DOMAIN rec.trail : rec.trail[i] = "ACKNOWLEDGED"
    BY Zenon DEF Acknowledged
  <2>3. i \in DOMAIN Append(rec.trail, to) /\ Append(rec.trail, to)[i] = rec.trail[i]
    BY <2>1, <2>2
  <2> HIDE DEF new
  <2> QED BY <1>2, <2>2, <2>3, Zenon DEF Acknowledged, new
<1>3. new = rec \/ new.trail = Append(rec.trail, to)
  BY Zenon DEF Transition
<1> QED BY <1>1, <1>2, <1>3, Zenon

LEMMA AtAcknowledged ==
    ASSUME NEW rec \in RecordType, IsTimeline(rec), rec.state = "ACKNOWLEDGED"
    PROVE  Acknowledged(rec)
<1>1. rec.trail \in Seq(States) /\ Len(rec.trail) > 0 /\ rec.trail[Len(rec.trail)] = "ACKNOWLEDGED"
  BY Zenon DEF RecordType, IsTimeline, None
<1>2. Len(rec.trail) \in DOMAIN rec.trail
  BY <1>1
<1> QED BY <1>1, <1>2, Zenon DEF Acknowledged

-----------------------------------------------------------------------------
(* What the steps do to one truthful record.                               *)

(* Every open record of this stage may be taken to this state.             *)
Permits(tier, stage, to) == \A s \in OpenStates(tier, stage) : CanTransition(s, to)

(* The failure, the handler's success or the tracker's resolution is       *)
(* recorded and returned.                                                  *)
LEMMA SettledIsTruthful ==
    ASSUME NEW rec \in RecordType, rec.state # None, NEW stage \in {"dispatching", "waiting"},
           NEW tier \in Tiers, NEW told, NEW seen, NEW entry,
           Truthful(rec, stage, tier, told, seen, entry, TRUE),
           NEW to, Permits(tier, stage, to), NEW success \in BOOLEAN,
           NEW flag, flag = IF success THEN "yes" ELSE "no",
           NEW new, new = Transition(rec, to, TRUE, flag),
           NEW seen2, "ack" \in seen2 => "ack" \in seen,
           NEW entry2, entry2 = "ACKNOWLEDGED" => entry = "ACKNOWLEDGED"
    PROVE  Truthful(new, "returned", tier, Outcome(to, success), seen2, entry2, TRUE)
<1>1. ~rec.completed /\ CanTransition(rec.state, to)
  BY Zenon DEF Truthful, Permits
<1>2. flag # None
  BY Zenon DEF None
<1>3. new.state = to /\ new.completed = TRUE /\ new.success = flag
  <2>1. Arrived(new, to, TRUE, flag)
    BY <1>1, TransitionArrives, Zenon
  <2> QED BY <1>2, <2>1, Zenon DEF Arrived
<1>4. Tells(new, Outcome(to, success))
  BY <1>3, Zenon DEF Tells, Outcome
<1>5. Acknowledged(rec) => Acknowledged(new)
  BY AcknowledgedStays, Zenon
<1> QED BY <1>4, <1>5, Zenon DEF Truthful

(* DISPATCHED is recorded, unless an acknowledgement overtook it.          *)
LEMMA HandedOverIsTruthful ==
    ASSUME NEW rec \in RecordType, rec.state # None, NEW tier \in Tiers \ {"dispatch"},
           NEW told, NEW seen, NEW entry,
           Truthful(rec, "dispatching", tier, told, seen, entry, TRUE),
           NEW new, new = Transition(rec, "DISPATCHED", FALSE, None),
           NEW seen2, "ack" \in seen2 => "ack" \in seen
    PROVE  Truthful(new, "waiting", tier, told, seen2, entry, TRUE)
<1>1. ~rec.completed /\ rec.state \in OpenStates(tier, "dispatching")
  BY Zenon DEF Truthful
<1>2. Acknowledged(rec) => Acknowledged(new)
  BY AcknowledgedStays, Zenon
<1>3. ~new.completed /\ new.state \in OpenStates(tier, "waiting")
  <2>1. CASE rec.state = "REQUESTED"
    <3>1. new.state = "DISPATCHED" /\ new.completed = FALSE
      <4>1. CanTransition(rec.state, "DISPATCHED")
        BY <2>1, OpenRecordsProceed, Zenon
      <4>2. Arrived(new, "DISPATCHED", FALSE, None)
        BY <1>1, <4>1, TransitionArrives, Zenon
      <4> QED BY <4>2, Zenon DEF Arrived
    <3> QED BY <3>1, Zenon DEF OpenStates
  <2>2. CASE rec.state = "ACKNOWLEDGED" /\ tier = "observed"
    <3>1. new = rec
      BY <2>2, OpenRecordsProceed, Zenon DEF Transition
    <3> QED BY <1>1, <2>2, <3>1, Zenon DEF OpenStates
  <2> QED BY <1>1, <2>1, <2>2, Zenon DEF OpenStates
<1> QED BY <1>2, <1>3, Zenon DEF Truthful

(* The acknowledgement is recorded, with the DISPATCHED it implies.        *)
LEMMA AckedIsTruthful ==
    ASSUME NEW rec \in RecordType, rec.state # None, IsTimeline(rec),
           NEW stage \in {"dispatching", "waiting"}, NEW told, NEW seen, NEW entry,
           Truthful(rec, stage, "observed", told, seen, entry, TRUE),
           NEW new, new = Transition(Implied(rec), "ACKNOWLEDGED", FALSE, None),
           NEW seen2, NEW entry2
    PROVE  Truthful(new, stage, "observed", told, seen2, entry2, TRUE)
<1>1. ~rec.completed /\ rec.state \in {"REQUESTED", "DISPATCHED", "ACKNOWLEDGED"}
  BY Zenon DEF Truthful, OpenStates
<1>2. ~new.completed /\ new.state = "ACKNOWLEDGED" /\ Acknowledged(new)
  <2>1. ASSUME NEW from \in RecordType, from.state = "DISPATCHED", ~from.completed,
               new = Transition(from, "ACKNOWLEDGED", FALSE, None)
        PROVE  ~new.completed /\ new.state = "ACKNOWLEDGED" /\ Acknowledged(new)
    <3>1. from.state # None /\ CanTransition(from.state, "ACKNOWLEDGED")
      BY <2>1, OpenRecordsProceed, Zenon DEF None
    <3>2. new.completed = FALSE /\ new.state = "ACKNOWLEDGED" /\ Acknowledged(new)
      <4>1. Arrived(new, "ACKNOWLEDGED", FALSE, None)
        BY <2>1, <3>1, TransitionArrives, Zenon
      <4> QED BY <4>1, Zenon DEF Arrived
    <3> QED BY <3>2, Zenon
  <2>2. CASE rec.state = "REQUESTED"
    <3>1. PICK from : from = Transition(rec, "DISPATCHED", FALSE, None)
      BY Zenon
    <3>2. from = Implied(rec)
      BY <2>2, <3>1, Zenon DEF Implied
    <3>3. from \in RecordType
      BY <3>1, TransitionKeepsTimeline, Zenon DEF States
    <3>4. from.state = "DISPATCHED" /\ from.completed = FALSE
      <4>1. CanTransition(rec.state, "DISPATCHED")
        BY <2>2, OpenRecordsProceed, Zenon
      <4>2. Arrived(from, "DISPATCHED", FALSE, None)
        BY <1>1, <3>1, <4>1, TransitionArrives, Zenon
      <4> QED BY <4>2, Zenon DEF Arrived
    <3> QED BY <2>1, <3>2, <3>3, <3>4, Zenon
  <2>3. CASE rec.state = "DISPATCHED"
    <3>1. Implied(rec) = rec
      BY <2>3, Zenon DEF Implied
    <3> QED BY <1>1, <2>1, <2>3, <3>1, Zenon
  <2>4. CASE rec.state = "ACKNOWLEDGED"
    <3>1. Implied(rec) = rec
      BY <2>4, Zenon DEF Implied
    <3>2. new = rec
      BY <2>4, <3>1, OpenRecordsProceed, Zenon DEF Transition
    <3> QED BY <1>1, <2>4, <3>2, AtAcknowledged, Zenon
  <2> QED BY <1>1, <2>2, <2>3, <2>4, Zenon
<1>3. "ACKNOWLEDGED" \in OpenStates("observed", stage)
  BY Zenon DEF OpenStates
<1> QED BY <1>2, <1>3, Zenon DEF Truthful

(* The tracker drops its entry; the record stays.                          *)
LEMMA DroppedIsTruthful ==
    ASSUME NEW rec, NEW stage, NEW tier, NEW told, NEW seen, NEW entry,
           Truthful(rec, stage, tier, told, seen, entry, TRUE),
           NEW seen2, tier = "observed" /\ "ack" \in seen2 => "ack" \in seen
    PROVE  Truthful(rec, stage, tier, told, seen2, None, TRUE)
BY Zenon DEF Truthful, None

(* The process stops.                                                      *)
LEMMA LostIsTruthful ==
    ASSUME NEW rec, NEW stage, NEW tier, NEW told, NEW seen, NEW entry,
           Truthful(rec, stage, tier, told, seen, entry, TRUE),
           NEW stage2, stage2 = IF stage \in {"dispatching", "waiting"} THEN "lost" ELSE stage
    PROVE  Truthful(rec, stage2, tier, told, seen, None, FALSE)
BY Zenon DEF Truthful, None, OpenStates

(* The process starts: an open record of a call that was lost is closed.   *)
LEMMA ReconciledIsTruthful ==
    ASSUME NEW rec \in RecordType, rec.state # None, NEW stage \in {"returned", "lost"},
           NEW tier \in Tiers, NEW told, NEW seen, NEW entry,
           Truthful(rec, stage, tier, told, seen, entry, FALSE),
           NEW new, new = Transition(rec, "FAILED", TRUE, "no")
    PROVE  \A running \in BOOLEAN : Truthful(new, stage, tier, told, seen, entry, running)
<1>1. Acknowledged(rec) => Acknowledged(new)
  BY AcknowledgedStays, Zenon
<1>2. CASE rec.completed
  <2>1. new = rec
    BY <1>2, Zenon DEF Transition
  <2> QED BY <1>2, <2>1, Zenon DEF Truthful
<1>3. CASE ~rec.completed
  <2>1. stage = "lost" /\ rec.state \in OpenStates(tier, "lost")
    BY <1>3, Zenon DEF Truthful, Tells
  <2>2. CanTransition(rec.state, "FAILED")
    BY <2>1, OpenRecordsProceed, Zenon
  <2>3. new.completed = TRUE
    <3>1. Arrived(new, "FAILED", TRUE, "no")
      BY <1>3, <2>2, TransitionArrives, Zenon
    <3> QED BY <3>1, Zenon DEF Arrived
  <2> QED BY <1>1, <2>1, <2>3, Zenon DEF Truthful
<1> QED BY <1>2, <1>3, Zenon

-----------------------------------------------------------------------------
(* The actions.                                                            *)

(* A step that does not touch the command d.                               *)
Untouched(d) ==
    /\ call'[d] = call[d] /\ record'[d] = record[d] /\ result'[d] = result[d]
    /\ pending'[d] = pending[d] /\ resolution'[d] = resolution[d]
    /\ evidence'[d] = evidence[d] /\ unrecorded'[d] = unrecorded[d]

LEMMA UntouchedKeepsHistory ==
    ASSUME NEW d \in Commands, HistoryOf(d), Untouched(d), up' = up, Tier(d)' = Tier(d)
    PROVE  HistoryOf(d)'
BY Zenon DEF HistoryOf, Untouched, RecordIsTruthful

(* What the invariant says of the command c.                               *)
LEMMA CommandFacts ==
    ASSUME HistoryInv, input' = input, NEW c \in Commands
    PROVE  /\ HistoryOf(c) /\ Tier(c)' = Tier(c) /\ Tier(c) \in Tiers
           /\ record[c] \in RecordType /\ IsTimeline(record[c])
           /\ resolution[c] \in OutcomeType /\ unrecorded[c] \in BOOLEAN
           /\ pending[c] \in {None, "DISPATCHED", "ACKNOWLEDGED"}
           /\ call[c] \in {"idle", "dispatching", "waiting", "returned", "lost"}
           /\ call[c] = "idle" => record[c].state = None /\ resolution[c] = NoOutcome /\ pending[c] = None
           /\ pending[c] # None => up /\ call[c] \in {"dispatching", "waiting"}
           /\ call[c] = "waiting" => Tier(c) # "dispatch"
<1>1. ControlTypes
  BY Zenon DEF HistoryInv, RefinementInv, PipelineInv, TypeOK, ControlTypes
<1>2. Tier(c)' = Tier(c) /\ Tier(c) \in Tiers
  BY <1>1, TierStays, Zenon
<1>3. /\ record[c] \in RecordType /\ resolution[c] \in OutcomeType /\ unrecorded[c] \in BOOLEAN
      /\ pending[c] \in {None, "DISPATCHED", "ACKNOWLEDGED"}
      /\ call[c] \in {"idle", "dispatching", "waiting", "returned", "lost"}
  BY Zenon DEF HistoryInv, RefinementInv, PipelineInv, TypeOK
<1>4. HistoryOf(c) /\ IsTimeline(record[c])
  BY Zenon DEF HistoryInv, RefinementInv, PipelineInv, TimelineIsPath
<1>5. /\ call[c] = "idle" => record[c].state = None /\ resolution[c] = NoOutcome
      /\ pending[c] # None => up /\ call[c] \in {"dispatching", "waiting"}
      /\ call[c] = "waiting" => Tier(c) # "dispatch"
  BY Zenon DEF HistoryInv, RefinementInv, PipelineInv, CallInv, PendingIsAwaited
<1> QED BY <1>2, <1>3, <1>4, <1>5, Zenon

LEMMA StateFunctions ==
    ASSUME HistoryInv
    PROVE  /\ record \in [Commands -> RecordType] /\ unrecorded \in [Commands -> BOOLEAN]
           /\ call \in [Commands -> {"idle", "dispatching", "waiting", "returned", "lost"}]
           /\ pending \in [Commands -> {None, "DISPATCHED", "ACKNOWLEDGED"}]
           /\ resolution \in [Commands -> OutcomeType] /\ result \in [Commands -> OutcomeType]
           /\ evidence \in [Commands -> SUBSET {"handler", "ack", "state"}]
BY Zenon DEF HistoryInv, RefinementInv, PipelineInv, TypeOK

(* A write takes effect, or the command is marked.                         *)
LEMMA WriteFacts ==
    ASSUME HistoryInv, NEW c \in Commands, NEW rec, Write(c, rec)
    PROVE  /\ record'[c] = rec \/ unrecorded'[c]
           /\ unrecorded[c] => unrecorded'[c]
           /\ \A d \in Commands \ {c} : record'[d] = record[d] /\ unrecorded'[d] = unrecorded[d]
BY StateFunctions, Zenon DEF Write

LEMMA ExecuteKeepsHistory ==
    ASSUME HistoryInv, NEW c \in Commands, Execute(c), NEW d \in Commands
    PROVE  HistoryOf(d)'
<1>1. /\ input' = input /\ up' = up /\ evidence' = evidence /\ resolution' = resolution
      /\ up /\ call[c] = "idle"
  BY Zenon DEF Execute, ExecuteRefused, ExecuteUnrecordable, ExecuteUnobservable, ExecuteDispatch
<1>2. \A e \in Commands \ {c} : Untouched(e)
  BY StateFunctions, ZenonT(60) DEF Execute, ExecuteRefused, ExecuteUnrecordable, ExecuteUnobservable,
     ExecuteDispatch, NoWrite, Return, Untouched
<1>3. CASE d # c
  BY <1>1, <1>2, <1>3, CommandFacts, UntouchedKeepsHistory, Zenon
<1>4. CASE d = c
  <2>1. /\ HistoryOf(c) /\ Tier(c)' = Tier(c) /\ Tier(c) \in Tiers
        /\ record[c].state = None /\ resolution[c] = NoOutcome /\ pending[c] = None
    BY <1>1, CommandFacts, Zenon
  <2>2. evidence'[c] = {} /\ resolution'[c] = NoOutcome
    BY <1>1, <2>1, Zenon DEF HistoryOf
  <2>3. SUFFICES ASSUME record'[c].state # None, ~unrecorded'[c]
                 PROVE  RecordIsTruthful(c)'
    BY <1>4, <2>2, Zenon DEF HistoryOf
  <2>4. ASSUME ExecuteRefused(c) \/ ExecuteUnrecordable(c) PROVE FALSE
    BY <2>1, <2>3, <2>4, StateFunctions, Zenon DEF ExecuteRefused, ExecuteUnrecordable, NoWrite
  <2>5. ASSUME ExecuteUnobservable(c) PROVE RecordIsTruthful(c)'
    <3> DEFINE new == Transition(Created(c), "FAILED", TRUE, "no")
    <3>1. record'[c] = new
      BY <2>3, <2>5, StateFunctions, Zenon DEF ExecuteUnobservable
    <3>2. call'[c] = "returned" /\ result'[c] = Outcome("FAILED", FALSE) /\ pending'[c] = None
      BY <2>1, <2>5, StateFunctions, Zenon DEF ExecuteUnobservable, Return
    <3>3. Created(c) = NewRecord
      <4>1. CASE Created(c) = NoRecord
        <5>1. new.state = None
          BY <4>1 DEF Transition, NoRecord
        <5> QED BY <2>3, <3>1, <5>1, Zenon
      <4> QED BY <4>1, Zenon DEF Created
    <3>4. NewRecord \in RecordType /\ NewRecord.state # None /\ ~NewRecord.completed
          /\ NewRecord.state = "REQUESTED"
      BY CreatedIsTimeline, Zenon DEF NewRecord
    <3>5. CanTransition("REQUESTED", "FAILED")
      BY OpenRecordsProceed, Zenon DEF OpenStates, Tiers
    <3>6. Arrived(new, "FAILED", TRUE, "no")
      BY <3>3, <3>4, <3>5, TransitionArrives, Zenon
    <3>7. Tells(record'[c], result'[c])
      <4> HIDE DEF new
      <4>1. result'[c].state = "FAILED" /\ result'[c].success = FALSE
        BY <3>2 DEF Outcome
      <4>2. new.state = "FAILED" /\ new.completed = TRUE /\ new.success = "no"
        BY <3>6, Zenon DEF Arrived, None
      <4> QED BY <3>1, <4>1, <4>2, Zenon DEF Tells
    <3> QED BY <2>2, <3>2, <3>7, Zenon DEF RecordIsTruthful, Truthful, None
  <2>6. ASSUME ExecuteDispatch(c) PROVE RecordIsTruthful(c)'
    <3>1. /\ record'[c] = Created(c) /\ call'[c] = "dispatching"
          /\ pending'[c] \in {None, "DISPATCHED"}
      BY <2>6, StateFunctions, Zenon DEF ExecuteDispatch
    <3>2. record'[c] = NewRecord
      BY <2>3, <3>1 DEF Created, NoRecord
    <3>3. ~record'[c].completed /\ record'[c].state = "REQUESTED"
      BY <3>2 DEF NewRecord
    <3>4. record'[c].state \in OpenStates(Tier(c)', "dispatching")
      BY <3>3, Zenon DEF OpenStates
    <3> QED BY <2>2, <3>1, <3>3, <3>4, Zenon DEF RecordIsTruthful, Truthful, None
  <2> QED BY <2>4, <2>5, <2>6, Zenon DEF Execute
<1> QED BY <1>3, <1>4, Zenon

(* A step that records an outcome and returns it.                          *)
LEMMA SettlingKeepsHistory ==
    ASSUME HistoryInv, NEW c \in Commands, up, up' = up, input' = input,
           call[c] \in {"dispatching", "waiting"},
           NEW to, NEW success \in BOOLEAN, Return(c, to, success),
           NEW flag, flag = IF success THEN "yes" ELSE "no",
           RecordTransition(c, to, TRUE, flag), Permits(Tier(c), call[c], to),
           \A e \in Commands \ {c} : pending'[e] = pending[e] /\ resolution'[e] = resolution[e]
                                     /\ evidence'[e] = evidence[e],
           pending'[c] = "ACKNOWLEDGED" => pending[c] = "ACKNOWLEDGED",
           "ack" \in evidence'[c] => "ack" \in evidence[c],
           resolution'[c] = resolution[c] \/ resolution'[c].state \in SettledStates(Tier(c)),
           NEW d \in Commands
    PROVE  HistoryOf(d)'
<1>1. /\ HistoryOf(c) /\ Tier(c)' = Tier(c) /\ Tier(c) \in Tiers
      /\ record[c] \in RecordType /\ IsTimeline(record[c]) /\ unrecorded[c] \in BOOLEAN
  BY CommandFacts, Zenon
<1>2. PICK new : new = Transition(record[c], to, TRUE, flag)
  BY Zenon
<1>3. /\ record'[c] = new \/ unrecorded'[c]
      /\ unrecorded[c] => unrecorded'[c]
      /\ \A e \in Commands \ {c} : record'[e] = record[e] /\ unrecorded'[e] = unrecorded[e]
  BY <1>2, WriteFacts, Zenon DEF RecordTransition
<1>4. /\ call'[c] = "returned" /\ result'[c] = Outcome(to, success)
      /\ \A e \in Commands \ {c} : call'[e] = call[e] /\ result'[e] = result[e]
  BY StateFunctions, Zenon DEF Return
<1>5. CASE d # c
  <2>1. Untouched(d)
    BY <1>3, <1>4, <1>5, Zenon DEF Untouched
  <2> QED BY <2>1, CommandFacts, UntouchedKeepsHistory, Zenon
<1>6. CASE d = c
  <2>1. resolution'[c] # NoOutcome => resolution'[c].state \in SettledStates(Tier(c)')
    BY <1>1, Zenon DEF HistoryOf
  <2>2. ASSUME record'[c].state # None, ~unrecorded'[c] PROVE RecordIsTruthful(c)'
    <3>1. record'[c] = new /\ ~unrecorded[c]
      BY <1>3, <2>2, Zenon
    <3>2. record[c].state # None
      BY <1>2, <2>2, <3>1, Zenon DEF Transition
    <3>3. Truthful(record[c], call[c], Tier(c), result[c], evidence[c], pending[c], TRUE)
      BY <1>1, <3>1, <3>2, Zenon DEF HistoryOf, RecordIsTruthful
    <3>4. Truthful(new, "returned", Tier(c), Outcome(to, success), evidence'[c], pending'[c], TRUE)
      <4>1. PICK rec, stage, tier, told, seen, entry : 
              /\ rec = record[c] /\ stage = call[c] /\ tier = Tier(c) /\ told = result[c]
              /\ seen = evidence[c] /\ entry = pending[c]
        BY Zenon
      <4>2. PICK seen2, entry2 : seen2 = evidence'[c] /\ entry2 = pending'[c]
        BY Zenon
      <4>3. Truthful(rec, stage, tier, told, seen, entry, TRUE)
        BY <3>3, <4>1, Zenon
      <4>4. /\ rec \in RecordType /\ rec.state # None /\ stage \in {"dispatching", "waiting"}
            /\ tier \in Tiers /\ Permits(tier, stage, to) /\ new = Transition(rec, to, TRUE, flag)
            /\ "ack" \in seen2 => "ack" \in seen
            /\ entry2 = "ACKNOWLEDGED" => entry = "ACKNOWLEDGED"
        BY <1>1, <1>2, <3>2, <4>1, <4>2, Zenon
      <4>5. Truthful(new, "returned", tier, Outcome(to, success), seen2, entry2, TRUE)
        BY <4>3, <4>4, SettledIsTruthful, ZenonT(60)
      <4> QED BY <4>1, <4>2, <4>5, Zenon
    <3> QED BY <1>1, <1>4, <3>1, <3>4, Zenon DEF RecordIsTruthful
  <2> QED BY <1>4, <1>6, <2>1, <2>2, Zenon DEF HistoryOf
<1> QED BY <1>5, <1>6, Zenon

LEMMA HandlerKeepsHistory ==
    ASSUME HistoryInv, NEW c \in Commands, Handler(c), NEW d \in Commands
    PROVE  HistoryOf(d)'
<1>1. up /\ up' = up /\ input' = input /\ call[c] = "dispatching"
  BY Zenon DEF Handler, HandlerFails, HandlerCompletes, HandlerHandsOver
<1>2. /\ HistoryOf(c) /\ Tier(c)' = Tier(c) /\ Tier(c) \in Tiers
      /\ record[c] \in RecordType /\ unrecorded[c] \in BOOLEAN
  BY <1>1, CommandFacts, Zenon
<1>3. CASE HandlerFails(c)
  <2>1. Return(c, "FAILED", FALSE) /\ RecordTransition(c, "FAILED", TRUE, "no")
    BY <1>3, Zenon DEF HandlerFails
  <2>2. /\ \A e \in Commands \ {c} : pending'[e] = pending[e] /\ resolution'[e] = resolution[e]
                                     /\ evidence'[e] = evidence[e]
        /\ pending'[c] = None /\ evidence'[c] = evidence[c]
        /\ resolution'[c] = resolution[c] \/ resolution'[c] = Outcome("FAILED", FALSE)
    BY <1>3, StateFunctions, Zenon DEF HandlerFails
  <2>3. resolution'[c] = resolution[c] \/ resolution'[c].state \in SettledStates(Tier(c))
    BY <2>2 DEF Outcome, SettledStates
  <2>4. Permits(Tier(c), call[c], "FAILED")
    BY <1>1, <1>2, OpenRecordsProceed, Zenon DEF Permits
  <2>5. "no" = IF FALSE THEN "yes" ELSE "no"
    BY Zenon
  <2>6. pending'[c] = "ACKNOWLEDGED" => pending[c] = "ACKNOWLEDGED"
    BY <2>2, Zenon DEF None
  <2> QED BY <1>1, <2>1, <2>2, <2>3, <2>4, <2>5, <2>6, SettlingKeepsHistory, Zenon
<1>4. CASE HandlerCompletes(c)
  <2>1. /\ Return(c, "DISPATCHED", TRUE) /\ RecordTransition(c, "DISPATCHED", TRUE, "yes")
        /\ Tier(c) = "dispatch"
    BY <1>4, Zenon DEF HandlerCompletes
  <2>2. /\ pending' = pending /\ resolution' = resolution
        /\ \A e \in Commands \ {c} : evidence'[e] = evidence[e]
        /\ "ack" \in evidence'[c] => "ack" \in evidence[c]
    BY <1>4, StateFunctions, Zenon DEF HandlerCompletes
  <2>3. Permits(Tier(c), call[c], "DISPATCHED")
    BY <1>1, <2>1, OpenRecordsProceed, Zenon DEF Permits
  <2>4. "yes" = IF TRUE THEN "yes" ELSE "no"
    BY Zenon
  <2> QED BY <1>1, <2>1, <2>2, <2>3, <2>4, SettlingKeepsHistory, Zenon
<1>5. CASE HandlerHandsOver(c)
  <2>1. PICK new : new = Transition(record[c], "DISPATCHED", FALSE, None)
    BY Zenon
  <2>2. /\ record'[c] = new \/ unrecorded'[c]
        /\ unrecorded[c] => unrecorded'[c]
        /\ \A e \in Commands \ {c} : record'[e] = record[e] /\ unrecorded'[e] = unrecorded[e]
    BY <1>5, <2>1, WriteFacts, Zenon DEF HandlerHandsOver, RecordTransition
  <2>3. /\ pending' = pending /\ resolution' = resolution /\ result' = result
        /\ \A e \in Commands \ {c} : evidence'[e] = evidence[e] /\ call'[e] = call[e]
        /\ "ack" \in evidence'[c] => "ack" \in evidence[c]
        /\ call'[c] = "waiting" /\ Tier(c) # "dispatch"
    BY <1>5, StateFunctions, Zenon DEF HandlerHandsOver
  <2>4. CASE d # c
    <3>1. Untouched(d)
      BY <2>2, <2>3, <2>4, Zenon DEF Untouched
    <3> QED BY <1>1, <3>1, CommandFacts, UntouchedKeepsHistory, Zenon
  <2>5. CASE d = c
    <3>1. ASSUME record'[c].state # None, ~unrecorded'[c] PROVE RecordIsTruthful(c)'
      <4>1. record'[c] = new /\ ~unrecorded[c]
        BY <2>2, <3>1, Zenon
      <4>2. record[c].state # None
        BY <2>1, <3>1, <4>1, Zenon DEF Transition
      <4>3. PICK rec, tier, told, seen, entry, seen2 :
              /\ rec = record[c] /\ tier = Tier(c) /\ told = result[c]
              /\ seen = evidence[c] /\ entry = pending[c] /\ seen2 = evidence'[c]
        BY Zenon
      <4>4. Truthful(rec, "dispatching", tier, told, seen, entry, TRUE)
        BY <1>1, <1>2, <4>1, <4>2, <4>3, ZenonT(60) DEF HistoryOf, RecordIsTruthful
      <4>5. /\ rec \in RecordType /\ rec.state # None /\ tier \in Tiers \ {"dispatch"}
            /\ new = Transition(rec, "DISPATCHED", FALSE, None)
            /\ "ack" \in seen2 => "ack" \in seen
        BY <1>2, <2>1, <2>3, <4>2, <4>3, Zenon
      <4>6. Truthful(new, "waiting", tier, told, seen2, entry, TRUE)
        BY <4>4, <4>5, HandedOverIsTruthful, ZenonT(60)
      <4> QED BY <1>1, <1>2, <2>3, <4>1, <4>3, <4>6, ZenonT(60) DEF RecordIsTruthful
    <3> QED BY <1>2, <2>3, <2>5, <3>1, Zenon DEF HistoryOf
  <2> QED BY <2>4, <2>5, Zenon
<1> QED BY <1>3, <1>4, <1>5, Zenon DEF Handler

LEMMA CompleteKeepsHistory ==
    ASSUME HistoryInv, NEW c \in Commands, Complete(c), NEW d \in Commands
    PROVE  HistoryOf(d)'
<1>1. PICK to, success, flag :
        /\ to = resolution[c].state /\ success = resolution[c].success
        /\ flag = IF success THEN "yes" ELSE "no"
  BY Zenon
<1>2. /\ up /\ up' = up /\ input' = input /\ call[c] = "waiting" /\ resolution[c] # NoOutcome
      /\ Return(c, to, success) /\ RecordTransition(c, to, TRUE, flag)
      /\ pending' = pending /\ resolution' = resolution /\ evidence' = evidence
  BY <1>1, Zenon DEF Complete
<1>3. /\ HistoryOf(c) /\ Tier(c) \in Tiers \ {"dispatch"} /\ resolution[c] \in OutcomeType
  BY <1>2, CommandFacts, Zenon
<1>4. success \in BOOLEAN
  BY <1>1, <1>3, Zenon DEF OutcomeType
<1>5. to \in SettledStates(Tier(c))
  BY <1>1, <1>2, <1>3, Zenon DEF HistoryOf
<1>6. Permits(Tier(c), call[c], to)
  BY <1>2, <1>3, <1>5, OpenRecordsProceed, Zenon DEF Permits
<1> QED BY <1>1, <1>2, <1>4, <1>6, SettlingKeepsHistory, Zenon

(* The tracker drops the entry of c and resolves its promise; the record   *)
(* is left alone.                                                          *)
LEMMA FinalizingKeepsHistory ==
    ASSUME HistoryInv, NEW c \in Commands, pending[c] # None,
           UNCHANGED <<up, input, call, result, record, unrecorded>>,
           pending'[c] = None, resolution'[c].state \in SettledStates(Tier(c)),
           Tier(c) = "observed" /\ "ack" \in evidence'[c] => "ack" \in evidence[c]
    PROVE  HistoryOf(c)'
<1>1. /\ HistoryOf(c) /\ Tier(c)' = Tier(c) /\ up /\ call[c] \in {"dispatching", "waiting"}
  BY CommandFacts, Zenon
<1>2. ASSUME record'[c].state # None, ~unrecorded'[c] PROVE RecordIsTruthful(c)'
  <2>1. PICK rec, stage, tier, told, seen, entry, seen2 :
          /\ rec = record[c] /\ stage = call[c] /\ tier = Tier(c) /\ told = result[c]
          /\ seen = evidence[c] /\ entry = pending[c] /\ seen2 = evidence'[c]
    BY Zenon
  <2>2. Truthful(rec, stage, tier, told, seen, entry, TRUE)
    BY <1>1, <1>2, <2>1, Zenon DEF HistoryOf, RecordIsTruthful
  <2>3. tier = "observed" /\ "ack" \in seen2 => "ack" \in seen
    BY <2>1, Zenon
  <2>4. Truthful(rec, stage, tier, told, seen2, None, TRUE)
    BY <2>2, <2>3, DroppedIsTruthful, Zenon
  <2> QED BY <1>1, <2>1, <2>4, Zenon DEF RecordIsTruthful
<1> QED BY <1>1, <1>2, Zenon DEF HistoryOf

LEMMA TimeoutKeepsHistory ==
    ASSUME HistoryInv, NEW c \in Commands,
           Timeout(c) \/ RouteRejection(c) \/ RouteAckCompletes(c), NEW d \in Commands
    PROVE  HistoryOf(d)'
<1>1. pending[c] # None /\ UNCHANGED <<up, input, call, result, record, unrecorded>>
  BY Zenon DEF Timeout, RouteRejection, RouteAckCompletes, CanReply, NoWrite
<1>2. /\ \A e \in Commands \ {c} : pending'[e] = pending[e] /\ resolution'[e] = resolution[e]
                                   /\ evidence'[e] = evidence[e]
      /\ pending'[c] = None
      /\ Tier(c) = "observed" /\ "ack" \in evidence'[c] => "ack" \in evidence[c]
  BY StateFunctions, Zenon DEF Timeout, RouteRejection, RouteAckCompletes, Finalize
<1>3. resolution'[c].state \in SettledStates(Tier(c))
  BY StateFunctions DEF Timeout, RouteRejection, RouteAckCompletes, Finalize, Outcome, SettledStates
<1>4. CASE d # c
  <2>1. Untouched(d)
    BY <1>1, <1>2, <1>4, Zenon DEF Untouched
  <2> QED BY <1>1, <2>1, CommandFacts, UntouchedKeepsHistory, Zenon
<1>5. CASE d = c
  BY <1>1, <1>2, <1>3, <1>5, FinalizingKeepsHistory, Zenon
<1> QED BY <1>4, <1>5, Zenon

LEMMA VerdictsSettle ==
    \A v \in Verdicts : ObservationOutcome(v).state \in SettledStates("observed")
BY Zenon DEF Verdicts, ObservationOutcome, Outcome, SettledStates

LEMMA RouteReplyKeepsHistory ==
    ASSUME HistoryInv, NEW c \in Commands, RouteReply(c), NEW d \in Commands
    PROVE  HistoryOf(d)'
<1>1. /\ UNCHANGED <<up, input, call, result>> /\ pending[c] # None /\ Tier(c) = "observed"
  BY Zenon DEF RouteReply, CanReply
<1>2. PICK acknowledges \in BOOLEAN, verdict \in Verdicts \cup {None} :
        LET advanced == acknowledges /\ CanTransition(pending[c], "ACKNOWLEDGED")
        IN  /\ IF advanced THEN RecordAck(c) ELSE NoWrite
            /\ evidence' = [evidence EXCEPT ![c] =
                    @ \cup (IF acknowledges THEN {"ack"} ELSE {}) \cup Observed(c, verdict)]
            /\ IF verdict = None
               THEN /\ pending' = [pending EXCEPT ![c] = IF advanced THEN "ACKNOWLEDGED" ELSE @]
                    /\ UNCHANGED resolution
               ELSE Finalize(c, ObservationOutcome(verdict).state, ObservationOutcome(verdict).success)
  BY Zenon DEF RouteReply
<1> DEFINE advanced == acknowledges /\ CanTransition(pending[c], "ACKNOWLEDGED")
<1>3. /\ HistoryOf(c) /\ Tier(c)' = Tier(c) /\ up /\ call[c] \in {"dispatching", "waiting"}
      /\ record[c] \in RecordType /\ IsTimeline(record[c]) /\ unrecorded[c] \in BOOLEAN
      /\ pending[c] \in {"DISPATCHED", "ACKNOWLEDGED"}
  BY <1>1, CommandFacts, Zenon
<1>4. PICK new : new = Transition(Implied(record[c]), "ACKNOWLEDGED", FALSE, None)
  BY Zenon
<1>5. /\ advanced => record'[c] = new \/ unrecorded'[c]
      /\ unrecorded[c] => unrecorded'[c]
      /\ ~advanced => record' = record /\ unrecorded' = unrecorded
      /\ \A e \in Commands \ {c} : record'[e] = record[e] /\ unrecorded'[e] = unrecorded[e]
  <2>1. CASE advanced
    <3>1. RecordAck(c)
      BY <1>2, <2>1, Zenon
    <3> QED BY <1>4, <2>1, <3>1, StateFunctions, Zenon DEF RecordAck
  <2>2. CASE ~advanced
    <3>1. NoWrite
      BY <1>2, <2>2, Zenon
    <3> QED BY <2>2, <3>1, Zenon DEF NoWrite
  <2> QED BY <2>1, <2>2, Zenon
<1>6. \A e \in Commands \ {c} : evidence'[e] = evidence[e]
  BY <1>2, StateFunctions, Zenon
<1>7. ~acknowledges => ("ack" \in evidence'[c] => "ack" \in evidence[c])
  BY <1>2, StateFunctions, Zenon DEF Observed
<1>8. /\ \A e \in Commands \ {c} : pending'[e] = pending[e] /\ resolution'[e] = resolution[e]
      /\ pending'[c] = None \/ pending'[c] = pending[c] \/ (advanced /\ pending'[c] = "ACKNOWLEDGED")
      /\ resolution'[c] = resolution[c] \/ resolution'[c].state \in SettledStates("observed")
  <2>1. CASE verdict = None
    BY <1>2, <2>1, StateFunctions, Zenon
  <2>2. CASE verdict # None
    <3>1. Finalize(c, ObservationOutcome(verdict).state, ObservationOutcome(verdict).success)
      BY <1>2, <2>2, Zenon
    <3>2. resolution'[c].state = ObservationOutcome(verdict).state /\ verdict \in Verdicts
      BY <2>2, <3>1, StateFunctions, Zenon DEF Finalize, Outcome
    <3> QED BY <3>1, <3>2, VerdictsSettle, StateFunctions, Zenon DEF Finalize
  <2> QED BY <2>1, <2>2, Zenon
<1>9. CASE d # c
  <2>1. Untouched(d)
    BY <1>1, <1>5, <1>6, <1>8, <1>9, Zenon DEF Untouched
  <2> QED BY <1>1, <2>1, CommandFacts, UntouchedKeepsHistory, Zenon
<1>10. CASE d = c
  <2>1. ASSUME record'[c].state # None, ~unrecorded'[c] PROVE RecordIsTruthful(c)'
    <3>1. ~unrecorded[c]
      BY <1>5, <2>1, Zenon
    <3>2. CASE advanced
      <4>1. record'[c] = new
        BY <1>5, <2>1, <3>2, Zenon
      <4>2. record[c].state # None
        BY <1>4, <2>1, <4>1, ZenonT(60) DEF Transition, Implied
      <4>3. PICK rec, stage, told, seen, entry, seen2, entry2 :
              /\ rec = record[c] /\ stage = call[c] /\ told = result[c]
              /\ seen = evidence[c] /\ entry = pending[c]
              /\ seen2 = evidence'[c] /\ entry2 = pending'[c]
        BY Zenon
      <4>4. Truthful(rec, stage, "observed", told, seen, entry, TRUE)
        BY <1>1, <1>3, <3>1, <4>2, <4>3, Zenon DEF HistoryOf, RecordIsTruthful
      <4>5. /\ rec \in RecordType /\ rec.state # None /\ IsTimeline(rec)
            /\ stage \in {"dispatching", "waiting"}
            /\ new = Transition(Implied(rec), "ACKNOWLEDGED", FALSE, None)
        BY <1>3, <1>4, <4>2, <4>3, Zenon
      <4>6. Truthful(new, stage, "observed", told, seen2, entry2, TRUE)
        BY <4>4, <4>5, AckedIsTruthful, Zenon
      <4> QED BY <1>1, <1>3, <4>1, <4>3, <4>6, ZenonT(60) DEF RecordIsTruthful
    <3>3. CASE ~advanced
      <4>1. record'[c] = record[c] /\ record[c].state # None
        BY <1>5, <2>1, <3>3, Zenon
      <4>2. RecordIsTruthful(c)
        BY <1>3, <3>1, <4>1, Zenon DEF HistoryOf
      <4>3. acknowledges => pending[c] = "ACKNOWLEDGED"
        BY <1>3, <3>3, OpenRecordsProceed, Zenon
      <4>4. "ack" \in evidence'[c] => Acknowledged(record[c])
        BY <1>1, <1>7, <4>2, <4>3, Zenon DEF RecordIsTruthful, Truthful
      <4>5. pending'[c] = "ACKNOWLEDGED" => Acknowledged(record[c])
        BY <1>8, <3>3, <4>2, Zenon DEF RecordIsTruthful, Truthful, None
      <4> QED BY <1>1, <1>3, <4>1, <4>2, <4>4, <4>5, Zenon DEF RecordIsTruthful, Truthful
    <3> QED BY <3>2, <3>3, Zenon
  <2> QED BY <1>1, <1>3, <1>8, <1>10, <2>1, Zenon DEF HistoryOf
<1> QED BY <1>9, <1>10, Zenon

LEMMA ObserveStateKeepsHistory ==
    ASSUME HistoryInv, NEW v \in Devices, ObserveState(v), NEW d \in Commands
    PROVE  HistoryOf(d)'
<1>1. UNCHANGED <<up, input, call, result, record, unrecorded>>
  BY Zenon DEF ObserveState, NoWrite
<1>2. PICK verdict \in [Watching(v) -> Verdicts] :
        LET settled == {c \in Watching(v) : verdict[c] # "unsatisfied"}
        IN  /\ pending' = [c \in Commands |-> IF c \in settled THEN None ELSE pending[c]]
            /\ resolution' = [c \in Commands |->
                    IF c \in settled THEN ObservationOutcome(verdict[c]) ELSE resolution[c]]
            /\ evidence' = [c \in Commands |->
                    IF c \in settled THEN evidence[c] \cup Observed(c, verdict[c]) ELSE evidence[c]]
  BY Zenon DEF ObserveState
<1> DEFINE settled == {c \in Watching(v) : verdict[c] # "unsatisfied"}
<1>3. CASE d \notin settled
  <2>1. Untouched(d)
    BY <1>1, <1>2, <1>3, Zenon DEF Untouched
  <2> QED BY <1>1, <2>1, CommandFacts, UntouchedKeepsHistory, Zenon
<1>4. CASE d \in settled
  <2>1. pending[d] # None /\ Tier(d) = "observed" /\ verdict[d] \in Verdicts
    BY <1>4, Zenon DEF Watching
  <2>2. /\ pending'[d] = None /\ resolution'[d] = ObservationOutcome(verdict[d])
        /\ evidence'[d] = evidence[d] \cup Observed(d, verdict[d])
    BY <1>2, <1>4, Zenon
  <2>3. "ack" \in evidence'[d] => "ack" \in evidence[d]
    BY <2>2, Zenon DEF Observed
  <2>4. resolution'[d].state \in SettledStates(Tier(d))
    BY <2>1, <2>2, VerdictsSettle, Zenon
  <2> QED BY <1>1, <2>1, <2>2, <2>3, <2>4, FinalizingKeepsHistory, Zenon
<1> QED BY <1>3, <1>4, Zenon

LEMMA CrashKeepsHistory ==
    ASSUME HistoryInv, Crash, NEW d \in Commands
    PROVE  HistoryOf(d)'
<1>1. /\ up /\ up' = FALSE /\ UNCHANGED <<input, result, evidence, record, unrecorded>>
      /\ call'[d] = (IF call[d] \in {"dispatching", "waiting"} THEN "lost" ELSE call[d])
      /\ pending'[d] = None /\ resolution'[d] = NoOutcome
  BY Zenon DEF Crash, NoWrite
<1>2. HistoryOf(d) /\ Tier(d)' = Tier(d)
  BY <1>1, CommandFacts, Zenon
<1>3. ASSUME record'[d].state # None, ~unrecorded'[d] PROVE RecordIsTruthful(d)'
  <2>1. PICK rec, stage, tier, told, seen, entry, stage2 :
          /\ rec = record[d] /\ stage = call[d] /\ tier = Tier(d) /\ told = result[d]
          /\ seen = evidence[d] /\ entry = pending[d] /\ stage2 = call'[d]
    BY Zenon
  <2>2. Truthful(rec, stage, tier, told, seen, entry, TRUE)
    BY <1>1, <1>2, <1>3, <2>1, Zenon DEF HistoryOf, RecordIsTruthful
  <2>3. stage2 = IF stage \in {"dispatching", "waiting"} THEN "lost" ELSE stage
    BY <1>1, <2>1, Zenon
  <2>4. Truthful(rec, stage2, tier, told, seen, None, FALSE)
    BY <2>2, <2>3, LostIsTruthful, Zenon
  <2> QED BY <1>1, <1>2, <2>1, <2>4, Zenon DEF RecordIsTruthful
<1>4. call'[d] = "idle" => call[d] = "idle"
  BY <1>1, Zenon
<1> QED BY <1>1, <1>2, <1>3, <1>4, Zenon DEF HistoryOf

LEMMA RestartKeepsHistory ==
    ASSUME HistoryInv, Restart \/ RestartFails, NEW d \in Commands
    PROVE  HistoryOf(d)'
<1>1. ~up /\ UNCHANGED <<input, call, result, pending, resolution, evidence, unrecorded>>
  BY Zenon DEF Restart, RestartFails
<1>2. /\ HistoryOf(d) /\ Tier(d)' = Tier(d) /\ Tier(d) \in Tiers /\ record[d] \in RecordType
      /\ call[d] \in {"idle", "dispatching", "waiting", "returned", "lost"}
      /\ call[d] = "idle" => record[d].state = None
  BY <1>1, CommandFacts, Zenon
<1>3. call[d] \notin {"dispatching", "waiting"}
  BY <1>1, Zenon DEF HistoryInv, RefinementInv, Quiet
<1>4. PICK new : new = Transition(record[d], "FAILED", TRUE, "no")
  BY Zenon
<1>5. /\ record'[d] = record[d] \/ record'[d] = new
      /\ up' => d \notin Stale \/ record'[d] = new
      /\ up' \in BOOLEAN
  <2>1. CASE Restart
    BY <1>4, <2>1, Zenon DEF Restart, Reconciled
  <2>2. CASE RestartFails
    BY <1>1, <1>4, <2>2, Zenon DEF RestartFails, Reconciled, HistoryInv, RefinementInv, PipelineInv, TypeOK
  <2> QED BY <2>1, <2>2, Zenon
<1>6. ASSUME record'[d].state # None, ~unrecorded'[d] PROVE RecordIsTruthful(d)'
  <2>1. record[d].state # None
    BY <1>4, <1>5, <1>6, Zenon DEF Transition
  <2>2. call[d] \in {"returned", "lost"}
    BY <1>2, <1>3, <2>1, Zenon
  <2>3. RecordIsTruthful(d) /\ up = FALSE
    BY <1>1, <1>2, <1>6, <2>1, Zenon DEF HistoryOf, HistoryInv, RefinementInv, PipelineInv, TypeOK
  <2>4. CASE record'[d] = new
    <3>1. PICK rec, stage, tier, told, seen, entry :
            /\ rec = record[d] /\ stage = call[d] /\ tier = Tier(d) /\ told = result[d]
            /\ seen = evidence[d] /\ entry = pending[d]
      BY Zenon
    <3>2. Truthful(rec, stage, tier, told, seen, entry, FALSE)
      BY <2>3, <3>1, Zenon DEF RecordIsTruthful
    <3>3. /\ rec \in RecordType /\ rec.state # None /\ stage \in {"returned", "lost"}
          /\ tier \in Tiers /\ new = Transition(rec, "FAILED", TRUE, "no")
      BY <1>2, <1>4, <2>1, <2>2, <3>1, Zenon
    <3>4. \A running \in BOOLEAN : Truthful(new, stage, tier, told, seen, entry, running)
      BY <3>2, <3>3, ReconciledIsTruthful, Zenon
    <3>5. Truthful(new, stage, tier, told, seen, entry, up')
      BY <1>5, <3>4, ZenonT(60)
    <3> QED BY <1>1, <1>2, <2>4, <3>1, <3>5, Zenon DEF RecordIsTruthful
  <2>5. CASE record'[d] = record[d] /\ (up' => d \notin Stale)
    <3>1. up' => record[d].completed
      BY <2>1, <2>5, Zenon DEF Stale
    <3> QED BY <1>1, <1>2, <2>2, <2>3, <2>5, <3>1, Zenon DEF RecordIsTruthful, Truthful
  <2> QED BY <1>5, <2>4, <2>5, Zenon
<1> QED BY <1>1, <1>2, <1>6, Zenon DEF HistoryOf

LEMMA NextKeepsHistory ==
    ASSUME HistoryInv, [Next]_vars, NEW d \in Commands
    PROVE  HistoryOf(d)'
<1>1. CASE UNCHANGED vars
  <2>1. Untouched(d) /\ up' = up /\ input' = input
    BY <1>1, Zenon DEF vars, Untouched
  <2> QED BY <2>1, CommandFacts, UntouchedKeepsHistory, Zenon
<1>2. CASE Next
  BY <1>2, ExecuteKeepsHistory, HandlerKeepsHistory, CompleteKeepsHistory, TimeoutKeepsHistory,
     RouteReplyKeepsHistory, ObserveStateKeepsHistory, CrashKeepsHistory, RestartKeepsHistory, Zenon
     DEF Next, Route
<1> QED BY <1>1, <1>2, Zenon

(* The history's inductive invariant holds in every reachable state.       *)
THEOREM HistoryInvariant == Spec => []HistoryInv
<1>1. Init => \A c \in Commands : HistoryOf(c)
  BY DEF Init, HistoryOf, NoRecord
<1>2. HistoryInv /\ [Next]_vars => (\A c \in Commands : HistoryOf(c))'
  BY NextKeepsHistory, Zenon
<1> QED BY <1>1, <1>2, RefinementInvariant, PTL DEF Spec, HistoryInv

(* The history tells the truth: unless one of its own writes failed, a     *)
(* command that returned has a closed record with the outcome its caller   *)
(* was told, an open record belongs to a call in flight, and an            *)
(* acknowledgement is in the timeline even when it overtook the DISPATCHED *)
(* write; and this whenever the process stops and however its restart      *)
(* fails.                                                                  *)
THEOREM HistoryTellsTheTruth == Spec => []HistoryIsTrue
<1>1. HistoryInv => HistoryIsTrue
  <2> SUFFICES ASSUME HistoryInv PROVE HistoryIsTrue
    BY Zenon
  <2>1. \A c \in Commands : record[c].state # None /\ ~unrecorded[c] => RecordIsTruthful(c)
    BY Zenon DEF HistoryInv, HistoryOf
  <2>2. HistoryAgrees
    BY <2>1, Zenon DEF HistoryAgrees, RecordIsTruthful, Truthful, Tells
  <2>3. OpenRecordsAreLive
    <3>1. SUFFICES ASSUME NEW c \in Commands, up, IsOpen(record[c]), ~unrecorded[c]
                   PROVE  call[c] \in {"dispatching", "waiting"}
      BY Zenon DEF OpenRecordsAreLive
    <3>2. record[c].state # None /\ ~record[c].completed /\ RecordIsTruthful(c)
      BY <2>1, <3>1, Zenon DEF IsOpen
    <3>3. /\ call[c] \in {"idle", "dispatching", "waiting", "returned", "lost"}
          /\ call[c] = "idle" => record[c].state = None
      BY Zenon DEF HistoryInv, RefinementInv, PipelineInv, TypeOK, CallInv
    <3> QED BY <3>1, <3>2, <3>3, Zenon DEF RecordIsTruthful, Truthful, Tells
  <2>4. AcknowledgementIsKept
    BY <2>1, Zenon DEF AcknowledgementIsKept, RecordIsTruthful, Truthful, Acknowledged
  <2>5. TimelineIsPath
    BY Zenon DEF HistoryInv, RefinementInv, PipelineInv
  <2> QED BY <2>2, <2>3, <2>4, <2>5, Zenon DEF HistoryIsTrue
<1> QED BY <1>1, HistoryInvariant, PTL
=============================================================================
