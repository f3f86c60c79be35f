----------------------- MODULE ScriptExecutionProofs -----------------------
(***************************************************************************)
(* Proofs about the execution of a script: nothing that reached the host   *)
(* and nothing a body awaited is missed, a success is truthful, and        *)
(* automation() fails fast.                                                *)
(***************************************************************************)
EXTENDS ScriptExecution, TLAPS

Live == phase \in {"script", "asking", "bodies", "drain"}
Returned == phase \in {"asking", "bodies", "drain", "recorded"}

\* The commands that have a result the collector is told of in time.
Answered == {r \in Calls \X Parts : r[1] \in Reached /\ call[r[1]].part[r[2]] \in Outcomes}

StageOneOver ==
    \/ \A b \in Bodies : body[b].tracked => Ended(b)
    \/ \E b \in Bodies : body[b].tracked /\ body[b].at = "thrown"
    \/ Killed

\* While it runs, the collector holds exactly the results there are.
CollectorInv ==
    /\ phase = "idle" => call = [c \in Calls |-> Unissued] /\ body = [b \in Bodies |-> Unborn]
    /\ phase # "recorded" => record = Unrecorded
    /\ Live => buffer.results = Answered
    /\ phase = "drain" => StageOneOver

\* What was recorded stays true though commands may still settle.
RecordInv ==
    phase = "recorded" =>
        /\ record.results \subseteq Answered
        /\ record.success => \A r \in record.results : call[r[1]].part[r[2]] = "ok"
        /\ record.cause = "drained" =>
              /\ \A c \in Reached : Settled(call[c])
              /\ record.results = {r \in Commands : r[1] \in Reached}
              /\ StageOneOver
              /\ record.success <=> \A c \in Reached : ~HasFailed(call[c])

\* Which body runs, and where the bodies are that await a call.
BodyInv ==
    /\ turn # NoBody => Live /\ body[turn].at = "running"
    /\ \A b \in Bodies : body[b].at = "unborn" => body[b] = Unborn
    /\ \A a, b \in Bodies : a < b /\ body[b] # Unborn => body[a] # Unborn

CallInv ==
    \A c \in Calls : call[c] # Unissued =>
        /\ call[c].by \in Bodies
        /\ body[call[c].by].at # "unborn"
        /\ call[c].awaited /\ ~call[c].known =>
              /\ body[call[c].by].at = "waiting"
              /\ body[call[c].by].started = call[c].callback
              /\ \A d \in Calls : call[d] # Unissued /\ call[d].awaited /\ ~call[d].known
                                    /\ call[d].by = call[c].by => d = c
        /\ call[c].known => Settled(call[c]) /\ Returned

\* What a call is, by where it is.
PlaceInv ==
    \A c \in Calls :
        /\ call[c].at = "unissued" => call[c] = Unissued
        /\ \A p \in Parts : call[c].part[p] = "sent" => call[c].at = "crossing"
        /\ call[c].at = "crossing" => \A p \in Parts : call[c].part[p] \in {"none", "sent"}
        /\ call[c].at = "late" => phase = "recorded"
        /\ call[c].known => call[c].at = "host"

Unreset(c) == call[c].preflight => \A a \in Bodies : a > call[c].by => ~body[a].tracked

\* The flag remembers every failure that the isolate knows of.
FlagInv ==
    Live => \A c \in Calls :
        /\ call[c].known /\ HasFailed(call[c]) /\ ~call[c].preflight => commandFailed
        /\ call[c].preflight /\ Unreset(c) => commandFailed

ScriptInv ==
    /\ TypeOK /\ CollectorInv /\ RecordInv /\ BodyInv
    /\ CallInv /\ PlaceInv /\ FlagInv /\ FailFast

-----------------------------------------------------------------------------
(* Types. *)

LEMMA BoundsAreNumbers ==
    /\ Bodies \subseteq Nat \ {0} /\ Calls \subseteq Nat \ {0} /\ Parts \subseteq Nat \ {0}
    /\ NoBody \notin Bodies /\ 1 \in Parts /\ Matches \subseteq Parts \cup {0}
BY ScriptAssumption DEF ScriptAssumption, Bodies, Calls, Parts, NoBody

LEMMA InitialTypes == Unissued \in CallType /\ Unborn \in BodyType /\ Unrecorded \in RecordType
BY BoundsAreNumbers, Zenon DEF Unissued, Unborn, Unrecorded, CallType, BodyType, RecordType

LEMMA UnissuedIsBlank ==
    /\ ~Unissued.known /\ ~Unissued.preflight /\ ~Unissued.awaited /\ Unissued.at = "unissued"
    /\ \A p \in Parts : Unissued.part[p] = "none"
BY Zenon DEF Unissued

LEMMA InitType == ASSUME Init PROVE TypeOK
<1>1. body \in [Bodies -> BodyType] BY InitialTypes, Zenon DEF Init
<1>2. call \in [Calls -> CallType] BY InitialTypes, Zenon DEF Init
<1>3. buffer \in BufferType /\ record \in RecordType BY InitialTypes, Zenon DEF Init, BufferType
<1> QED BY <1>1, <1>2, <1>3, Zenon DEF Init, TypeOK

LEMMA FinishType ==
    ASSUME NEW cause \in {"drained", "expired", "failed"}, NEW calls, NEW buf \in BufferType,
           Finish(cause, calls, buf)
    PROVE  /\ phase' = "recorded" /\ turn' = NoBody /\ snapshot' = {}
           /\ buffer' \in BufferType
           /\ record' \in RecordType
<1>1. Assemble(cause # "failed", calls, buf.results) \in BOOLEAN
  BY Zenon DEF Assemble
<1> QED BY <1>1, Zenon DEF Finish, BufferType, RecordType

LEMMA DrainType ==
    ASSUME TypeOK, NEW calls, NEW buf \in BufferType, DrainLoop(calls, buf)
    PROVE  /\ phase' \in {"drain", "recorded"}
           /\ turn' \in Bodies \cup {NoBody}
           /\ snapshot' \in SUBSET Calls
           /\ buffer' \in BufferType
           /\ record' \in RecordType
<1>1. CASE InFlight(calls) = {}
  <2>1. Finish("drained", calls, buf) BY <1>1, Zenon DEF DrainLoop
  <2> QED BY <2>1, FinishType, Zenon
<1>2. CASE InFlight(calls) # {}
  BY <1>2, Zenon DEF DrainLoop, TypeOK, InFlight
<1> QED BY <1>1, <1>2, Zenon

LEMMA PushType ==
    ASSUME NEW buf \in BufferType, NEW results \in SUBSET (Calls \X Parts)
    PROVE  Push(buf, results) \in BufferType
BY Zenon DEF Push, BufferType

LEMMA RanType ==
    ASSUME TypeOK, NEW b \in Bodies,
           NEW at \in {"running", "waiting", "elsewhere", "ready", "done", "broken", "thrown",
                       "killed"},
           Ran(b, at)
    PROVE  body' \in [Bodies -> BodyType] /\ turn' \in Bodies \cup {NoBody}
BY DEF TypeOK, Ran, BodyType

LEMMA SettleType ==
    ASSUME TypeOK, NEW c \in Calls, NEW p \in Parts, NEW outcome \in Outcomes,
           Settle(c, p, outcome)
    PROVE  TypeOK'
<1> DEFINE pushed == IF call[c].at = "untracked" THEN {} ELSE {<<c, p>>}
<1>1. call' \in [Calls -> CallType]
  BY Zenon DEF TypeOK, Settle, CallType
<1>2. pushed \in SUBSET (Calls \X Parts)
  OBVIOUS
<1>3. Push(buffer, pushed) \in BufferType
  BY <1>2, PushType, Zenon DEF TypeOK
<1>4. CASE phase = "drain" /\ snapshot \cap InFlight(call') = {}
  <2>1. DrainLoop(call', Push(buffer, pushed)) BY <1>4, Zenon DEF Settle
  <2> QED BY <1>1, <1>3, <2>1, DrainType, Zenon DEF TypeOK, Settle
<1>5. CASE ~(phase = "drain" /\ snapshot \cap InFlight(call') = {})
  BY <1>1, <1>3, <1>5, Zenon DEF TypeOK, Settle
<1> QED BY <1>4, <1>5, Zenon

LEMMA ArriveType ==
    ASSUME TypeOK, NEW c \in Calls, NEW refused \in BOOLEAN, Arrive(c, refused)
    PROVE  TypeOK'
<1>1. call' \in [Calls -> CallType]
  <2> DEFINE at == IF phase = "recorded" THEN "late" ELSE "host"
             part == [p \in Parts |-> CASE call[c].part[p] = "none" -> "none"
                                        [] ~refused -> "pending"
                                        [] OTHER -> IF p = 1 THEN "failed" ELSE "none"]
             new == [call[c] EXCEPT !.at = at, !.part = part]
  <2>1. call' = [call EXCEPT ![c] = new] BY Zenon DEF Arrive
  <2>2. part \in [Parts -> {"none", "sent", "pending"} \cup Outcomes] BY Zenon DEF Outcomes
  <2>3. at \in {"late", "host"} BY Zenon
  <2> HIDE DEF at, part
  <2>4. new \in CallType BY <2>2, <2>3, Zenon DEF TypeOK, CallType
  <2> QED BY <2>1, <2>4, Zenon DEF TypeOK
<1>2. buffer' \in BufferType
  <2>1. {<<c, 1>>} \in SUBSET (Calls \X Parts) BY BoundsAreNumbers
  <2> QED BY <2>1, PushType, Zenon DEF TypeOK, Arrive
<1> QED BY <1>1, <1>2, Zenon DEF TypeOK, Arrive

\* A call that is made: how it is noted, and what becomes of its body.
Made(b, c, k) ==
    /\ turn = b /\ call[c] = Unissued
    /\ call' = [call EXCEPT ![c] = k]
    /\ k.by = b /\ k.callback = body[b].started /\ ~k.known
    /\ \/ k.at = "crossing" /\ \A p \in Parts : k.part[p] \in {"none", "sent"}
       \/ k.at = "untracked" /\ ~k.awaited /\ \A p \in Parts : k.part[p] \in {"none", "pending"}
    /\ commandFailed' = (commandFailed \/ k.preflight)
    /\ IF k.awaited THEN Ran(b, "waiting") ELSE UNCHANGED <<body, turn>>
    /\ UNCHANGED <<phase, snapshot, buffer, record>>

LEMMA IssueMakes ==
    ASSUME TypeOK, NEW b \in Bodies, NEW c \in Calls, NEW n \in Nat, NEW awaited \in BOOLEAN,
           NEW preflight \in BOOLEAN, Issue(b, c, n, awaited, preflight)
    PROVE  \E k \in CallType : Made(b, c, k)
<1> DEFINE k == [by |-> b, callback |-> body[b].started, awaited |-> awaited,
                 preflight |-> preflight, at |-> "crossing", known |-> FALSE,
                 part |-> [p \in Parts |-> IF p <= n THEN "sent" ELSE "none"]]
<1>1. k \in CallType BY Zenon DEF TypeOK, BodyType, CallType
<1>2. Made(b, c, k) BY Zenon DEF Issue, Calling, Made
<1> QED BY <1>1, <1>2, Zenon

LEMMA PublishMakes ==
    ASSUME TypeOK, NEW b \in Bodies, NEW c \in Calls, Publish(b, c)
    PROVE  \E k \in CallType : Made(b, c, k)
<1> DEFINE k == [by |-> b, callback |-> body[b].started, awaited |-> FALSE,
                 preflight |-> FALSE, at |-> "untracked", known |-> FALSE,
                 part |-> [p \in Parts |-> IF p = 1 THEN "pending" ELSE "none"]]
<1>1. k \in CallType BY Zenon DEF TypeOK, BodyType, CallType
<1>2. Made(b, c, k) BY Zenon DEF TypeOK, Publish, Calling, Made
<1> QED BY <1>1, <1>2, Zenon

\* All the ways in which a body makes a call.
LEMMA CallMakes ==
    ASSUME TypeOK, NEW b \in Bodies, NEW c \in Calls,
           Publish(b, c) \/ \E awaited \in BOOLEAN : Issues(b, c, awaited)
    PROVE  \E k \in CallType : Made(b, c, k)
<1>1. CASE Publish(b, c) BY <1>1, PublishMakes, Zenon
<1>2. ASSUME NEW awaited \in BOOLEAN, Issues(b, c, awaited) PROVE \E k \in CallType : Made(b, c, k)
  <2>1. PICK n \in Nat, preflight \in BOOLEAN : Issue(b, c, n, awaited, preflight)
    <3>1. Matches \subseteq Nat /\ 1 \in Nat BY ScriptAssumption DEF ScriptAssumption
    <3> QED BY <1>2, <3>1, Zenon DEF Issues, Action, ActionAll, ActionAllThrew
  <2> QED BY <2>1, IssueMakes, Zenon
<1> QED BY <1>1, <1>2, Zenon

LEMMA MadeType ==
    ASSUME TypeOK, NEW b \in Bodies, NEW c \in Calls, NEW k \in CallType, Made(b, c, k)
    PROVE  TypeOK'
<1>1. call' \in [Calls -> CallType] BY Zenon DEF TypeOK, Made
<1>2. commandFailed' \in BOOLEAN BY Zenon DEF TypeOK, Made, CallType
<1>3. CASE k.awaited
  <2>1. Ran(b, "waiting") BY <1>3, Zenon DEF Made
  <2> QED BY <1>1, <1>2, <2>1, RanType, Zenon DEF TypeOK, Made
<1>4. CASE ~k.awaited
  BY <1>1, <1>2, <1>4, Zenon DEF TypeOK, Made
<1> QED BY <1>3, <1>4, Zenon

LEMMA LearnType == ASSUME TypeOK, CallInv, PlaceInv, NEW c \in Calls, Learn(c) PROVE TypeOK'
<1>1. call' \in [Calls -> CallType]
  <2>1. [call[c] EXCEPT !.known = TRUE] \in CallType BY DEF TypeOK, CallType
  <2> QED BY <2>1, Zenon DEF TypeOK, Learn
<1>2. call[c].by \in Bodies BY UnissuedIsBlank, Zenon DEF Learn, CallInv
<1>3. commandFailed' \in BOOLEAN BY Zenon DEF TypeOK, Learn
<1>4. CASE call[c].awaited
  <2>1. Ran(call[c].by, "running") BY <1>4, Zenon DEF Learn
  <2> QED BY <1>1, <1>2, <1>3, <2>1, RanType, Zenon DEF TypeOK, Learn
<1>5. CASE ~call[c].awaited
  BY <1>1, <1>3, <1>5, Zenon DEF TypeOK, Learn
<1> QED BY <1>4, <1>5, Zenon

LEMMA LoopType == ASSUME TypeOK, NEW b \in Bodies, Loop(b) PROVE TypeOK'
<1>1. CASE \E at \in {"done", "broken"} : Ran(b, at)
  BY <1>1, RanType, Zenon DEF TypeOK, Loop
<1>2. CASE /\ body[b].started < Callbacks[b]
           /\ body' = [body EXCEPT ![b] =
                 [body[b] EXCEPT !.at = "running", !.started = body[b].started + 1]]
           /\ turn' = b
  <2>1. body[b].started + 1 \in Nat BY DEF TypeOK, BodyType
  <2> QED BY <1>2, <2>1, Zenon DEF TypeOK, Loop, BodyType
<1> QED BY <1>1, <1>2, Zenon DEF Loop, Advances

LEMMA StartType == ASSUME TypeOK, NEW b \in Bodies, NEW continues \in BOOLEAN,
                          NEW holds \in BOOLEAN, Automation(b, continues, holds)
                   PROVE TypeOK'
BY BoundsAreNumbers, Zenon DEF TypeOK, Automation, BodyType

LEMMA TypeStep == ASSUME TypeOK, CallInv, PlaceInv, Next PROVE TypeOK'
<1>1. ASSUME Fire \/ ScriptReturns \/ ReferenceArrives PROVE TypeOK'
  <2>1. [open |-> TRUE, results |-> {}] \in BufferType BY Zenon DEF BufferType
  <2> QED BY <1>1, <2>1, Zenon DEF Fire, ScriptReturns, ReferenceArrives, TypeOK
<1>2. ASSUME Unavailable \/ ScriptFails \/ ReferenceFails \/ BudgetExpires PROVE TypeOK'
  <2>1. PICK cause \in {"expired", "failed"}, buf \in BufferType :
            Finish(cause, call, buf)
    BY <1>2, Zenon DEF Unavailable, ScriptFails, ReferenceFails, BudgetExpires, TypeOK, BufferType
  <2>2. UNCHANGED <<body, call, commandFailed>>
    BY <1>2, Zenon DEF Unavailable, ScriptFails, ReferenceFails, BudgetExpires
  <2> QED BY <2>1, <2>2, FinishType DEF TypeOK
<1>3. ASSUME StageOneEnds PROVE TypeOK'
  BY <1>3, DrainType, Zenon DEF StageOneEnds, TypeOK
<1>4. ASSUME NEW b \in Bodies, Untracked(b) \/ AwaitOther(b) \/ OtherSettles(b)
                                 \/ Returns(b) \/ Throws(b) \/ OutOfMemory(b)
      PROVE  TypeOK'
  <2>1. PICK at \in {"running", "elsewhere", "ready", "done", "thrown", "killed"} : Ran(b, at)
    BY <1>4, Zenon DEF Untracked, AwaitOther, OtherSettles, Returns, Throws, OutOfMemory
  <2>2. UNCHANGED <<phase, call, commandFailed, snapshot, buffer, record>>
    BY <1>4, Zenon DEF Untracked, AwaitOther, OtherSettles, Returns, Throws, OutOfMemory
  <2> QED BY <2>1, <2>2, RanType, Zenon DEF TypeOK
<1>5. ASSUME NEW b \in Bodies, NEW c \in Calls,
             Publish(b, c) \/ \E awaited \in BOOLEAN : Issues(b, c, awaited)
      PROVE  TypeOK'
  BY <1>5, CallMakes, MadeType, Zenon
<1> QED BY <1>1, <1>2, <1>3, <1>4, <1>5, SettleType, ArriveType, LearnType, LoopType, StartType, Zenon
        DEF Next, Host, Isolate

-----------------------------------------------------------------------------
(* The collector and the record. *)

LEMMA InFlightEmpty ==
    ASSUME NEW calls, InFlight(calls) = {}
    PROVE  \A c \in Calls : calls[c].at = "host" => Settled(calls[c])
BY Zenon DEF InFlight

\* What Finish() records is true of the calls it is given.
LEMMA FinishRecords ==
    ASSUME TypeOK, TypeOK', PlaceInv',
           NEW cause \in {"drained", "expired", "failed"}, NEW buf \in BufferType,
           buf.results = Answered', Finish(cause, call', buf),
           cause = "drained" => InFlight(call') = {} /\ StageOneOver'
    PROVE  CollectorInv' /\ RecordInv'
<1>1. CollectorInv'
  BY Zenon DEF Finish, CollectorInv, Live
<1>2. record'.results = Answered' /\ record'.cause = cause
  BY Zenon DEF Finish
<1>3. record'.success <=> cause # "failed" /\ \A r \in Answered' : call'[r[1]].part[r[2]] = "ok"
  BY Zenon DEF Finish, Assemble
<1>4. ASSUME cause = "drained"
      PROVE  /\ \A c \in Reached' : Settled(call'[c])
             /\ Answered' = {r \in Commands' : r[1] \in Reached'}
             /\ StageOneOver'
             /\ record'.success <=> \A c \in Reached' : ~HasFailed(call'[c])
  <2>1. \A c \in Reached' : c \in Calls /\ Settled(call'[c])
    BY <1>4, InFlightEmpty, Zenon DEF Reached
  <2>2. ASSUME NEW c \in Reached', NEW p \in Parts
        PROVE  call'[c].part[p] \in {"none", "ok", "failed"}
    <3>1. c \in Calls /\ call'[c].at = "host" /\ call'[c].part[p] # "pending"
      BY <2>1, <2>2, Zenon DEF Reached, Settled, PartsIn
    <3>2. call'[c].part[p] # "sent" BY <3>1, Zenon DEF PlaceInv
    <3> QED BY <3>1, <3>2 DEF TypeOK, CallType, Outcomes
  <2>3. Answered' = {r \in Commands' : r[1] \in Reached'}
    BY <2>2 DEF Answered, Commands, Outcomes
  <2>4. (\A r \in Answered' : call'[r[1]].part[r[2]] = "ok")
           <=> \A c \in Reached' : ~HasFailed(call'[c])
    <3>1. ASSUME \A r \in Answered' : call'[r[1]].part[r[2]] = "ok", NEW c \in Reached',
                 HasFailed(call'[c])
          PROVE  FALSE
      <4>1. PICK p \in Parts : call'[c].part[p] = "failed" BY <3>1, Zenon DEF HasFailed, PartsIn
      <4>2. <<c, p>> \in Answered' BY <2>1, <4>1, Zenon DEF Answered, Outcomes
      <4> QED BY <3>1, <4>1, <4>2, Zenon
    <3>2. ASSUME \A c \in Reached' : ~HasFailed(call'[c]), NEW r \in Answered'
          PROVE  call'[r[1]].part[r[2]] = "ok"
      BY <3>2, Zenon DEF Answered, HasFailed, PartsIn, Outcomes
    <3> QED BY <3>1, <3>2, Zenon
  <2> QED BY <1>3, <1>4, <2>1, <2>3, <2>4, Zenon
<1>5. RecordInv'
  BY <1>2, <1>3, <1>4, Zenon DEF RecordInv
<1> QED BY <1>1, <1>5, Zenon

\* The same for a drain that may go on.
LEMMA DrainRecords ==
    ASSUME TypeOK, TypeOK', PlaceInv', CollectorInv, phase # "recorded", NEW buf \in BufferType,
           buf.results = Answered', DrainLoop(call', buf), StageOneOver'
    PROVE  CollectorInv' /\ RecordInv'
<1>1. CASE InFlight(call') = {}
  <2>1. Finish("drained", call', buf) BY <1>1, Zenon DEF DrainLoop
  <2> QED BY <1>1, <2>1, FinishRecords, Zenon
<1>2. CASE InFlight(call') # {}
  BY <1>2, Zenon DEF DrainLoop, CollectorInv, RecordInv, Live
<1> QED BY <1>1, <1>2, Zenon

\* The results the host takes of the calls it has may only grow.
LEMMA RecordStays ==
    ASSUME RecordInv, phase = "recorded", UNCHANGED <<phase, body, record>>,
           Reached' = Reached,
           \A c \in Reached : \A p \in Parts :
               \/ call'[c].part[p] = call[c].part[p]
               \/ call[c].part[p] = "pending" /\ call'[c].part[p] \in Outcomes
    PROVE  RecordInv'
<1>1. record.results \subseteq Answered BY Zenon DEF RecordInv
<1>2. ASSUME NEW r \in Answered
      PROVE  r \in Answered' /\ call'[r[1]].part[r[2]] = call[r[1]].part[r[2]]
  <2>1. r[1] \in Reached /\ r[2] \in Parts /\ call[r[1]].part[r[2]] \in Outcomes
    BY <1>2, Zenon DEF Answered
  <2>2. call'[r[1]].part[r[2]] = call[r[1]].part[r[2]] BY <2>1, Zenon DEF Outcomes
  <2> QED BY <1>2, <2>1, <2>2, Zenon DEF Answered
<1>3. ASSUME record.cause = "drained"
      PROVE  /\ \A c \in Reached' : Settled(call'[c])
             /\ record.results = {r \in Commands' : r[1] \in Reached'}
             /\ StageOneOver'
             /\ record.success <=> \A c \in Reached' : ~HasFailed(call'[c])
  <2>1. /\ \A c \in Reached : Settled(call[c])
        /\ record.results = {r \in Commands : r[1] \in Reached}
        /\ StageOneOver
        /\ record.success <=> \A c \in Reached : ~HasFailed(call[c])
    BY <1>3, Zenon DEF RecordInv
  <2>2. \A c \in Reached : \A p \in Parts : call'[c].part[p] = call[c].part[p]
    BY <2>1, Zenon DEF Settled, PartsIn
  <2>3. \A c \in Reached : /\ Settled(call'[c]) <=> Settled(call[c])
                           /\ HasFailed(call'[c]) <=> HasFailed(call[c])
    BY <2>2 DEF Settled, HasFailed, PartsIn
  <2>4. {r \in Commands' : r[1] \in Reached'} = {r \in Commands : r[1] \in Reached}
    BY <2>2 DEF Commands
  <2>5. StageOneOver' BY <2>1, Zenon DEF StageOneOver, Ended, Killed
  <2> QED BY <2>1, <2>3, <2>4, <2>5, Zenon
<1>4. record.success => \A r \in record.results : call'[r[1]].part[r[2]] = "ok"
  BY <1>1, <1>2, Zenon DEF RecordInv
<1> QED BY <1>1, <1>2, <1>3, <1>4, Zenon DEF RecordInv

\* What stays of the bodies and their calls when the host alone moves, and the calls it
\* does not complete are those the isolate does not know of.
LEMMA HostKeeps ==
    ASSUME ScriptInv, UNCHANGED <<body, commandFailed>>,
           \A d \in Calls : /\ call'[d].by = call[d].by /\ call'[d].callback = call[d].callback
                            /\ call'[d].awaited = call[d].awaited
                            /\ call'[d].preflight = call[d].preflight
                            /\ call'[d].known = call[d].known,
           \A d \in Calls : call'[d] = call[d] \/ (call[d] # Unissued /\ ~call[d].known),
           turn' = NoBody \/ (turn' = turn /\ (Live => Live')),
           Returned => Returned', Live' => Live
    PROVE  BodyInv' /\ CallInv' /\ FlagInv' /\ FailFast'
<1> USE DEF ScriptInv
<1>1. BodyInv' BY Zenon DEF BodyInv
<1>2. \A d \in Calls : call[d].known => call'[d] = call[d] BY Zenon
<1>3. \A d \in Calls : call[d] # Unissued => call[d].by \in Bodies BY Zenon DEF CallInv
<1>4. \A d \in Calls : call'[d] # Unissued => call[d] # Unissued BY Zenon
<1>5. CallInv' BY <1>2, <1>4 DEF CallInv
<1>6. \A d \in Calls : Unreset(d)' <=> Unreset(d) BY Zenon DEF Unreset
<1>7. FlagInv' BY <1>2, <1>6, Zenon DEF FlagInv
<1>8. FailFast'
  <2>1. SUFFICES ASSUME NEW d \in Calls, Unreset(d)' PROVE StoppedAfter(d)'
    BY Zenon DEF FailFast, Unreset
  <2>2. StoppedAfter(d) BY <1>6, <2>1, Zenon DEF FailFast, Unreset
  <2>3. CASE call'[d] = call[d] BY <2>2, <2>3 DEF StoppedAfter
  <2>4. CASE call[d] # Unissued /\ ~call[d].known BY <2>4 DEF StoppedAfter, CallInv
  <2> QED BY <2>3, <2>4, Zenon
<1> QED BY <1>1, <1>5, <1>7, <1>8, Zenon

LEMMA SettleStep ==
    ASSUME ScriptInv, NEW c \in Calls, NEW p \in Parts, NEW outcome \in Outcomes,
           Settle(c, p, outcome)
    PROVE  ScriptInv'
<1> USE DEF ScriptInv
<1> DEFINE pushed == IF call[c].at = "untracked" THEN {} ELSE {<<c, p>>}
<1>1. TypeOK' BY SettleType, Zenon
<1>2. /\ call[c].part[p] = "pending" /\ call[c] # Unissued /\ ~Settled(call[c])
      /\ ~call[c].known /\ call[c].at \in {"host", "late", "untracked"}
  <2>1. call[c].part[p] = "pending" BY Zenon DEF Settle
  <2>2. call[c] # Unissued BY <2>1, UnissuedIsBlank, Zenon
  <2>3. ~Settled(call[c]) BY <2>1, Zenon DEF Settled, PartsIn
  <2>4. ~call[c].known BY <2>2, <2>3, Zenon DEF CallInv
  <2>5. call[c].at \in {"host", "late", "untracked"}
    BY <2>1, <2>2, Zenon DEF TypeOK, CallType, PlaceInv
  <2> QED BY <2>1, <2>2, <2>3, <2>4, <2>5, Zenon
<1>3. /\ UNCHANGED <<body, commandFailed>>
      /\ \A d \in Calls : /\ call'[d].by = call[d].by /\ call'[d].callback = call[d].callback
                          /\ call'[d].awaited = call[d].awaited
                          /\ call'[d].preflight = call[d].preflight
                          /\ call'[d].known = call[d].known
                          /\ call'[d].at = call[d].at
      /\ \A d \in Calls : d # c => call'[d] = call[d]
      /\ \A d \in Calls, q \in Parts :
            call'[d].part[q] = IF d = c /\ q = p THEN outcome ELSE call[d].part[q]
  BY DEF Settle, TypeOK, CallType
<1>4. Reached' = Reached BY <1>3, Zenon DEF Reached
<1>5. Live => Answered' = Answered \cup pushed
  <2>1. SUFFICES ASSUME Live PROVE Answered' = Answered \cup pushed BY Zenon
  <2>2. call[c].at \in {"host", "untracked"} BY <1>2, <2>1, Zenon DEF PlaceInv, Live
  <2>3. CASE call[c].at = "host"
    BY <1>3, <1>4, <2>3 DEF Answered, Reached, Outcomes
  <2>4. CASE call[c].at = "untracked"
    <3>1. c \notin Reached BY <2>4, Zenon DEF Reached
    <3> QED BY <1>3, <1>4, <2>4, <3>1 DEF Answered
  <2> QED BY <2>2, <2>3, <2>4, Zenon
<1>6. Push(buffer, pushed) \in BufferType /\ Push(buffer, pushed).results = buffer.results \cup pushed
  <2>1. pushed \in SUBSET (Calls \X Parts) OBVIOUS
  <2>2. Push(buffer, pushed) \in BufferType BY <2>1, PushType, Zenon DEF TypeOK
  <2>3. Push(buffer, pushed).results = buffer.results \cup pushed BY Zenon DEF Push
  <2> QED BY <2>2, <2>3, Zenon
<1>7. phase # "idle"
  BY <1>2, Zenon DEF CollectorInv
<1>8. StageOneOver' <=> StageOneOver
  BY <1>3, Zenon DEF StageOneOver, Ended, Killed
<1>9. /\ turn' = NoBody \/ (turn' = turn /\ (Live => Live'))
      /\ Returned => Returned'
      /\ Live' => Live
      /\ phase = "recorded" => phase' = "recorded"
  <2>1. CASE phase = "drain" /\ snapshot \cap InFlight(call') = {}
    BY <2>1, Zenon DEF Settle, DrainLoop, Finish, Live, Returned
  <2>2. CASE ~(phase = "drain" /\ snapshot \cap InFlight(call') = {})
    BY <2>2, Zenon DEF Settle, Live, Returned
  <2> QED BY <2>1, <2>2, Zenon
<1>10. PlaceInv'
  <2>1. SUFFICES ASSUME NEW d \in Calls
        PROVE /\ call'[d].at = "unissued" => call'[d] = Unissued
              /\ \A q \in Parts : call'[d].part[q] = "sent" => call'[d].at = "crossing"
              /\ call'[d].at = "crossing" => \A q \in Parts : call'[d].part[q] \in {"none", "sent"}
              /\ call'[d].at = "late" => phase' = "recorded"
              /\ call'[d].known => call'[d].at = "host"
    BY Zenon DEF PlaceInv
  <2>2. CASE d # c BY <1>3, <1>9, <2>2 DEF PlaceInv
  <2>3. CASE d = c BY <1>2, <1>3, <1>9, <2>3 DEF PlaceInv, Outcomes
  <2> QED BY <2>2, <2>3, Zenon
<1>11. ASSUME phase = "drain" /\ snapshot \cap InFlight(call') = {}
       PROVE  CollectorInv' /\ RecordInv'
  <2>1. DrainLoop(call', Push(buffer, pushed)) BY <1>11, Zenon DEF Settle
  <2>2. StageOneOver' BY <1>8, <1>11, Zenon DEF CollectorInv
  <2>3. Push(buffer, pushed).results = Answered'
    BY <1>5, <1>6, <1>11, Zenon DEF CollectorInv, Live
  <2> HIDE DEF pushed
  <2> QED BY <1>1, <1>6, <1>10, <1>11, <2>1, <2>2, <2>3, DrainRecords, Zenon
<1>12. ASSUME ~(phase = "drain" /\ snapshot \cap InFlight(call') = {})
       PROVE  CollectorInv' /\ RecordInv'
  <2>1. buffer' = Push(buffer, pushed) /\ UNCHANGED <<phase, turn, snapshot, record>>
    BY <1>12, Zenon DEF Settle
  <2>2. CollectorInv'
    <3> HIDE DEF pushed
    <3> QED BY <1>5, <1>6, <1>7, <1>8, <2>1, Zenon DEF CollectorInv, Live
  <2>3. RecordInv'
    <3>1. CASE phase = "recorded" BY <1>2, <1>3, <1>4, <2>1, <3>1, RecordStays, Zenon DEF Reached
    <3>2. CASE phase # "recorded" BY <2>1, <3>2, Zenon DEF RecordInv
    <3> QED BY <3>1, <3>2, Zenon
  <2> QED BY <2>2, <2>3, Zenon
<1>13. \A d \in Calls : call'[d] = call[d] \/ (call[d] # Unissued /\ ~call[d].known)
  BY <1>2, <1>3, Zenon
<1>14. BodyInv' /\ CallInv' /\ FlagInv' /\ FailFast'
  BY <1>3, <1>9, <1>13, HostKeeps, Zenon
<1> QED BY <1>1, <1>10, <1>11, <1>12, <1>14, Zenon

LEMMA ArriveStep ==
    ASSUME ScriptInv, NEW c \in Calls, NEW refused \in BOOLEAN, Arrive(c, refused)
    PROVE  ScriptInv'
<1> USE DEF ScriptInv
<1>1. TypeOK' BY ArriveType, Zenon
<1>2. /\ call[c].at = "crossing" /\ call[c] # Unissued /\ ~call[c].known
      /\ \A p \in Parts : call[c].part[p] \in {"none", "sent"}
      /\ UNCHANGED <<phase, turn, body, commandFailed, snapshot, record>>
  BY UnissuedIsBlank, Zenon DEF Arrive, PlaceInv
<1>3. /\ \A d \in Calls : /\ call'[d].by = call[d].by /\ call'[d].callback = call[d].callback
                          /\ call'[d].awaited = call[d].awaited
                          /\ call'[d].preflight = call[d].preflight
                          /\ call'[d].known = call[d].known
      /\ \A d \in Calls : d # c => call'[d] = call[d]
      /\ call'[c].at = (IF phase = "recorded" THEN "late" ELSE "host")
      /\ refused => call'[c].part[1] = "failed"
      /\ refused => \A p \in Parts : p # 1 => call'[c].part[p] = "none"
      /\ ~refused => \A p \in Parts : call'[c].part[p] \in {"none", "pending"}
  BY <1>2, BoundsAreNumbers DEF Arrive, TypeOK, CallType
<1>4. phase # "idle"
  BY <1>2, Zenon DEF CollectorInv
<1>5. Live => buffer'.results = Answered'
  <2>1. SUFFICES ASSUME Live PROVE buffer'.results = Answered' BY Zenon
  <2>2. Reached' = Reached \cup {c} /\ c \notin Reached
    BY <1>2, <1>3, <2>1 DEF Reached, Live
  <2>3. buffer.results = Answered /\ \A p \in Parts : <<c, p>> \notin Answered
    BY <2>1, <2>2, Zenon DEF CollectorInv, Answered
  <2>4. CASE ~refused
    <3>1. Answered' = Answered BY <1>3, <2>2, <2>4 DEF Answered, Outcomes, Reached
    <3>2. buffer' = buffer BY <2>4, Zenon DEF Arrive
    <3> QED BY <2>3, <3>1, <3>2, Zenon
  <2>5. CASE refused
    <3>1. Answered' = Answered \cup {<<c, 1>>}
      <4>1. ASSUME NEW d \in Calls, NEW p \in Parts
            PROVE  <<d, p>> \in Answered' <=> <<d, p>> \in Answered \/ (d = c /\ p = 1)
        <5>1. CASE d # c BY <1>3, <2>2, <5>1, Zenon DEF Answered
        <5>2. CASE d = c BY <1>3, <2>2, <2>3, <2>5, <5>2, Zenon DEF Answered, Outcomes
        <5> QED BY <5>1, <5>2, Zenon
      <4>2. Answered' \subseteq Calls \X Parts /\ Answered \subseteq Calls \X Parts
        BY Zenon DEF Answered
      <4>3. <<c, 1>> \in Calls \X Parts BY BoundsAreNumbers, Zenon
      <4> QED BY <4>1, <4>2, <4>3
    <3>2. buffer' = Push(buffer, {<<c, 1>>}) BY <2>5, Zenon DEF Arrive
    <3>3. buffer'.results = buffer.results \cup {<<c, 1>>} BY <3>2, Zenon DEF Push
    <3> QED BY <2>3, <3>1, <3>3, Zenon
  <2> QED BY <2>4, <2>5, Zenon
<1>6. StageOneOver' <=> StageOneOver BY <1>2, Zenon DEF StageOneOver, Ended, Killed
<1>7. CollectorInv' BY <1>2, <1>4, <1>5, <1>6, Zenon DEF CollectorInv, Live
<1>8. RecordInv'
  <2>1. CASE phase = "recorded"
    <3>1. Reached' = Reached BY <1>2, <1>3, <2>1 DEF Reached
    <3>2. \A d \in Reached : call'[d] = call[d] BY <1>2, <1>3, Zenon DEF Reached
    <3> QED BY <1>2, <2>1, <3>1, <3>2, RecordStays, Zenon
  <2>2. CASE phase # "recorded" BY <1>2, <2>2, Zenon DEF RecordInv
  <2> QED BY <2>1, <2>2, Zenon
<1>9. PlaceInv'
  <2>1. SUFFICES ASSUME NEW d \in Calls
        PROVE /\ call'[d].at = "unissued" => call'[d] = Unissued
              /\ \A q \in Parts : call'[d].part[q] = "sent" => call'[d].at = "crossing"
              /\ call'[d].at = "crossing" => \A q \in Parts : call'[d].part[q] \in {"none", "sent"}
              /\ call'[d].at = "late" => phase' = "recorded"
              /\ call'[d].known => call'[d].at = "host"
    BY Zenon DEF PlaceInv
  <2>2. CASE d # c BY <1>2, <1>3, <2>2 DEF PlaceInv
  <2>3. CASE d = c BY <1>2, <1>3, <2>3, Zenon
  <2> QED BY <2>2, <2>3, Zenon
<1>10. \A d \in Calls : call'[d] = call[d] \/ (call[d] # Unissued /\ ~call[d].known)
  BY <1>2, <1>3, Zenon
<1>11. BodyInv' /\ CallInv' /\ FlagInv' /\ FailFast'
  BY <1>2, <1>3, <1>10, HostKeeps, Zenon DEF Live, Returned
<1> QED BY <1>1, <1>7, <1>8, <1>9, <1>11, Zenon

-----------------------------------------------------------------------------
(* The steps of the host that leave calls and bodies alone. *)

LEMMA PhaseStep ==
    ASSUME ScriptInv, TypeOK', UNCHANGED <<body, call, commandFailed>>,
           CollectorInv' /\ RecordInv',
           turn' = NoBody \/ (turn' = turn /\ Live'),
           Returned => Returned', phase = "recorded" => phase' = "recorded",
           Live' => Live \/ call = [c \in Calls |-> Unissued]
    PROVE  ScriptInv'
<1> USE DEF ScriptInv
<1>1. BodyInv' BY Zenon DEF BodyInv
<1>2. CallInv' BY Zenon DEF CallInv
<1>3. \A c \in Calls : Unreset(c)' <=> Unreset(c) BY Zenon DEF Unreset
<1>4. FlagInv'
  <2>1. CASE Live BY <1>3, <2>1, Zenon DEF FlagInv
  <2>2. CASE call = [c \in Calls |-> Unissued] BY <2>2, Zenon DEF FlagInv, Unissued
  <2> QED BY <2>1, <2>2, Zenon DEF FlagInv
<1>5. FailFast' BY Zenon DEF FailFast, StoppedAfter
<1>6. PlaceInv' BY Zenon DEF PlaceInv
<1> QED BY <1>1, <1>2, <1>4, <1>5, <1>6, Zenon

LEMMA NothingAnswered ==
    ASSUME call = [c \in Calls |-> Unissued] PROVE Answered = {}
BY Zenon DEF Answered, Reached, Unissued

LEMMA HostStep ==
    ASSUME ScriptInv, TypeOK',
           \/ Fire \/ ScriptReturns \/ ReferenceArrives
           \/ Unavailable \/ ScriptFails \/ ReferenceFails \/ BudgetExpires
           \/ StageOneEnds
    PROVE  ScriptInv'
<1> USE DEF ScriptInv
<1>1. CASE Fire
  <2>1. call = [c \in Calls |-> Unissued] /\ turn' = turn /\ Live'
    BY <1>1, Zenon DEF Fire, CollectorInv, Live
  <2>2. Answered' = {} BY <1>1, <2>1, NothingAnswered, Zenon DEF Fire, Answered, Reached
  <2>3. CollectorInv' /\ RecordInv'
    BY <1>1, <2>2, Zenon DEF Fire, CollectorInv, RecordInv, Live
  <2> QED BY <1>1, <2>1, <2>3, PhaseStep, Zenon DEF Fire, Returned
<1>2. CASE ScriptReturns \/ ReferenceArrives
  <2>1. CollectorInv' /\ RecordInv'
    BY <1>2 DEF ScriptReturns, ReferenceArrives, CollectorInv, RecordInv, Live, Answered, Reached
  <2> QED BY <1>2, <2>1, PhaseStep, Zenon DEF ScriptReturns, ReferenceArrives, Live, Returned
<1>3. CASE Unavailable \/ ScriptFails \/ ReferenceFails \/ BudgetExpires
  <2>1. UNCHANGED <<body, call, commandFailed>>
    BY <1>3, Zenon DEF Unavailable, ScriptFails, ReferenceFails, BudgetExpires
  <2>2. PICK cause \in {"expired", "failed"}, buf \in BufferType :
            Finish(cause, call, buf) /\ buf.results = Answered
    <3>1. CASE Unavailable
      <4>1. Answered = {} BY <3>1, NothingAnswered, Zenon DEF Unavailable, CollectorInv
      <4>2. [open |-> TRUE, results |-> {}] \in BufferType BY Zenon DEF BufferType
      <4> QED BY <3>1, <4>1, <4>2, Zenon DEF Unavailable
    <3>2. CASE ScriptFails \/ ReferenceFails \/ BudgetExpires
      BY <3>2, Zenon DEF ScriptFails, ReferenceFails, BudgetExpires, CollectorInv, Live, TypeOK
    <3> QED BY <1>3, <3>1, <3>2, Zenon
  <2>3. Finish(cause, call', buf) /\ buf.results = Answered'
    BY <2>1, <2>2, Zenon DEF Finish, Assemble, Answered, Reached
  <2>4. phase' = "recorded" /\ turn' = NoBody BY <2>2, Zenon DEF Finish
  <2>5. PlaceInv' BY <2>1, <2>4, Zenon DEF PlaceInv
  <2>6. CollectorInv' /\ RecordInv' BY <2>3, <2>5, FinishRecords, Zenon
  <2> QED BY <2>1, <2>4, <2>6, PhaseStep, Zenon DEF Live, Returned
<1>4. CASE StageOneEnds
  <2>1. UNCHANGED <<body, call, commandFailed>> BY <1>4, Zenon DEF StageOneEnds
  <2>2. StageOneOver' BY <1>4, <2>1, Zenon DEF StageOneEnds, StageOneOver, Ended, Killed
  <2>3. DrainLoop(call', buffer) /\ buffer.results = Answered'
    BY <1>4, <2>1
       DEF StageOneEnds, DrainLoop, Finish, Assemble, InFlight, CollectorInv, Live, Answered, Reached
  <2>4. /\ phase' \in {"drain", "recorded"} /\ phase = "bodies"
        /\ turn' = NoBody \/ (turn' = turn /\ phase' = "drain")
    BY <1>4, Zenon DEF StageOneEnds, DrainLoop, Finish
  <2>5. PlaceInv' BY <2>1, <2>4, Zenon DEF PlaceInv
  <2>6. CollectorInv' /\ RecordInv'
    BY <1>4, <2>2, <2>3, <2>5, DrainRecords, Zenon DEF StageOneEnds, TypeOK
  <2> QED BY <2>1, <2>4, <2>6, PhaseStep, Zenon DEF Live, Returned
<1> QED BY <1>1, <1>2, <1>3, <1>4, Zenon

-----------------------------------------------------------------------------
(* The steps of a body. *)

\* Nothing the collector or the record holds changes with the bodies alone.
LEMMA QuietCollector ==
    ASSUME ScriptInv, Live, UNCHANGED <<phase, buffer, record>>, Answered' = Answered,
           phase = "drain" => StageOneOver'
    PROVE  CollectorInv' /\ RecordInv'
BY Zenon DEF ScriptInv, Live, CollectorInv, RecordInv

\* A body that is not at its end may move without undoing stage 1.
LEMMA StageOneStays ==
    ASSUME ScriptInv, TypeOK', phase = "drain", NEW b \in Bodies, ~Ended(b),
           body[b].at \notin {"thrown", "killed"},
           \A a \in Bodies : a # b => body'[a] = body[a],
           body'[b].tracked = body[b].tracked
    PROVE  StageOneOver'
<1>1. StageOneOver BY Zenon DEF ScriptInv, CollectorInv
<1>2. CASE \A a \in Bodies : body[a].tracked => Ended(a)
  BY <1>2, Zenon DEF StageOneOver, Ended
<1>3. CASE \E a \in Bodies : body[a].tracked /\ body[a].at = "thrown"
  BY <1>3, Zenon DEF StageOneOver
<1>4. CASE Killed
  BY <1>4, Zenon DEF StageOneOver, Killed
<1> QED BY <1>1, <1>2, <1>3, <1>4, Zenon DEF StageOneOver

LEMMA MoveStep ==
    ASSUME ScriptInv, TypeOK', Live, NEW b \in Bodies, NEW new \in BodyType,
           body' = [body EXCEPT ![b] = new],
           new.at \notin {"unborn", "waiting"},
           body[b].at \notin {"waiting", "done", "broken", "thrown", "killed"},
           new.tracked = body[b].tracked, new.continues = body[b].continues,
           turn' = IF new.at = "running" THEN b ELSE NoBody,
           body[b].at = "unborn" => \A a \in Bodies : a < b => body[a] # Unborn,
           new.started = body[b].started \/ body[b].continues \/ ~commandFailed,
           UNCHANGED <<phase, call, commandFailed, snapshot, buffer, record>>
    PROVE  ScriptInv'
<1> USE DEF ScriptInv
<1>1. body'[b] = new /\ \A a \in Bodies : a # b => body'[a] = body[a]
  BY Zenon DEF TypeOK
<1>2. CollectorInv' /\ RecordInv'
  <2>1. ~Ended(b) /\ body[b].at \notin {"thrown", "killed"} BY Zenon DEF Ended
  <2>2. phase = "drain" => StageOneOver' BY <1>1, <2>1, StageOneStays, Zenon
  <2> QED BY <2>2, QuietCollector, Zenon DEF Answered, Reached
<1>3. new # Unborn BY DEF Unborn
<1>4. BodyInv'
  <2>1. turn' # NoBody => Live' /\ body'[turn'].at = "running" BY <1>1, Zenon DEF Live
  <2>2. \A a \in Bodies : body'[a].at = "unborn" => body'[a] = Unborn BY <1>1, Zenon DEF BodyInv
  <2>3. ASSUME NEW a \in Bodies, NEW d \in Bodies, a < d, body'[d] # Unborn PROVE body'[a] # Unborn
    <3>1. CASE a = b BY <1>1, <1>3, <3>1, Zenon
    <3>2. CASE a # b /\ d # b BY <1>1, <2>3, <3>2, Zenon DEF BodyInv
    <3>3. CASE a # b /\ d = b BY <1>1, <2>3, <3>3 DEF BodyInv, Unborn
    <3> QED BY <3>1, <3>2, <3>3, Zenon
  <2> QED BY <2>1, <2>2, <2>3, Zenon DEF BodyInv
<1>5. \A c \in Calls : call[c] # Unissued /\ call[c].by = b => ~call[c].awaited \/ call[c].known
  BY Zenon DEF CallInv
<1>6. CallInv'
  BY <1>1, <1>5 DEF CallInv, Returned
<1>7. \A c \in Calls : Unreset(c)' <=> Unreset(c) BY <1>1, Zenon DEF Unreset
<1>8. FlagInv' BY <1>7, Zenon DEF FlagInv, Live
<1>9. FailFast'
  <2>1. SUFFICES ASSUME NEW c \in Calls, Unreset(c)' PROVE StoppedAfter(c)'
    BY Zenon DEF FailFast, Unreset
  <2>2. StoppedAfter(c) /\ Unreset(c) BY <1>7, <2>1, Zenon DEF FailFast, Unreset
  <2>3. CASE call[c].by # b
    BY <1>1, <2>2, <2>3, Zenon DEF StoppedAfter
  <2>4. CASE call[c].by = b
    <3>1. SUFFICES ASSUME call[c].awaited, HasFailed(call[c]), new.tracked, ~new.continues
                   PROVE  new.started = call[c].callback
      BY <1>1, <2>4 DEF StoppedAfter
    <3>2. body[b].started = call[c].callback BY <2>2, <2>4, <3>1, Zenon DEF StoppedAfter
    <3>3. call[c] # Unissued BY <3>1 DEF Unissued
    <3>4. call[c].known BY <1>5, <2>4, <3>1, <3>3, Zenon
    <3>5. commandFailed BY <2>2, <3>1, <3>4, Zenon DEF FlagInv
    <3> QED BY <3>1, <3>2, <3>5, Zenon
  <2> QED BY <2>3, <2>4, Zenon
<1>10. PlaceInv' BY Zenon DEF PlaceInv
<1> QED BY <1>2, <1>4, <1>6, <1>8, <1>9, <1>10, Zenon

LEMMA RanStep ==
    ASSUME ScriptInv, TypeOK', NEW b \in Bodies,
           \/ Untracked(b) \/ AwaitOther(b) \/ OtherSettles(b)
           \/ Returns(b) \/ Throws(b) \/ OutOfMemory(b)
    PROVE  ScriptInv'
<1> USE DEF ScriptInv
<1>1. PICK at \in {"running", "elsewhere", "ready", "done", "thrown", "killed"} : Ran(b, at)
  BY Zenon DEF Untracked, AwaitOther, OtherSettles, Returns, Throws, OutOfMemory
<1>2. UNCHANGED <<phase, call, commandFailed, snapshot, buffer, record>>
  BY Zenon DEF Untracked, AwaitOther, OtherSettles, Returns, Throws, OutOfMemory
<1>3. Live /\ body[b].at \in {"unborn", "elsewhere", "running"}
  BY BoundsAreNumbers
     DEF Untracked, Starts, AwaitOther, OtherSettles, Returns, Throws, OutOfMemory, Free, Live,
         BodyInv, Unborn
<1>4. body[b].at = "unborn" => \A a \in Bodies : a < b => body[a] # Unborn
  BY BoundsAreNumbers, Zenon
     DEF Untracked, Starts, AwaitOther, OtherSettles, Returns, Throws, OutOfMemory, BodyInv
<1> DEFINE new == [body[b] EXCEPT !.at = at]
<1>5. /\ new \in BodyType /\ new.at = at /\ new.started = body[b].started
      /\ new.tracked = body[b].tracked /\ new.continues = body[b].continues
  BY DEF TypeOK, BodyType
<1>6. body' = [body EXCEPT ![b] = new] /\ turn' = IF new.at = "running" THEN b ELSE NoBody
  BY <1>1, <1>5, Zenon DEF Ran, TypeOK
<1> HIDE DEF new
<1> QED BY <1>2, <1>3, <1>4, <1>5, <1>6, MoveStep, Zenon

LEMMA LoopStep == ASSUME ScriptInv, TypeOK', NEW b \in Bodies, Loop(b) PROVE ScriptInv'
<1> USE DEF ScriptInv
<1>1. /\ Live /\ body[b].at = "ready"
      /\ UNCHANGED <<phase, call, commandFailed, snapshot, buffer, record>>
  BY Zenon DEF Loop, Free, Live
<1>2. CASE \E at \in {"done", "broken"} : Ran(b, at)
  <2>1. PICK at \in {"done", "broken"} : Ran(b, at) BY <1>2, Zenon
  <2> DEFINE new == [body[b] EXCEPT !.at = at]
  <2>2. /\ new \in BodyType /\ new.at = at /\ new.started = body[b].started
        /\ new.tracked = body[b].tracked /\ new.continues = body[b].continues
    BY DEF TypeOK, BodyType
  <2>3. body' = [body EXCEPT ![b] = new] /\ turn' = IF new.at = "running" THEN b ELSE NoBody
    BY <2>1, <2>2, Zenon DEF Ran, TypeOK
  <2> HIDE DEF new
  <2> QED BY <1>1, <2>2, <2>3, MoveStep, Zenon
<1>3. CASE /\ body[b].continues \/ ~commandFailed
           /\ body[b].started < Callbacks[b]
           /\ body' = [body EXCEPT ![b] =
                 [body[b] EXCEPT !.at = "running", !.started = body[b].started + 1]]
           /\ turn' = b
  <2> DEFINE new == [body[b] EXCEPT !.at = "running", !.started = body[b].started + 1]
  <2>1. body[b].started + 1 \in Nat BY DEF TypeOK, BodyType
  <2>2. /\ new \in BodyType /\ new.at = "running"
        /\ new.tracked = body[b].tracked /\ new.continues = body[b].continues
    BY <2>1, Zenon DEF TypeOK, BodyType
  <2>3. body' = [body EXCEPT ![b] = new] /\ turn' = IF new.at = "running" THEN b ELSE NoBody
    BY <1>3, <2>2, Zenon
  <2> HIDE DEF new
  <2> QED BY <1>1, <1>3, <2>2, <2>3, MoveStep, Zenon
<1> QED BY <1>2, <1>3, Zenon DEF Loop, Advances

LEMMA AutomationStep ==
    ASSUME ScriptInv, TypeOK', NEW b \in Bodies, NEW continues \in BOOLEAN, NEW holds \in BOOLEAN,
           Automation(b, continues, holds)
    PROVE  ScriptInv'
<1> USE DEF ScriptInv
<1>1. /\ phase = "script" /\ body[b] = Unborn /\ \A a \in Bodies : a < b => body[a] # Unborn
      /\ commandFailed' = FALSE /\ UNCHANGED <<phase, call, snapshot, buffer, record>>
  BY Zenon DEF Automation, Starts
<1>2. /\ \A a \in Bodies : a # b => body'[a] = body[a]
      /\ body'[b].tracked = TRUE /\ body'[b].at \in {"running", "done"} /\ body'[b] # Unborn
      /\ turn' = NoBody \/ (turn' = b /\ body'[b].at = "running")
  BY Zenon DEF Automation, TypeOK, Unborn
<1>3. CollectorInv' /\ RecordInv' BY <1>1, QuietCollector, Zenon DEF Live, Answered, Reached
<1>4. BodyInv'
  <2>1. turn' # NoBody => Live' /\ body'[turn'].at = "running" BY <1>1, <1>2, Zenon DEF Live
  <2>2. \A a \in Bodies : body'[a].at = "unborn" => body'[a] = Unborn BY <1>2, Zenon DEF BodyInv
  <2>3. ASSUME NEW a \in Bodies, NEW d \in Bodies, a < d, body'[d] # Unborn PROVE body'[a] # Unborn
    <3>1. CASE a = b BY <1>2, <3>1, Zenon
    <3>2. CASE a # b /\ d # b BY <1>2, <2>3, <3>2, Zenon DEF BodyInv
    <3>3. CASE a # b /\ d = b BY <1>1, <1>2, <2>3, <3>3, Zenon
    <3> QED BY <3>1, <3>2, <3>3, Zenon
  <2> QED BY <2>1, <2>2, <2>3, Zenon DEF BodyInv
<1>5. \A c \in Calls : call[c] # Unissued =>
          /\ call[c].by \in Bodies /\ call[c].by # b /\ body[call[c].by] # Unborn
          /\ ~call[c].known
  BY <1>1 DEF CallInv, Unborn, Returned
<1>6. CallInv'
  <2>1. call' = call /\ phase' = phase BY <1>1, Zenon
  <2>2. \A c \in Calls : call[c] # Unissued => body'[call[c].by] = body[call[c].by]
    BY <1>2, <1>5, Zenon
  <2> QED BY <2>1, <2>2 DEF CallInv, Returned
<1>7. \A c \in Calls : ~(call[c].preflight /\ Unreset(c)')
  <2>1. SUFFICES ASSUME NEW c \in Calls, call[c].preflight PROVE ~Unreset(c)'
    BY Zenon
  <2>2. call[c] # Unissued BY <2>1, UnissuedIsBlank, Zenon
  <2>3. call[c].by < b
    <3>1. call[c].by \in Bodies /\ call[c].by # b /\ body[call[c].by] # Unborn BY <1>5, <2>2, Zenon
    <3>2. ~(b < call[c].by) BY <1>1, <3>1, Zenon DEF BodyInv
    <3>3. call[c].by \in Nat /\ b \in Nat BY <3>1, BoundsAreNumbers, Zenon
    <3> QED BY <3>1, <3>2, <3>3
  <2> QED BY <1>1, <1>2, <1>5, <2>1, <2>2, <2>3, BoundsAreNumbers, Zenon DEF Unreset
<1>8. FlagInv'
  <2>1. \A c \in Calls : ~call[c].known BY <1>5, UnissuedIsBlank, Zenon
  <2>2. call' = call BY <1>1, Zenon
  <2>3. ASSUME NEW c \in Calls PROVE ~call'[c].known /\ ~(call'[c].preflight /\ Unreset(c)')
    BY <1>7, <2>1, <2>2, Zenon
  <2> HIDE DEF ScriptInv
  <2> QED BY <2>3, Zenon DEF FlagInv
<1>9. FailFast'
  <2>1. SUFFICES ASSUME NEW c \in Calls, Unreset(c)' PROVE StoppedAfter(c)'
    BY Zenon DEF FailFast, Unreset
  <2>2. call[c] # Unissued /\ call[c].awaited => call[c].by # b BY <1>5, Zenon
  <2>3. ~call[c].preflight BY <1>7, <2>1, Zenon
  <2>4. StoppedAfter(c) BY <2>3, Zenon DEF FailFast
  <2> QED BY <1>1, <1>2, <2>2, <2>4 DEF StoppedAfter, Unissued
<1>10. PlaceInv' BY <1>1, Zenon DEF PlaceInv
<1> QED BY <1>3, <1>4, <1>6, <1>8, <1>9, <1>10, Zenon

LEMMA MadeStep ==
    ASSUME ScriptInv, TypeOK', NEW b \in Bodies, NEW c \in Calls, NEW k \in CallType,
           Made(b, c, k)
    PROVE  ScriptInv'
<1> USE DEF ScriptInv
<1>1. /\ turn = b /\ Live /\ body[b].at = "running" /\ call[c] = Unissued
      /\ UNCHANGED <<phase, snapshot, buffer, record>>
      /\ commandFailed' = (commandFailed \/ k.preflight)
  BY BoundsAreNumbers, Zenon DEF Made, BodyInv
<1>2. /\ \A d \in Calls : d # c => call'[d] = call[d]
      /\ call'[c] = k
      /\ k.by = b /\ k.callback = body[b].started /\ k.known = FALSE
      /\ k.at \in {"crossing", "untracked"}
  BY DEF Made, TypeOK, CallType
<1>3. /\ \A a \in Bodies : a # b => body'[a] = body[a]
      /\ body'[b].started = body[b].started /\ body'[b].tracked = body[b].tracked
      /\ body'[b].continues = body[b].continues
      /\ k.awaited => body'[b].at = "waiting" /\ turn' = NoBody
      /\ ~k.awaited => body'[b].at = "running" /\ turn' = b
      /\ body'[b] # Unborn /\ body[b] # Unborn
  BY <1>1 DEF Made, Ran, TypeOK, BodyType, Unborn
<1>4. call'[c] # Unissued BY <1>2, BoundsAreNumbers DEF Unissued
<1>5. Answered' = Answered
  <2>1. Reached' = Reached /\ c \notin Reached BY <1>1, <1>2, UnissuedIsBlank, Zenon DEF Reached
  <2> QED BY <1>2, <2>1, Zenon DEF Answered
<1>6. CollectorInv' /\ RecordInv'
  <2>1. phase = "drain" => StageOneOver' BY <1>1, <1>3, StageOneStays, Zenon DEF Ended
  <2> QED BY <1>1, <1>5, <2>1, QuietCollector, Zenon
<1>7. BodyInv'
  <2>1. turn' # NoBody => Live' /\ body'[turn'].at = "running" BY <1>1, <1>3, Zenon DEF Live
  <2>2. \A a \in Bodies : body'[a].at = "unborn" => body'[a] = Unborn BY <1>3, Zenon DEF BodyInv
  <2>3. \A a \in Bodies : body'[a] = Unborn <=> body[a] = Unborn BY <1>3, Zenon
  <2> QED BY <2>1, <2>2, <2>3, Zenon DEF BodyInv
<1>8. \A d \in Calls : call[d] # Unissued /\ call[d].by = b => ~call[d].awaited \/ call[d].known
  BY <1>1, Zenon DEF CallInv
<1>9. CallInv'
  <2>1. SUFFICES ASSUME NEW d \in Calls, call'[d] # Unissued
        PROVE /\ call'[d].by \in Bodies
              /\ body'[call'[d].by].at # "unborn"
              /\ call'[d].awaited /\ ~call'[d].known =>
                    /\ body'[call'[d].by].at = "waiting"
                    /\ body'[call'[d].by].started = call'[d].callback
                    /\ \A e \in Calls : call'[e] # Unissued /\ call'[e].awaited /\ ~call'[e].known
                                          /\ call'[e].by = call'[d].by => e = d
              /\ call'[d].known => Settled(call'[d]) /\ Returned'
    BY Zenon DEF CallInv
  <2>2. CASE d = c
    BY <1>2, <1>3, <1>8, <2>2
  <2>3. CASE d # c
    <3>1. call'[d] = call[d] /\ call[d] # Unissued BY <1>2, <2>1, <2>3, Zenon
    <3>2. /\ call[d].by \in Bodies /\ body'[call[d].by].at # "unborn"
          /\ body'[call[d].by].started = body[call[d].by].started
      BY <1>3, <3>1 DEF CallInv
    <3>3. call[d].known => Settled(call'[d]) /\ Returned'
      BY <1>1, <3>1, Zenon DEF CallInv, Returned
    <3>4. ASSUME call[d].awaited, ~call[d].known
          PROVE  /\ body'[call[d].by].at = "waiting"
                 /\ body'[call[d].by].started = call[d].callback
                 /\ \A e \in Calls : call'[e] # Unissued /\ call'[e].awaited /\ ~call'[e].known
                                       /\ call'[e].by = call[d].by => e = d
      <4>1. call[d].by # b BY <1>8, <3>1, <3>4, Zenon
      <4>2. body'[call[d].by] = body[call[d].by] BY <1>3, <3>2, <4>1, Zenon
      <4>3. /\ body[call[d].by].at = "waiting" /\ body[call[d].by].started = call[d].callback
            /\ \A e \in Calls : call[e] # Unissued /\ call[e].awaited /\ ~call[e].known
                                  /\ call[e].by = call[d].by => e = d
        BY <3>1, <3>4, Zenon DEF CallInv
      <4> QED BY <1>2, <4>1, <4>2, <4>3, Zenon
    <3> QED BY <3>1, <3>2, <3>3, <3>4, Zenon
  <2> QED BY <2>2, <2>3, Zenon
<1>10. \A d \in Calls : d # c => (Unreset(d)' <=> Unreset(d))
  BY <1>2, <1>3 DEF Unreset
<1>11. FlagInv'
  BY <1>1, <1>2, <1>10, Zenon DEF FlagInv
<1>12. FailFast'
  <2>1. SUFFICES ASSUME NEW d \in Calls, Unreset(d)' PROVE StoppedAfter(d)'
    BY Zenon DEF FailFast, Unreset
  <2>2. CASE d = c
    BY <1>2, <1>3, <2>2, Zenon DEF StoppedAfter
  <2>3. CASE d # c
    <3>1. StoppedAfter(d) BY <1>10, <2>1, <2>3, Zenon DEF FailFast, Unreset
    <3> QED BY <1>2, <1>3, <2>3, <3>1 DEF StoppedAfter
  <2> QED BY <2>2, <2>3, Zenon
<1>13. PlaceInv'
  <2>1. SUFFICES ASSUME NEW d \in Calls
        PROVE /\ call'[d].at = "unissued" => call'[d] = Unissued
              /\ \A q \in Parts : call'[d].part[q] = "sent" => call'[d].at = "crossing"
              /\ call'[d].at = "crossing" => \A q \in Parts : call'[d].part[q] \in {"none", "sent"}
              /\ call'[d].at = "late" => phase' = "recorded"
              /\ call'[d].known => call'[d].at = "host"
    BY Zenon DEF PlaceInv
  <2>2. CASE d # c BY <1>1, <1>2, <2>2 DEF PlaceInv
  <2>3. CASE d = c
    <3>1. \/ k.at = "crossing" /\ \A p \in Parts : k.part[p] \in {"none", "sent"}
          \/ k.at = "untracked" /\ \A p \in Parts : k.part[p] \in {"none", "pending"}
      BY Zenon DEF Made
    <3> QED BY <1>2, <2>3, <3>1, Zenon
  <2> QED BY <2>2, <2>3, Zenon
<1> QED BY <1>6, <1>7, <1>9, <1>11, <1>12, <1>13, Zenon

LEMMA LearnStep == ASSUME ScriptInv, TypeOK', NEW c \in Calls, Learn(c) PROVE ScriptInv'
<1> USE DEF ScriptInv
<1> DEFINE b == call[c].by
<1>1. /\ phase \in {"asking", "bodies", "drain"} /\ Live /\ turn = NoBody /\ call[c] # Unissued
      /\ call[c].at = "host" /\ ~call[c].known /\ Settled(call[c]) /\ b \in Bodies /\ body[b].at # "unborn"
      /\ call[c].awaited => body[b].at = "waiting"
      /\ UNCHANGED <<phase, snapshot, buffer, record>>
      /\ commandFailed' = (commandFailed \/ (HasFailed(call[c]) /\ ~call[c].preflight))
  BY UnissuedIsBlank, Zenon DEF Learn, Free, Live, CallInv
<1> HIDE DEF b
<1>2. /\ \A d \in Calls : /\ call'[d].by = call[d].by /\ call'[d].callback = call[d].callback
                          /\ call'[d].awaited = call[d].awaited
                          /\ call'[d].preflight = call[d].preflight
                          /\ call'[d].part = call[d].part /\ call'[d].at = call[d].at
      /\ \A d \in Calls : d # c => call'[d] = call[d]
      /\ call'[c].known = TRUE
  BY DEF Learn, TypeOK, CallType
<1>3. \A d \in Calls : /\ Settled(call'[d]) <=> Settled(call[d])
                       /\ HasFailed(call'[d]) <=> HasFailed(call[d])
  BY <1>2 DEF Settled, HasFailed, PartsIn
<1>4. \A d \in Calls : call'[d] = Unissued <=> call[d] = Unissued
  <2>1. call'[c] # Unissued BY <1>2, UnissuedIsBlank, Zenon
  <2> QED BY <1>1, <1>2, <2>1, Zenon
<1>5. \A a \in Bodies : /\ body'[a].started = body[a].started /\ body'[a].tracked = body[a].tracked
                        /\ body'[a].continues = body[a].continues
                        /\ ~(a = b /\ call[c].awaited) => body'[a] = body[a]
  BY <1>1 DEF Learn, Ran, TypeOK, BodyType, b
<1>6. /\ call[c].awaited => turn' = b /\ body'[b].at = "running"
      /\ ~call[c].awaited => turn' = turn /\ body' = body
  BY <1>1 DEF Learn, Ran, TypeOK, BodyType, b
<1>7. CollectorInv' /\ RecordInv'
  <2>1. Answered' = Answered BY <1>2 DEF Answered, Reached
  <2>2. phase = "drain" => StageOneOver'
    <3>1. CASE call[c].awaited
      BY <1>1, <1>5, <3>1, StageOneStays, Zenon DEF Ended
    <3>2. CASE ~call[c].awaited
      BY <1>6, <3>2, Zenon DEF CollectorInv, StageOneOver, Ended, Killed
    <3> QED BY <3>1, <3>2, Zenon
  <2> QED BY <1>1, <2>1, <2>2, QuietCollector, Zenon
<1>8. BodyInv'
  <2>1. turn' # NoBody => Live' /\ body'[turn'].at = "running" BY <1>1, <1>6, Zenon DEF Live
  <2>2. \A a \in Bodies : body'[a].at = "unborn" => body'[a] = Unborn BY <1>5, <1>6, Zenon DEF BodyInv
  <2>3. \A a \in Bodies : body'[a] = Unborn <=> body[a] = Unborn BY <1>1, <1>5, <1>6 DEF Unborn
  <2> QED BY <2>1, <2>2, <2>3, Zenon DEF BodyInv
<1>9. \A d \in Calls : d # c /\ call[c].awaited /\ call[d] # Unissued /\ call[d].by = b
          => ~call[d].awaited \/ call[d].known
  BY <1>1, Zenon DEF CallInv, b
<1>10. CallInv'
  <2>1. SUFFICES ASSUME NEW d \in Calls, call'[d] # Unissued
        PROVE /\ call'[d].by \in Bodies
              /\ body'[call'[d].by].at # "unborn"
              /\ call'[d].awaited /\ ~call'[d].known =>
                    /\ body'[call'[d].by].at = "waiting"
                    /\ body'[call'[d].by].started = call'[d].callback
                    /\ \A e \in Calls : call'[e] # Unissued /\ call'[e].awaited /\ ~call'[e].known
                                          /\ call'[e].by = call'[d].by => e = d
              /\ call'[d].known => Settled(call'[d]) /\ Returned'
    BY Zenon DEF CallInv
  <2>2. CASE d = c
    BY <1>1, <1>2, <1>3, <1>5, <1>6, <2>2, Zenon DEF b, Returned
  <2>3. CASE d # c
    <3>1. call'[d] = call[d] /\ call[d] # Unissued BY <1>2, <2>1, <2>3, Zenon
    <3>2. /\ call[d].by \in Bodies /\ body'[call[d].by].at # "unborn"
          /\ body'[call[d].by].started = body[call[d].by].started
      BY <1>5, <1>6, <3>1 DEF CallInv
    <3>3. call[d].known => Settled(call'[d]) /\ Returned'
      BY <1>1, <3>1, Zenon DEF CallInv, Returned
    <3>4. ASSUME call[d].awaited, ~call[d].known
          PROVE  /\ body'[call[d].by].at = "waiting"
                 /\ body'[call[d].by].started = call[d].callback
                 /\ \A e \in Calls : call'[e] # Unissued /\ call'[e].awaited /\ ~call'[e].known
                                       /\ call'[e].by = call[d].by => e = d
      <4>1. ~(call[d].by = b /\ call[c].awaited) BY <1>9, <2>3, <3>1, <3>4, Zenon
      <4>2. body'[call[d].by] = body[call[d].by] BY <1>5, <3>2, <4>1, Zenon
      <4>3. /\ body[call[d].by].at = "waiting" /\ body[call[d].by].started = call[d].callback
            /\ \A e \in Calls : call[e] # Unissued /\ call[e].awaited /\ ~call[e].known
                                  /\ call[e].by = call[d].by => e = d
        BY <3>1, <3>4, Zenon DEF CallInv
      <4> QED BY <1>2, <4>2, <4>3, Zenon
    <3> QED BY <3>1, <3>2, <3>3, <3>4, Zenon
  <2> QED BY <2>2, <2>3, Zenon
<1>11. \A d \in Calls : Unreset(d)' <=> Unreset(d) BY <1>2, <1>5, Zenon DEF Unreset
<1>12. FlagInv' BY <1>1, <1>2, <1>3, <1>11, Zenon DEF FlagInv
<1>13. FailFast'
  <2>1. SUFFICES ASSUME NEW d \in Calls, Unreset(d)' PROVE StoppedAfter(d)'
    BY Zenon DEF FailFast, Unreset
  <2>2. StoppedAfter(d) BY <1>11, <2>1, Zenon DEF FailFast, Unreset
  <2> QED BY <1>2, <1>3, <1>5, <2>2 DEF StoppedAfter
<1>14. PlaceInv'
  <2>1. SUFFICES ASSUME NEW d \in Calls
        PROVE /\ call'[d].at = "unissued" => call'[d] = Unissued
              /\ \A q \in Parts : call'[d].part[q] = "sent" => call'[d].at = "crossing"
              /\ call'[d].at = "crossing" => \A q \in Parts : call'[d].part[q] \in {"none", "sent"}
              /\ call'[d].at = "late" => phase' = "recorded"
              /\ call'[d].known => call'[d].at = "host"
    BY Zenon DEF PlaceInv
  <2>2. CASE d # c
    <3>1. call'[d] = call[d] /\ phase' = phase BY <1>1, <1>2, <2>2, Zenon
    <3>2. /\ call[d].at = "unissued" => call[d] = Unissued
          /\ \A q \in Parts : call[d].part[q] = "sent" => call[d].at = "crossing"
          /\ call[d].at = "crossing" => \A q \in Parts : call[d].part[q] \in {"none", "sent"}
          /\ call[d].at = "late" => phase = "recorded"
          /\ call[d].known => call[d].at = "host"
      BY Zenon DEF PlaceInv
    <3> QED BY <3>1, <3>2, Zenon
  <2>3. CASE d = c BY <1>1, <1>2, <2>3 DEF PlaceInv
  <2> QED BY <2>2, <2>3, Zenon
<1> QED BY <1>7, <1>8, <1>10, <1>12, <1>13, <1>14, Zenon

-----------------------------------------------------------------------------
(* Theorems. *)

LEMMA InitStep == Init => ScriptInv
<1> SUFFICES ASSUME Init PROVE ScriptInv BY Zenon
<1>1. TypeOK BY InitType, Zenon
<1>2. \A c \in Calls : call[c] = Unissued BY Zenon DEF Init
<1>3. \A b \in Bodies : body[b] = Unborn BY Zenon DEF Init
<1>4. CollectorInv /\ RecordInv /\ FlagInv BY Zenon DEF Init, CollectorInv, RecordInv, FlagInv, Live
<1>5. BodyInv /\ CallInv /\ PlaceInv
  BY <1>2, <1>3, UnissuedIsBlank, Zenon DEF Init, BodyInv, CallInv, PlaceInv
<1>6. FailFast BY <1>2 DEF FailFast, StoppedAfter, Unissued
<1> QED BY <1>1, <1>4, <1>5, <1>6, Zenon DEF ScriptInv

LEMMA StutterStep == ASSUME ScriptInv, UNCHANGED vars PROVE ScriptInv'
<1> USE DEF ScriptInv, vars
<1>1. TypeOK' BY Zenon DEF TypeOK
<1>2. CollectorInv' /\ RecordInv'
  BY DEF CollectorInv, RecordInv, Live, Answered, Reached, StageOneOver, Ended, Killed, Commands
<1>3. BodyInv' /\ CallInv' BY Zenon DEF BodyInv, CallInv, Live, Returned
<1>5. PlaceInv' BY Zenon DEF PlaceInv
<1>4. FlagInv' /\ FailFast' BY Zenon DEF FlagInv, FailFast, StoppedAfter, Unreset, Live
<1> QED BY <1>1, <1>2, <1>3, <1>4, <1>5, Zenon

\* The inductive invariant of an execution: what the collector, the record, the bodies,
\* their calls, in transit or at the host, and the shared flag have to do with each other.
THEOREM ScriptInvariant == Spec => []ScriptInv
<1>1. ASSUME ScriptInv, Next PROVE ScriptInv'
  <2>1. TypeOK' BY <1>1, TypeStep, Zenon DEF ScriptInv
  <2>2. ASSUME NEW b \in Bodies, NEW c \in Calls,
               Publish(b, c) \/ \E awaited \in BOOLEAN : Issues(b, c, awaited)
        PROVE  ScriptInv'
    BY <1>1, <2>1, <2>2, CallMakes, MadeStep, Zenon DEF ScriptInv
  <2> QED BY <1>1, <2>1, <2>2, SettleStep, ArriveStep, HostStep, RanStep, LoopStep, AutomationStep,
             LearnStep, Zenon
          DEF Next, Host, Isolate
<1> QED BY <1>1, InitStep, StutterStep, PTL DEF Spec

\* However long calls cross and however bodies and commands interleave, an execution that
\* was waited for has in its record whatever reached the host by then, and that includes
\* all that a body at its end had awaited (Sandbox.execute(), drainInFlight()).
THEOREM DrainMissesNothing == Spec => []NothingIsMissed
<1>1. ASSUME ScriptInv, NEW c \in Calls, NEW b \in Bodies,
             call[c].by = b, call[c].awaited, Ended(b)
      PROVE  c \in Reached
  <2>1. call[c] # Unissued BY <1>1, UnissuedIsBlank, Zenon
  <2>2. call[c].known BY <1>1, <2>1, Zenon DEF ScriptInv, CallInv, Ended
  <2> QED BY <1>1, <2>2, Zenon DEF ScriptInv, PlaceInv, Reached
<1>2. ScriptInv => NothingIsMissed
  BY <1>1 DEF ScriptInv, CollectorInv, RecordInv, NothingIsMissed, StageOneOver, Unrecorded
<1> QED BY <1>2, ScriptInvariant, PTL

\* A recorded success stays true of the device commands that were known, and of all that
\* reached the host if the execution was waited for (assembleExecutionResult()).
THEOREM RecordsAreTruthful == Spec => []SuccessIsTruthful
<1>1. ScriptInv => SuccessIsTruthful
  BY DEF ScriptInv, CollectorInv, RecordInv, SuccessIsTruthful, Unrecorded
<1> QED BY <1>1, ScriptInvariant, PTL

\* automation() fails fast, for any number of bodies that share the flag.
THEOREM AutomationFailsFast == Spec => []FailFast
<1>1. ScriptInv => FailFast BY Zenon DEF ScriptInv
<1> QED BY <1>1, ScriptInvariant, PTL
=============================================================================
