--------------------------- MODULE ScriptExecution ---------------------------
(***************************************************************************)
(* One execution of a script rule: AutomationEngine.executeScriptRule(),   *)
(* Sandbox.execute() with its two-stage completion wait, the automation()  *)
(* loop inside the isolate, and the collector of command results           *)
(* (src/automations/sandbox.ts, automation-engine.ts,                      *)
(* command-result-collector.ts, execution-result.ts).                      *)
(*                                                                         *)
(* What the author wrote is left open: a body may issue any call, await it *)
(* or not, await something else, return or throw.  The isolate runs one    *)
(* body at a time, up to its next await (turn), on a thread of its own.  A *)
(* call crosses to the host asynchronously (actionRef.apply()): it is in   *)
(* transit until the host's callback runs, which may be after execute()    *)
(* has returned.  The host settles commands meanwhile, and the isolate     *)
(* learns of it later.                                                     *)
(***************************************************************************)
EXTENDS Naturals, FiniteSets

CONSTANTS
    MaxBodies,     \* bound: automation() calls, and async functions outside one
    Callbacks,     \* bound: action callbacks of each automation()
    MaxCalls,      \* bound: calls of devices.action(), actionAll() and mqtt.publish()
    MaxCommands,   \* bound: commands these calls dispatch or fail with
    Matches        \* bound: numbers of devices an actionAll() matches

ASSUME ScriptAssumption ==
    /\ MaxBodies \in Nat /\ Callbacks \in [1..MaxBodies -> Nat \ {0}]
    /\ MaxCalls \in Nat /\ MaxCommands \in Nat \ {0} /\ Matches \subseteq 0..MaxCommands

Bodies == 1..MaxBodies  \* in the order in which they are started
Calls == 1..MaxCalls    \* in the order in which they are issued
Parts == 1..MaxCommands
NoBody == 0

VARIABLES
    phase,          \* of execute(): "idle", "script", "asking", "bodies", "drain", "recorded"
    turn,           \* the body the isolate is running, or NoBody
    body,           \* per body: where it is
    call,           \* per call: where it is, its commands, and what the isolate knows of them
    commandFailed,  \* the flag of the bootstrap closure, one for all bodies
    snapshot,       \* calls whose Promise.allSettled() the drain awaits
    buffer,         \* the collector's buffer for this execution
    record          \* what executeScriptRule() recorded

vars == <<phase, turn, body, call, commandFailed, snapshot, buffer, record>>

Outcomes == {"ok", "failed"}
Unborn == [at |-> "unborn", started |-> 0,
           continues |-> FALSE, tracked |-> FALSE]
Unissued == [by |-> NoBody, callback |-> 0, awaited |-> FALSE, preflight |-> FALSE,
             at |-> "unissued", known |-> FALSE, part |-> [p \in Parts |-> "none"]]
Unrecorded == [cause |-> "none", success |-> FALSE, results |-> {}]

BodyType ==
    [at : {"unborn", "running", "waiting", "elsewhere", "ready", "done", "broken", "thrown",
           "killed"},
     started : Nat, continues : BOOLEAN, tracked : BOOLEAN]
CallType ==
    [by : Bodies \cup {NoBody}, callback : Nat, awaited : BOOLEAN,
     preflight : BOOLEAN, at : {"unissued", "crossing", "host", "late", "untracked"},
     known : BOOLEAN, part : [Parts -> {"none", "sent", "pending"} \cup Outcomes]]
BufferType == [open : BOOLEAN, results : SUBSET (Calls \X Parts)]
RecordType ==
    [cause : {"none", "drained", "expired", "failed"}, success : BOOLEAN,
     results : SUBSET (Calls \X Parts)]

TypeOK ==
    /\ phase \in {"idle", "script", "asking", "bodies", "drain", "recorded"}
    /\ turn \in Bodies \cup {NoBody}
    /\ body \in [Bodies -> BodyType]
    /\ call \in [Calls -> CallType]
    /\ commandFailed \in BOOLEAN
    /\ snapshot \in SUBSET Calls
    /\ buffer \in BufferType
    /\ record \in RecordType

Init ==
    /\ phase = "idle" /\ turn = NoBody
    /\ body = [b \in Bodies |-> Unborn]
    /\ call = [c \in Calls |-> Unissued]
    /\ commandFailed = FALSE /\ snapshot = {}
    /\ buffer = [open |-> FALSE, results |-> {}]
    /\ record = Unrecorded

-----------------------------------------------------------------------------
(* The host: the collector, the in-flight set and the end of an execution. *)

PartsIn(k, outcome) == {p \in Parts : k.part[p] = outcome}
Settled(k) == PartsIn(k, "pending") = {}
HasFailed(k) == PartsIn(k, "failed") # {}

\* registerInFlight(): a call enters the set when the host's callback runs, and leaves
\* it when its promise settles.
InFlight(calls) == {c \in Calls : calls[c].at = "host" /\ ~Settled(calls[c])}

\* collector.push(): a buffer that is not there is created.
Push(buf, results) ==
    IF results = {} THEN buf ELSE [open |-> TRUE, results |-> buf.results \cup results]

\* assembleExecutionResult()
Assemble(logicOk, calls, results) ==
    logicOk /\ \A r \in results : calls[r[1]].part[r[2]] = "ok"

\* execute() returns and disposes of the isolate, the collector is closed and the
\* execution recorded, all before the host's next task.  A call in transit is not
\* withdrawn.
Finish(cause, calls, buf) ==
    /\ phase' = "recorded" /\ turn' = NoBody /\ snapshot' = {}
    /\ record' = [cause |-> cause, results |-> buf.results,
                  success |-> Assemble(cause # "failed", calls, buf.results)]
    /\ buffer' = [open |-> FALSE, results |-> {}]

\* Mutation: the in-flight set is awaited once, as it was when the drain began.
DrainOnce(calls, buf) ==
    IF InFlight(calls) = {} \/ phase = "drain" THEN Finish("drained", calls, buf)
    ELSE /\ phase' = "drain" /\ snapshot' = InFlight(calls) /\ buffer' = buf
         /\ UNCHANGED <<turn, record>>

\* drainInFlight(): the test of its loop.
DrainLoop(calls, buf) ==
    IF InFlight(calls) = {} THEN Finish("drained", calls, buf)
    ELSE /\ phase' = "drain" /\ snapshot' = InFlight(calls) /\ buffer' = buf
         /\ UNCHANGED <<turn, record>>

\* The host's callback runs for a call that crossed: it dispatches the commands, or
\* refuses the call as a whole and pushes one failure.
Arrive(c, refused) ==
    /\ call[c].at = "crossing"
    /\ call[c].preflight => refused
    /\ refused => call[c].part[1] = "sent"
    /\ call' = [call EXCEPT ![c] =
          [call[c] EXCEPT !.at = IF phase = "recorded" THEN "late" ELSE "host",
                          !.part = [p \in Parts |->
                              CASE call[c].part[p] = "none" -> "none"
                                [] ~refused -> "pending"
                                [] OTHER -> IF p = 1 THEN "failed" ELSE "none"]]]
    /\ buffer' = IF refused THEN Push(buffer, {<<c, 1>>}) ELSE buffer
    /\ UNCHANGED <<phase, turn, body, commandFailed, snapshot, record>>

\* A command settles: its result is pushed (that of a publish is not), and when it was the
\* last one the drain awaits, the loop goes round before the isolate can be heard again.
Settle(c, p, outcome) ==
    /\ call[c].part[p] = "pending"
    /\ call' = [call EXCEPT ![c].part = [call[c].part EXCEPT ![p] = outcome]]
    /\ LET buf == Push(buffer, IF call[c].at = "untracked" THEN {} ELSE {<<c, p>>})
       IN  IF phase = "drain" /\ snapshot \cap InFlight(call') = {}
           THEN DrainLoop(call', buf)
           ELSE buffer' = buf /\ UNCHANGED <<phase, turn, snapshot, record>>
    /\ UNCHANGED <<body, commandFailed>>

\* executeScriptRule(): the collector is opened, the isolate made and the script started.
Fire ==
    /\ phase = "idle" /\ phase' = "script"
    /\ buffer' = [open |-> TRUE, results |-> {}]
    /\ UNCHANGED <<turn, body, call, commandFailed, snapshot, record>>

\* isolated-vm is not there, or the isolate cannot be set up.
Unavailable ==
    /\ phase = "idle"
    /\ Finish("failed", call, [open |-> TRUE, results |-> {}])
    /\ UNCHANGED <<body, call, commandFailed>>

\* script.run() rejects: a throw outside every body, the timeout or the memory limit.
ScriptFails ==
    /\ phase = "script"
    /\ Finish("failed", call, buffer)
    /\ UNCHANGED <<body, call, commandFailed>>

ScriptReturns ==
    /\ phase = "script" /\ turn = NoBody /\ phase' = "asking"
    /\ UNCHANGED <<turn, body, call, commandFailed, snapshot, buffer, record>>

\* The isolate was stopped at its memory limit in a resumed body.
Killed == \E b \in Bodies : body[b].at = "killed"

\* global.get("__awaitAutomations") is answered between two turns of the isolate.  The
\* deadline has been computed, but no timer runs yet.
ReferenceArrives ==
    /\ phase = "asking" /\ turn = NoBody /\ ~Killed /\ phase' = "bodies"
    /\ UNCHANGED <<turn, body, call, commandFailed, snapshot, buffer, record>>

\* It rejects: there is no isolate any more.
ReferenceFails ==
    /\ phase = "asking" /\ Killed
    /\ Finish("failed", call, buffer)
    /\ UNCHANGED <<body, call, commandFailed>>

\* The promise of b resolves.
Ended(b) == body[b].at \in {"done", "broken"}

\* Mutation: stage 1 is left out, and the drain alone decides.
StageOneSkipped ==
    /\ phase = "bodies"
    /\ DrainLoop(call, buffer)
    /\ UNCHANGED <<body, call, commandFailed>>

\* Promise.all() of the automation() bodies resolves, or rejects with the first that
\* throws, or because the isolate is gone.
StageOneEnds ==
    /\ phase = "bodies"
    /\ \/ \A b \in Bodies : body[b].tracked => Ended(b)
       \/ \E b \in Bodies : body[b].tracked /\ body[b].at = "thrown"
       \/ Killed
    /\ DrainLoop(call, buffer)
    /\ UNCHANGED <<body, call, commandFailed>>

\* Mutation: only stage 1 is bounded.
BudgetOfBodies ==
    /\ phase = "bodies"
    /\ Finish("expired", call, buffer)
    /\ UNCHANGED <<body, call, commandFailed>>

\* One deadline bounds both stages.
BudgetExpires ==
    /\ phase \in {"bodies", "drain"}
    /\ Finish("expired", call, buffer)
    /\ UNCHANGED <<body, call, commandFailed>>

-----------------------------------------------------------------------------
(* The isolate. *)

Ran(b, at) == /\ body' = [body EXCEPT ![b].at = at]
              /\ turn' = IF at = "running" THEN b ELSE NoBody

\* The script comes to its next asynchronous body.
Starts(b) ==
    /\ phase = "script" /\ turn = NoBody
    /\ body[b] = Unborn /\ \A a \in Bodies : a < b => body[a] # Unborn

\* automation(): returns at a condition that does not hold, or runs its first callback
\* up to the first await.  Whether it continues on failure is a question of several
\* callbacks.
Automation(b, continues, holds) ==
    /\ Starts(b) /\ (continues => holds /\ Callbacks[b] > 1)
    /\ commandFailed' = FALSE
    /\ body' = [body EXCEPT ![b] =
          [at |-> IF holds THEN "running" ELSE "done", started |-> IF holds THEN 1 ELSE 0,
           continues |-> continues, tracked |-> TRUE]]
    /\ turn' = IF holds THEN b ELSE NoBody
    /\ UNCHANGED <<phase, call, snapshot, buffer, record>>

\* An asynchronous function of the script that is not in an automation().
Untracked(b) ==
    /\ Starts(b) /\ Ran(b, "running")
    /\ UNCHANGED <<phase, call, commandFailed, snapshot, buffer, record>>

\* The commands of all calls so far.
Commands == {r \in Calls \X Parts : call[r[1]].part[r[2]] # "none"}

\* The next call is made, of n commands.
Calling(c, n) ==
    /\ call[c] = Unissued /\ \A d \in Calls : d < c => call[d] # Unissued
    /\ Cardinality(Commands) + n <= MaxCommands

\* A call starts to cross; its body goes on, or awaits the result.
Issue(b, c, n, awaited, preflight) ==
    /\ turn = b /\ Calling(c, n)
    /\ call' = [call EXCEPT ![c] =
          [by |-> b, callback |-> body[b].started, awaited |-> awaited, preflight |-> preflight,
           at |-> "crossing", known |-> FALSE,
           part |-> [p \in Parts |-> IF p <= n THEN "sent" ELSE "none"]]]
    /\ commandFailed' = (commandFailed \/ preflight)
    /\ IF awaited THEN Ran(b, "waiting") ELSE UNCHANGED <<body, turn>>
    /\ UNCHANGED <<phase, snapshot, buffer, record>>

\* devices.action()
Action(b, c, awaited) == Issue(b, c, 1, awaited, FALSE)

\* devices.actionAll() on n devices, which may be none.
ActionAll(b, c, n, awaited) == Issue(b, c, n, awaited, FALSE)

\* Its predicate threw: the flag is set at once, and not when the result is learned; the
\* host is only told, and refuses the call.
ActionAllThrew(b, c, awaited) == Issue(b, c, 1, awaited, TRUE)

\* mqtt.publish(): the isolate waits for the host to dispatch the command (applySync());
\* nobody waits for its outcome, and it is neither in flight nor collected.
Publish(b, c) ==
    /\ turn = b /\ Calling(c, 1)
    /\ call' = [call EXCEPT ![c] =
          [by |-> b, callback |-> body[b].started, awaited |-> FALSE, preflight |-> FALSE,
           at |-> "untracked", known |-> FALSE,
           part |-> [p \in Parts |-> IF p = 1 THEN "pending" ELSE "none"]]]
    /\ UNCHANGED <<phase, turn, body, commandFailed, snapshot, buffer, record>>

\* Between two turns of the isolate, once its script has returned.
Free == turn = NoBody /\ phase \in {"asking", "bodies", "drain"} /\ ~Killed

\* The isolate learns the result of a call: the flag is set, and who awaited it goes on.
Learn(c) ==
    /\ Free /\ call[c].at = "host" /\ ~call[c].known /\ Settled(call[c])
    /\ call' = [call EXCEPT ![c].known = TRUE]
    /\ commandFailed' = (commandFailed \/ (HasFailed(call[c]) /\ ~call[c].preflight))
    /\ IF call[c].awaited
       THEN Ran(call[c].by, "running")
       ELSE UNCHANGED <<body, turn>>
    /\ UNCHANGED <<phase, snapshot, buffer, record>>

\* A body awaits something else (http, a promise of its own), which may never come.
AwaitOther(b) ==
    /\ turn = b /\ Ran(b, "elsewhere")
    /\ UNCHANGED <<phase, call, commandFailed, snapshot, buffer, record>>

OtherSettles(b) ==
    /\ Free /\ body[b].at = "elsewhere" /\ Ran(b, "running")
    /\ UNCHANGED <<phase, call, commandFailed, snapshot, buffer, record>>

\* A callback returns; the loop goes on after its await.  A function outside automation()
\* ends, and nobody hears whether it threw.
Returns(b) ==
    /\ turn = b /\ Ran(b, IF body[b].tracked THEN "ready" ELSE "done")
    /\ UNCHANGED <<phase, call, commandFailed, snapshot, buffer, record>>

Throws(b) ==
    /\ turn = b /\ body[b].tracked /\ Ran(b, "thrown")
    /\ UNCHANGED <<phase, call, commandFailed, snapshot, buffer, record>>

\* A resumed body exceeds the memory limit: the isolate is stopped with all its bodies.
OutOfMemory(b) ==
    /\ turn = b /\ phase \in {"asking", "bodies", "drain"} /\ Ran(b, "killed")
    /\ UNCHANGED <<phase, call, commandFailed, snapshot, buffer, record>>

\* The loop of automation() has no further callback, or calls the next one.
Advances(b) ==
    \/ Ran(b, "done")
    \/ /\ body[b].started < Callbacks[b]
       /\ body' = [body EXCEPT ![b] =
             [body[b] EXCEPT !.at = "running", !.started = body[b].started + 1]]
       /\ turn' = b

\* Mutation: no fail-fast test.
LoopRegardless(b) ==
    /\ Free /\ body[b].at = "ready" /\ Advances(b)
    /\ UNCHANGED <<phase, call, commandFailed, snapshot, buffer, record>>

\* The test of that loop after a callback.
Loop(b) ==
    /\ Free /\ body[b].at = "ready"
    /\ IF ~body[b].continues /\ commandFailed THEN Ran(b, "broken") ELSE Advances(b)
    /\ UNCHANGED <<phase, call, commandFailed, snapshot, buffer, record>>

-----------------------------------------------------------------------------
Host ==
    \/ Fire \/ Unavailable \/ ScriptFails \/ ScriptReturns
    \/ ReferenceArrives \/ ReferenceFails \/ StageOneEnds \/ BudgetExpires
    \/ \E c \in Calls, refused \in BOOLEAN : Arrive(c, refused)
    \/ \E c \in Calls, p \in Parts, outcome \in Outcomes : Settle(c, p, outcome)

Issues(b, c, awaited) ==
    \/ Action(b, c, awaited)
    \/ \E n \in Matches : ActionAll(b, c, n, awaited)
    \/ ActionAllThrew(b, c, awaited)

Isolate ==
    \/ \E b \in Bodies :
          \/ \E continues, holds \in BOOLEAN : Automation(b, continues, holds)
          \/ Untracked(b) \/ AwaitOther(b) \/ OtherSettles(b)
          \/ Returns(b) \/ Throws(b) \/ OutOfMemory(b) \/ Loop(b)
          \/ \E c \in Calls, awaited \in BOOLEAN : Issues(b, c, awaited)
          \/ \E c \in Calls : Publish(b, c)
    \/ \E c \in Calls : Learn(c)

Next == Host \/ Isolate

\* The script ends or is stopped at its timeout, the isolate serves its tasks in the
\* order they came, so that it answers the host between two turns, and the budget's timer
\* fires.  Nothing is assumed of the commands, of how long a call crosses, of how long a
\* body keeps the isolate, or of what the author's code awaits.
Fairness ==
    /\ WF_vars(Fire \/ Unavailable)
    /\ WF_vars(ScriptReturns \/ ScriptFails)
    /\ SF_vars(ReferenceArrives) /\ WF_vars(ReferenceFails)
    /\ WF_vars(BudgetExpires)

Spec == Init /\ [][Next]_vars /\ Fairness

-----------------------------------------------------------------------------
(* Properties. *)

\* The calls whose callback has run on the host while the execution was open.
Reached == {c \in Calls : call[c].at = "host"}

\* An execution that ends because its wait was over, and not its budget or its script,
\* has every command in its record that reached the host by then, settled; every
\* automation() body has run to its end, unless one of them threw or the isolate was
\* stopped; and every call that a body at its end had awaited did reach the host (the
\* two stages of Sandbox.execute()).  A call nobody awaits may still be in transit, and
\* a publish is waited for by nobody.
NothingIsMissed ==
    record.cause = "drained" =>
        /\ \A c \in Reached : Settled(call[c])
        /\ record.results = {r \in Commands : r[1] \in Reached}
        /\ \/ \A b \in Bodies : body[b].tracked => Ended(b)
           \/ \E b \in Bodies : body[b].tracked /\ body[b].at = "thrown"
           \/ Killed
        /\ \A c \in Calls, b \in Bodies :
              call[c].by = b /\ call[c].awaited /\ Ended(b) => c \in Reached

\* An execution is recorded as a success only if no device command known by then had
\* failed, and one that was waited for is a success exactly if every device command that
\* reached the host succeeded (assembleExecutionResult() on what the collector was
\* given).  Nothing is said of a publish, which the collector never hears of.
SuccessIsTruthful ==
    /\ record.success => \A r \in record.results : call[r[1]].part[r[2]] = "ok"
    /\ record.cause = "drained" =>
          (record.success <=> \A c \in Reached : Settled(call[c]) /\ ~HasFailed(call[c]))

\* No callback was started after the one whose awaited call c failed, unless its
\* automation() continues on failure.
StoppedAfter(c) ==
    \A b \in Bodies :
        call[c].by = b /\ call[c].awaited /\ HasFailed(call[c])
            /\ body[b].tracked /\ ~body[b].continues
        => body[b].started = call[c].callback

\* After an awaited call of one of its callbacks has failed, an automation() that does
\* not continue on failure starts no further callback, whatever other bodies do to the
\* flag they share (the loop in the bootstrap script).  Exempt is an actionAll() whose
\* predicate threw, if a later automation() has reset the flag.
FailFast ==
    \A c \in Calls :
        (call[c].preflight => \A a \in Bodies : a > call[c].by => ~body[a].tracked)
        => StoppedAfter(c)

\* Every execution is recorded in the end, though commands may never settle and bodies
\* never return (EXECUTION_TIMEOUT_MS, ACTION_DRAIN_BUDGET_MS), with one exception: a
\* resumed body that keeps the isolate for ever before the host has its reference to
\* __awaitAutomations, an await that no timer bounds.
ExecutionEnds == <>(phase = "recorded") \/ <>[](phase = "asking" /\ turn # NoBody)

\* What execute() says of its budget: the wait cannot hang.
AlwaysEnds == <>(phase = "recorded")

\* What execute() says of its second stage: it covers the calls outside automation().
StragglersAreCovered ==
    record.cause = "drained" => \A c \in Calls : call[c].at \notin {"crossing", "late"}

\* What execute() says of itself: a runtime throw maps to a failure.
ThrowIsFailure ==
    (\E b \in Bodies : body[b].tracked /\ body[b].at = "thrown") => ~record.success

\* What the reference documentation says of automation(): fail-fast without exemption.
AlwaysFailFast == \A c \in Calls : StoppedAfter(c)

\* What the bootstrap script says of its flag: it is per invocation, so that a body
\* breaks off only after a failed call of its own.
StopsForItsOwn ==
    \A b \in Bodies :
        body[b].at = "broken" =>
            \E c \in Calls : call[c].by = b /\ HasFailed(call[c])

\* What the collector says of itself: no result is ever dropped.
NoResultIsDropped ==
    phase = "recorded" =>
        record.results = {r \in Calls \X Parts : call[r[1]].part[r[2]] \in Outcomes}
=============================================================================
