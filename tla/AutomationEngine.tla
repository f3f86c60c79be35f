-------------------------- MODULE AutomationEngine --------------------------
(***************************************************************************)
(* AutomationEngine (src/automations/automation-engine.ts) composed with   *)
(* its execution gate, with the catalogue of rules the HTTP routes edit    *)
(* (src/api/routes/automation.routes.ts) and with the two ways in which    *)
(* an execution causes another one: Automation Events, which travel over   *)
(* the broker, and writes to Shared State, which wake rules in the same    *)
(* turn.                                                                   *)
(*                                                                         *)
(* A submitted request is a closure over the rule object it was made from: *)
(* cause[r] keeps the revision of that object and the causal depth of its  *)
(* trigger.  Which events match a rule's topic, scope and condition is     *)
(* left open.  The process starts with loadUiRules().                      *)
(***************************************************************************)
EXTENDS ExecutionGate

CONSTANTS
    Kind,         \* what submits a key: "device", "shared", "event", "cron" or "manual"
    Editors,      \* PUT requests that may be compiling at one time
    MaxRevision,  \* bound: revisions of a rule
    MaxDepth,     \* MAX_EVENT_DEPTH
    MaxInFlight   \* bound: Automation Events on their way through the broker

ASSUME EngineAssumption ==
    /\ Kind \in [Keys -> {"device", "shared", "event", "cron", "manual"}]
    /\ StateKeys = {key \in Keys : Kind[key] \in {"device", "shared"}}
    /\ MaxRevision \in Nat \ {0} /\ MaxDepth \in Nat /\ MaxInFlight \in Nat

VARIABLES
    rows,        \* automation_rules
    registered,  \* the revision the registry holds of a rule, 0 for none
    timers,      \* the revision a rule's cron timer was started for, 0 for none
    cause,       \* what each submitted request was made from
    edits,       \* PUT requests awaiting their compilation
    torn,        \* rules whose last route threw after it had written the row (history)
    inFlight     \* published Automation Events that have not come back

catalogue == <<rows, registered, timers, edits, torn>>
evars == <<vars, catalogue, cause, inFlight>>

NoEdit == [rule |-> "none", expected |-> 0]

\* An execution's trigger: its depth as the code has it; the number of executions that
\* really led to it, and whether one of them used db.set()/db.delete() (history).
Causes == [version : 1..MaxRevision, depth : 0..MaxDepth,
           hops : Nat, alias : BOOLEAN]

Live(rule) == rows[rule].state = "live"

EngineInit ==
    /\ Init
    /\ rows \in [Rules -> [state : {"live", "absent"}, enabled : BOOLEAN, cron : BOOLEAN,
                           revision : {1}]]
    /\ \A rule \in Rules : rows[rule].state = "absent" =>
            rows[rule].enabled /\ ~rows[rule].cron
    /\ registered = [rule \in Rules |-> IF Live(rule) /\ rows[rule].enabled THEN 1 ELSE 0]
    /\ timers = [rule \in Rules |-> IF registered[rule] = 1 /\ rows[rule].cron THEN 1 ELSE 0]
    /\ edits = [e \in Editors |-> NoEdit] /\ torn = {}
    /\ cause = <<>> /\ inFlight = {}

-----------------------------------------------------------------------------
(* Triggers.  Each submits what it matched to the gate.                     *)

\* A callback of its own: a request, a timer, a message.
Turn == draining = "no"

SubmitFrom(key, version, depth, hops, alias) ==
    /\ Submit(key)
    /\ cause' = Append(cause, [version |-> version, depth |-> depth,
                               hops |-> hops, alias |-> alias])
    /\ UNCHANGED catalogue

Matches(key, kind) == Kind[key] = kind /\ registered[RuleOf[key]] # 0

\* evaluate(), fire(), and a change of Shared State made through the REST API.
External(key) ==
    /\ Turn /\ \E kind \in {"device", "manual", "shared"} : Matches(key, kind)
    /\ SubmitFrom(key, registered[RuleOf[key]], 0, 0, FALSE)
    /\ UNCHANGED inFlight

\* The callback of a cron timer closes over the rule register() was given.
CronFires(key) ==
    /\ Turn /\ Kind[key] = "cron" /\ timers[RuleOf[key]] # 0
    /\ SubmitFrom(key, timers[RuleOf[key]], 0, 0, FALSE)
    /\ UNCHANGED inFlight

\* Mutation: the depth of the trigger is not handed on.
ChildDepthLost(r) == 0

\* The depth of what execution r causes.
ChildDepth(r) == cause[r].depth + 1

\* shared.set()/shared.delete() of execution r, and evaluateSharedStateChange().
SharedSet(r, key) ==
    /\ Matches(key, "shared") /\ ChildDepth(r) <= MaxDepth
    /\ SubmitFrom(key, registered[RuleOf[key]], ChildDepth(r), cause[r].hops + 1, cause[r].alias)
    /\ UNCHANGED inFlight

\* The aliases db.set()/db.delete() hand Shared State no context: the change has no depth.
DbSet(r, key) ==
    /\ Matches(key, "shared")
    /\ SubmitFrom(key, registered[RuleOf[key]], 0, cause[r].hops + 1, TRUE)
    /\ UNCHANGED inFlight

\* events.emit() of execution r.
EmitEvent(r) ==
    /\ ChildDepth(r) <= MaxDepth /\ Cardinality(inFlight) < MaxInFlight
    /\ inFlight' = inFlight \cup
            {[depth |-> ChildDepth(r), hops |-> cause[r].hops + 1, alias |-> cause[r].alias]}
    /\ UNCHANGED <<vars, catalogue, cause>>

\* The event comes back: evaluateAutomationEvent().  Its id makes its key a new one.
EventArrives(event, key) ==
    /\ Turn /\ Matches(key, "event") /\ key \notin dedupKeys
    /\ SubmitFrom(key, registered[RuleOf[key]], event.depth, event.hops, event.alias)
    /\ inFlight' = inFlight \ {event}

EventLost(event) ==
    /\ inFlight' = inFlight \ {event}
    /\ UNCHANGED <<vars, catalogue, cause>>

-----------------------------------------------------------------------------
(* The catalogue.  A route writes the row, then acts on the registry.  It   *)
(* may throw between the two (fails): a statement of the database or the    *)
(* factory of a condition does.                                             *)

\* register(): replaces the registry's entry; starts a timer for a cron rule.
Register(rule, row) ==
    /\ registered' = [registered EXCEPT ![rule] = row.revision]
    /\ timers' = IF row.cron THEN [timers EXCEPT ![rule] = row.revision] ELSE timers

\* Mutation: the cron timer is left running.
UnregisterKeepsTimer(rule) ==
    /\ registered' = [registered EXCEPT ![rule] = 0]
    /\ UNCHANGED timers

\* unregister()
Unregister(rule) ==
    /\ registered' = [registered EXCEPT ![rule] = 0]
    /\ timers' = [timers EXCEPT ![rule] = 0]

\* Mutation: a rule that has been disabled meanwhile is registered again.
ReregisterAlways(rule, row) ==
    /\ registered' = [registered EXCEPT ![rule] = row.revision]
    /\ timers' = [timers EXCEPT ![rule] = IF row.cron THEN row.revision ELSE 0]

\* Mutation: register() without unregister(): the timer of a former cron rule stays.
ReregisterKeepsTimer(rule, row) ==
    IF row.enabled THEN Register(rule, row) ELSE Unregister(rule)

\* unregister(), then register() if the row is enabled.
Reregister(rule, row) ==
    IF row.enabled
    THEN /\ registered' = [registered EXCEPT ![rule] = row.revision]
         /\ timers' = [timers EXCEPT ![rule] = IF row.cron THEN row.revision ELSE 0]
    ELSE Unregister(rule)

Catalogued == UNCHANGED <<vars, cause, inFlight>>

Written(rule, row, fails) ==
    /\ rows' = [rows EXCEPT ![rule] = row]
    /\ torn' = IF fails THEN torn \cup {rule} ELSE torn \ {rule}

\* POST /: the rule starts enabled.
Create(rule, fails) ==
    /\ Turn /\ rows[rule].state = "absent"
    /\ \E cron \in BOOLEAN :
        LET row == [state |-> "live", enabled |-> TRUE, cron |-> cron, revision |-> 1]
        IN  /\ Written(rule, row, fails)
            /\ IF fails THEN UNCHANGED <<registered, timers>> ELSE Register(rule, row)
    /\ UNCHANGED edits /\ Catalogued

\* PUT /:id and PUT /:id/project, up to the await of the compiler.  The revision the
\* client expects is one it has seen.
BeginEdit(e, rule) ==
    /\ Turn /\ edits[e] = NoEdit /\ Live(rule)
    /\ \E expected \in 1..rows[rule].revision :
        edits' = [edits EXCEPT ![e] = [rule |-> rule, expected |-> expected]]
    /\ UNCHANGED <<rows, registered, timers, torn>> /\ Catalogued

\* ... and from there: the update is conditional on the revision.
EditApplies(e) == Live(edits[e].rule) /\ rows[edits[e].rule].revision = edits[e].expected

FinishEdit(e, fails) ==
    /\ Turn /\ edits[e] # NoEdit /\ EditApplies(e)
    /\ rows[edits[e].rule].revision < MaxRevision
    /\ edits' = [edits EXCEPT ![e] = NoEdit]
    /\ \E cron \in BOOLEAN :
        LET rule == edits[e].rule
            row == [rows[rule] EXCEPT !.revision = @ + 1, !.cron = cron]
        IN  /\ Written(rule, row, fails)
            /\ IF fails THEN Unregister(rule) ELSE Reregister(rule, row)
    /\ Catalogued

\* It does not compile, or the row has changed: 400 or 409.
RefuseEdit(e) ==
    /\ Turn /\ edits[e] # NoEdit
    /\ edits' = [edits EXCEPT ![e] = NoEdit]
    /\ UNCHANGED <<rows, registered, timers, torn>> /\ Catalogued

\* PATCH /:id/toggle
Toggle(rule, enabled, fails) ==
    /\ Turn /\ Live(rule) /\ (fails => enabled)
    /\ Written(rule, [rows[rule] EXCEPT !.enabled = enabled], fails)
    /\ CASE fails -> UNCHANGED <<registered, timers>>
         [] ~fails /\ enabled -> Register(rule, rows[rule])
         [] OTHER -> Unregister(rule)
    /\ UNCHANGED edits /\ Catalogued

\* DELETE /:id, at the revision the row has: the row, the private state, the registry.
Delete(rule, fails) ==
    /\ Turn /\ Live(rule)
    /\ Written(rule, [rows[rule] EXCEPT !.state = "deleted"], fails)
    /\ IF fails THEN UNCHANGED <<registered, timers>> ELSE Unregister(rule)
    /\ UNCHANGED edits /\ Catalogued
-----------------------------------------------------------------------------
Engine == UNCHANGED <<catalogue, cause, inFlight>>

Settle(r) == Complete(r) /\ Engine
PromoteNext == Promote /\ Engine
StopDrain == EndDrain /\ Engine
Clock == Tick /\ Engine

EngineNext ==
    \/ \E key \in Keys : External(key) \/ CronFires(key)
    \/ \E r \in active, key \in Keys : SharedSet(r, key) \/ DbSet(r, key)
    \/ \E r \in active : EmitEvent(r)
    \/ \E event \in inFlight : EventLost(event) \/ \E key \in Keys : EventArrives(event, key)
    \/ \E rule \in Rules, fails \in BOOLEAN :
          Create(rule, fails) \/ Delete(rule, fails) \/ \E on \in BOOLEAN : Toggle(rule, on, fails)
    \/ \E e \in Editors :
          \/ RefuseEdit(e)
          \/ \E fails \in BOOLEAN : FinishEdit(e, fails)
          \/ \E rule \in Rules : BeginEdit(e, rule)
    \/ \E r \in active : Settle(r)
    \/ PromoteNext \/ StopDrain \/ Clock

EngineSpec == EngineInit /\ [][EngineNext]_evars

\* As for the gate alone: a drain is synchronous.
FairEngineSpec == EngineSpec /\ WF_evars(PromoteNext) /\ WF_evars(StopDrain)

-----------------------------------------------------------------------------
(* Properties.                                                              *)

EngineTypeOK ==
    /\ TypeOK
    /\ rows \in [Rules -> [state : {"absent", "live", "deleted"}, enabled : BOOLEAN,
                           cron : BOOLEAN, revision : 1..MaxRevision]]
    /\ registered \in [Rules -> 0..MaxRevision] /\ timers \in [Rules -> 0..MaxRevision]
    /\ edits \in [Editors -> {NoEdit} \cup [rule : Rules, expected : 1..MaxRevision]]
    /\ torn \subseteq Rules
    /\ cause \in Seq(Causes) /\ Len(cause) = Len(keyOf)
    /\ inFlight \subseteq [depth : 0..MaxDepth, hops : Nat, alias : BOOLEAN]

\* The registry holds exactly the enabled rules at the revision of their row, and a
\* cron timer runs for exactly those of them that are cron rules, whatever edits,
\* toggles and deletions came between a PUT and the end of its compilation.  A rule whose
\* last route threw after it had written the row is exempt until a later route succeeds:
\* it may be missing, or left over from a deletion, but is never of another revision.
RegistryFollowsRows ==
    \A rule \in Rules :
        LET on == Live(rule) /\ rows[rule].enabled
        IN  /\ registered[rule] \in {0, IF rows[rule].enabled THEN rows[rule].revision ELSE 0}
            /\ timers[rule] \in {0, IF rows[rule].cron THEN registered[rule] ELSE 0}
            /\ rule \notin torn =>
                  /\ registered[rule] # 0 <=> on
                  /\ timers[rule] # 0 <=> on /\ rows[rule].cron

\* A request made after an edit never runs an older rule than a request made before it,
\* although queued requests keep the rule object they captured.
LaterRequestsRunLaterRules ==
    \A r, s \in DOMAIN cause :
        r <= s /\ RuleOf[keyOf[r]] = RuleOf[keyOf[s]] => cause[r].version <= cause[s].version

\* One causal budget covers a chain that mixes Automation Events and Shared State
\* writes: no execution is more than MAX_EVENT_DEPTH executions away from an outside
\* cause, unless the chain went through the db.* aliases.
MixedChainsAreBounded ==
    \A r \in DOMAIN cause : ~cause[r].alias => cause[r].hops <= MaxDepth

\* A request was made from a rule that its row has, or had; a rule never created is at 1,
\* and no route has thrown on it.
VersionsAreOfRows ==
    /\ \A r \in DOMAIN cause : cause[r].version <= rows[RuleOf[keyOf[r]]].revision
    /\ \A rule \in Rules : rows[rule].state = "absent" => rows[rule].revision = 1 /\ rule \notin torn

\* The depth a trigger carries is the number of executions that led to it.
DepthsAreTrue ==
    /\ \A r \in DOMAIN cause : ~cause[r].alias => cause[r].hops = cause[r].depth
    /\ \A event \in inFlight : ~event.alias => event.hops = event.depth

\* The inductive invariant behind the three.
EngineInv ==
    /\ EngineTypeOK /\ RegistryFollowsRows /\ LaterRequestsRunLaterRules
    /\ VersionsAreOfRows /\ DepthsAreTrue

\* automation-engine.ts:394, "so an unbounded chain would run forever. The ceiling is
\* shared with Automation Events so one causal budget covers a mixed chain".
EveryChainIsBounded == \A r \in DOMAIN cause : cause[r].hops <= MaxDepth

\* unregister() leaves the gate's queue alone, so an execution of a deleted rule that
\* was waiting still starts (QueuedEventuallyStarts); but nothing wakes the rule again,
\* neither a late event nor a timer (the DELETE route), unless deleting its private state
\* threw, and the rule with it.  A disabled rule is never woken.
DeletedRuleIsNotWoken ==
    [][\A r \in DOMAIN keyOf' \ DOMAIN keyOf :
            LET rule == RuleOf[keyOf'[r]]
            IN  rows[rule].enabled /\ (Live(rule) \/ rule \in torn)]_evars

\* Without the exemption: a rule that was deleted is gone (the DELETE route).
DeletedIsGone == \A rule \in Rules : rows[rule].state = "deleted" => registered[rule] = 0
=============================================================================
