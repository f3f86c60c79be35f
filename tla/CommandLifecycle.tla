-------------------------- MODULE CommandLifecycle --------------------------
(***************************************************************************)
(* The lifecycle table and the confirmation tiers of a command             *)
(* (src/automations/command-lifecycle.ts), and the tier a command gets     *)
(* (CommandService.resolveEffectiveTier).                                  *)
(***************************************************************************)
EXTENDS Integers

States == {"REQUESTED", "DISPATCHED", "ACKNOWLEDGED", "OBSERVED", "FAILED",
           "TIMED_OUT", "STATE_MISMATCH"}

AllowedTransitions ==
    [s \in States |->
        CASE s = "REQUESTED" -> {"DISPATCHED", "FAILED"}
          [] s = "DISPATCHED" -> {"ACKNOWLEDGED", "OBSERVED", "FAILED", "TIMED_OUT", "STATE_MISMATCH"}
          [] s = "ACKNOWLEDGED" -> {"OBSERVED", "FAILED", "TIMED_OUT", "STATE_MISMATCH"}
          [] OTHER -> {}]

(* Mutation: the timeline may fall back from ACKNOWLEDGED to DISPATCHED.   *)
CanTransitionBack(from, to) ==
    \/ to \in AllowedTransitions[from]
    \/ from = "ACKNOWLEDGED" /\ to = "DISPATCHED"

CanTransition(from, to) == from # to /\ to \in AllowedTransitions[from]

TerminalStates == {"OBSERVED", "FAILED", "TIMED_OUT", "STATE_MISMATCH"}
SuccessStates == {"DISPATCHED", "ACKNOWLEDGED", "OBSERVED"}

-----------------------------------------------------------------------------
Tiers == {"dispatch", "acknowledged", "observed"}

(* The tier a caller may ask for; "any" when it does not ask.              *)
RequestedTiers == Tiers \cup {"any"}

SelectRequiredTier(hasConfirm, hasAck) ==
    IF hasConfirm THEN "observed" ELSE IF hasAck THEN "acknowledged" ELSE "dispatch"

(* The tier is one this command can prove.                                 *)
Provable(tier, hasConfirm, hasAck) ==
    \/ tier = "dispatch"
    \/ tier = "acknowledged" /\ hasAck
    \/ tier = "observed" /\ hasConfirm

EffectiveTier(requested, hasConfirm, hasAck) ==
    IF requested # "any" /\ Provable(requested, hasConfirm, hasAck)
    THEN requested
    ELSE SelectRequiredTier(hasConfirm, hasAck)

(* How much a tier proves: Observed > Acknowledged > Dispatch.             *)
TierRank(tier) ==
    CASE tier = "dispatch" -> 0 [] tier = "acknowledged" -> 1 [] tier = "observed" -> 2

(* The state in which a command of this tier succeeds.                     *)
CompletionState(tier) ==
    CASE tier = "dispatch" -> "DISPATCHED"
      [] tier = "acknowledged" -> "ACKNOWLEDGED"
      [] tier = "observed" -> "OBSERVED"
=============================================================================
