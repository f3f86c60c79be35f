------------------------- MODULE MCScriptExecution -------------------------
(***************************************************************************)
(* Two bodies, the first of up to two callbacks, and two calls that        *)
(* dispatch up to two commands between them: enough for two bodies to      *)
(* share the flag, for a gap between two sequential actions, for a call    *)
(* that arrives during the drain or after it, and for a bulk call that     *)
(* fails in part.                                                          *)
(***************************************************************************)
EXTENDS ScriptExecution

MCCallbacks == <<2, 1>>
MCMatches == {2}
=============================================================================
