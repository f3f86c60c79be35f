--------------------------- MODULE MCExecutionGate ---------------------------
(***************************************************************************)
(* Two rules: "heat" reads one device; "light" reads two and is also run   *)
(* by hand, so three requests can compete for its queue of two.  Three     *)
(* slots, so that a drain may have two of them to fill.                    *)
(***************************************************************************)
EXTENDS ExecutionGate

MCRules == {"heat", "light"}
MCKeys == {"heat:temp", "light:lux", "light:motion", "light:manual"}
MCRuleOf == [key \in MCKeys |-> IF key = "heat:temp" THEN "heat" ELSE "light"]
MCStateKeys == MCKeys \ {"light:manual"}
=============================================================================
