------------------------ MODULE MCAutomationEngine ------------------------
(***************************************************************************)
(* One rule that Shared State, Automation Events and its timer wake, and   *)
(* that so can wake itself.                                                *)
(***************************************************************************)
EXTENDS AutomationEngine

MCRules == {"scene"}
MCKind == [key \in {"shared", "event", "cron"} |-> key]
MCKeys == DOMAIN MCKind
MCRuleOf == [key \in MCKeys |-> "scene"]
MCStateKeys == {"shared"}
MCEditors == {"put"}
=============================================================================
