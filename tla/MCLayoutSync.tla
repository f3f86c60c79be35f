---------------------------- MODULE MCLayoutSync ----------------------------
(***************************************************************************)
(* LayoutSync for TLC: two browsers.                                       *)
(***************************************************************************)
EXTENDS LayoutSync

MCReads == [b \in {"anna", "ben"} |-> IF b = "anna" THEN 2 ELSE 1]
MCIncidents == [b \in {"anna", "ben"} |-> IF b = "anna" THEN 1 ELSE 0]
MCNoIncidents == [b \in {"anna", "ben"} |-> 0]
=============================================================================
