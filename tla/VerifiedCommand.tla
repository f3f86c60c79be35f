--------------------------- MODULE VerifiedCommand ---------------------------
(***************************************************************************)
(* What CommandService promises of each command, without saying how: it is *)
(* sent at most once, it has one outcome, and its journal entry is closed  *)
(* at most once, with that outcome or, by the reconciliation after it has  *)
(* ended, as a failure.                                                    *)
(***************************************************************************)
CONSTANT Commands

VARIABLES
    phase,   \* "new", "sent", "done" (the caller has a result) or "lost"
    outcome, \* what the caller was told
    journal  \* the durable record

vars == <<phase, outcome, journal>>

Outcomes == {"success", "failure"}

Init ==
    /\ phase = [c \in Commands |-> "new"]
    /\ outcome = [c \in Commands |-> "none"]
    /\ journal = [c \in Commands |-> "none"]

-----------------------------------------------------------------------------
(* The steps of one command.                                               *)

Stay(c) ==
    phase'[c] = phase[c] /\ outcome'[c] = outcome[c] /\ journal'[c] = journal[c]

(* Refused before it is sent, possibly with a record of the refusal.       *)
Refuse(c) ==
    /\ phase[c] = "new" /\ phase'[c] = "done"
    /\ outcome'[c] = "failure"
    /\ journal'[c] \in {journal[c], "open", "failure"}

Send(c) ==
    /\ phase[c] = "new" /\ phase'[c] = "sent"
    /\ outcome'[c] = outcome[c]
    /\ journal'[c] \in {journal[c], "open"}

(* The caller gets the outcome.  An open journal entry is closed with the  *)
(* same outcome, or stays open when the write fails.                       *)
Settle(c) ==
    /\ phase[c] = "sent" /\ phase'[c] = "done"
    /\ outcome'[c] \in Outcomes
    /\ \/ journal'[c] = journal[c]
       \/ journal[c] = "open" /\ journal'[c] = outcome'[c]

Interrupt(c) ==
    /\ phase[c] = "sent" /\ phase'[c] = "lost"
    /\ outcome'[c] = outcome[c] /\ journal'[c] = journal[c]

Reconcile(c) ==
    /\ phase[c] \in {"done", "lost"} /\ journal[c] = "open"
    /\ journal'[c] = "failure"
    /\ phase'[c] = phase[c] /\ outcome'[c] = outcome[c]

(* A stop of the process and the reconciliation concern many at once.      *)
Next ==
    \A c \in Commands :
        Stay(c) \/ Refuse(c) \/ Send(c) \/ Settle(c) \/ Interrupt(c) \/ Reconcile(c)

Spec == Init /\ [][Next]_vars
=============================================================================
