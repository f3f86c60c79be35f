----------------------------- MODULE MCDataStore -----------------------------
(***************************************************************************)
(* DataStore for TLC.  With two bytes for a record, a budget of five bytes *)
(* holds two records and one of seven holds three: the budget is rounded   *)
(* down.  An administrator may lower all limits; with two records in one   *)
(* collection the next write then evicts twice, once for the budget and    *)
(* once for the cap.  A save that stops half way mixes the two.            *)
(***************************************************************************)
EXTENDS DataStore

MCOffered == {[storage |-> 7, records |-> 3, collections |-> 2],
              [storage |-> 5, records |-> 1, collections |-> 1]}
=============================================================================
