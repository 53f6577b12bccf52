----------------------------- MODULE MCHistoryDB -----------------------------
(***************************************************************************)
(* Instances of HistoryDB for TLC: two runs that may overlap, two objects. *)
(***************************************************************************)
EXTENDS HistoryDB, TLC

=============================================================================
