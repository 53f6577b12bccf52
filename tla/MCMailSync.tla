----------------------------- MODULE MCMailSync -----------------------------
(***************************************************************************)
(* Instances of MailSync for TLC.                                          *)
(***************************************************************************)
EXTENDS MailSync, TLC

BooksAndVersions == Permutations(Books) \cup Permutations(Contents)
=============================================================================
