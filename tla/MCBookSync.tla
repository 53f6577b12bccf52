----------------------------- MODULE MCBookSync -----------------------------
(***************************************************************************)
(* Instances of BookSync for TLC.                                          *)
(***************************************************************************)
EXTENDS BookSyncObserved, TLC

CONSTANTS c1, c2, b1, b2

(* Two versions of the same length: a change between the scan and the copy *)
(* goes unnoticed by the size check.                                       *)
SameSize == [c \in Contents |-> 1]

(* Two versions of different length. *)
GrowingSize == (c1 :> 1) @@ (c2 :> 2)
=============================================================================
