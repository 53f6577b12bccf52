------------------------------ MODULE SyncPlan ------------------------------
(***************************************************************************)
(* PrepareActions of sync/prepare.go as far as it concerns the books: the  *)
(* three rows of its table that lead to actions, computed with the set     *)
(* operations of objects/infoset.go on the keys of the sets L (local), H   *)
(* (history) and D (device).  ignore is the switch of the run,             *)
(* --ignore-device-removals.                                               *)
(*                                                                         *)
(* Definitions named Wrong... are faulty variants of the definition after  *)
(* them, here and in the other modules.  Nothing uses them; each stands    *)
(* for a mistake one could make in the code and is there to show that a    *)
(* property would notice it.                                               *)
(***************************************************************************)
CONSTANTS
  Books,   \* relative paths of books
  Absent   \* there is no such file

NoFiles == [b \in Books |-> Absent]

(* The keys of an ObjectInfoSet given as a function from paths to files. *)
Keys(ois) == {b \in Books : ois[b] # Absent}

WrongCase7WithoutHistory(ignore, L, H, D) == L \ D

(* Books in the history and in the source, but gone from the device. *)
Case7Books(ignore, L, H, D) ==
  IF ignore THEN {} ELSE (H \ D) \cap L

WrongCase6WithoutHistory(ignore, L, H, D) == D \ (L \ Case7Books(ignore, L, H, D))

(* Books on the device and in the history, but gone from the source, once *)
(* the books of case 7 no longer count as local.                          *)
Case6Books(ignore, L, H, D) ==
  (D \ (L \ Case7Books(ignore, L, H, D))) \cap H

WrongChangedBooks(src, h, L) == {}

(* Local books whose hash differs from the one in the history. *)
ChangedBooks(src, h, L) ==
  {b \in L \cap Keys(h) : src[b] # h[b]}

WrongCase3OnlyUnrecorded(ignore, src, h, L, D) ==
  LET left == L \ Case7Books(ignore, L, Keys(h), D)
  IN  (left \ Keys(h)) \cup ChangedBooks(src, h, left)

(* Books that are not on the device, and books that have been changed. *)
Case3Books(ignore, src, h, L, D) ==
  LET left == L \ Case7Books(ignore, L, Keys(h), D)
  IN  (left \ (D \ Case6Books(ignore, L, Keys(h), D))) \cup ChangedBooks(src, h, left)
=============================================================================
