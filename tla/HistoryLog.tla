----------------------------- MODULE HistoryLog -----------------------------
(***************************************************************************)
(* What sync/run.go needs of the history database: a log of snapshots.  A  *)
(* run opens it and sees the newest snapshot of that moment; at its end it *)
(* may append a whole snapshot of its own, and whether it ends well or     *)
(* not, nothing that has been appended is ever changed.                    *)
(***************************************************************************)
EXTENDS Sequences, Integers

CONSTANTS
  Runs,     \* runs of the tool, which may overlap
  Objects,  \* descriptions of files; a snapshot is a set of them
  Closed    \* a run that has not opened the log, or asked for nothing

VARIABLES
  log,   \* the snapshots, oldest first
  view,  \* view[r]: the snapshot r works with, or Closed
  wish   \* wish[r]: the snapshot r wants to append, or Closed

vars == <<log, view, wish>>

Newest(steps) == IF steps = << >> THEN {} ELSE steps[Len(steps)]

Init ==
  /\ log = << >>
  /\ view = [r \in Runs |-> Closed]
  /\ wish = [r \in Runs |-> Closed]

Open(r) ==
  /\ view[r] = Closed
  /\ view' = [view EXCEPT ![r] = Newest(log)]
  /\ UNCHANGED <<log, wish>>

Ask(r, snapshot) ==
  /\ view[r] # Closed
  /\ wish[r] = Closed
  /\ wish' = [wish EXCEPT ![r] = snapshot]
  /\ UNCHANGED <<log, view>>

Close(r) ==
  /\ view' = [view EXCEPT ![r] = Closed]
  /\ wish' = [wish EXCEPT ![r] = Closed]

(* The run ends with its snapshot in the log. *)
Save(r) ==
  /\ wish[r] # Closed
  /\ log' = Append(log, wish[r])
  /\ Close(r)

(* The run ends without. *)
Leave(r) ==
  /\ view[r] # Closed
  /\ Close(r)
  /\ UNCHANGED log

Next ==
  \E r \in Runs :
     \/ Open(r)
     \/ \E s \in SUBSET Objects : Ask(r, s)
     \/ Save(r)
     \/ Leave(r)

Spec == Init /\ [][Next]_vars
=============================================================================
