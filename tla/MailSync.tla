------------------------------ MODULE MailSync ------------------------------
(***************************************************************************)
(* The synchronisation by e-mail.  The device cannot be looked at: the run *)
(* takes the history for its content (dstOIS = hstOIS.Clone()), the cases  *)
(* 6 and 7 are skipped, and what remains of case 3 is a mail for each book *)
(* that is new or changed since the history was saved.  Mails are sent one *)
(* by one, and the history is saved after all of them.                     *)
(*                                                                         *)
(* The mail server is external: a mail whose sending fails may have been   *)
(* delivered all the same.                                                 *)
(***************************************************************************)
EXTENDS Naturals, FiniteSets

CONSTANTS
  Books,
  Contents,   \* versions of a book, told apart by their hash
  Absent,
  MaxEdits,   \* bound on the edits of the user
  MaxFaults   \* bound on crashes and failing mails

ASSUME BooksAssumption == IsFiniteSet(Books)
ASSUME AbsentAssumption == Absent \notin Contents
ASSUME BoundsAssumption == MaxEdits \in Nat /\ MaxFaults \in Nat

VARIABLES
  local,    \* files under the source directory
  history,  \* objects of the last step
  synced,   \* the history has a step
  pc,       \* "idle" or "send"
  dryRun,
  snap,     \* srcOIS
  outbox,   \* books whose mail is still to be sent
  anyAction,
  edits,
  faults,
  \* what has happened so far
  mailed,   \* mailed[b]: the last version of b mailed since it became local
  delivered,\* all versions mailed, as pairs of a book and a version
  repeats,  \* mails with the version mailed last
  apart     \* no edit fell into a run

run  == <<pc, dryRun, snap, outbox, anyAction>>
mail == <<mailed, delivered, repeats>>
vars == <<local, history, synced, run, edits, faults, mail, apart>>

NoFiles == [b \in Books |-> Absent]

Keys(ois) == {b \in Books : ois[b] # Absent}

Init ==
  /\ local \in [Books -> Contents \cup {Absent}]
  /\ history = NoFiles
  /\ synced = FALSE
  /\ pc = "idle" /\ dryRun = FALSE /\ snap = NoFiles /\ outbox = {}
  /\ anyAction = FALSE
  /\ edits = 0
  /\ faults = 0
  /\ mailed = NoFiles
  /\ delivered = {}
  /\ repeats = 0
  /\ apart = TRUE

-----------------------------------------------------------------------------
(* The user edits the source, also while the tool runs. *)

Edit(b, c) ==
  /\ edits < MaxEdits
  /\ local[b] # c
  /\ local' = [local EXCEPT ![b] = c]
  /\ mailed' = IF c = Absent THEN [mailed EXCEPT ![b] = Absent] ELSE mailed
  /\ edits' = edits + 1
  /\ apart' = (apart /\ pc = "idle")
  /\ UNCHANGED <<history, synced, run, faults, delivered, repeats>>

-----------------------------------------------------------------------------
(* Everything the run holds in memory is gone when it ends. *)
EndRun ==
  /\ pc' = "idle"
  /\ dryRun' = FALSE
  /\ snap' = NoFiles
  /\ outbox' = {}
  /\ anyAction' = FALSE

(* Definitions named Wrong... are faulty variants that nothing uses. *)
WrongNewOrChanged(src, h) == Keys(src) \ Keys(h)

(* localBooks.Subtract(deviceBooks).Union(changedLocalBooks), where        *)
(* deviceBooks is the history.                                             *)
NewOrChanged(src, h) ==
  (Keys(src) \ Keys(h)) \cup {b \in Keys(src) \cap Keys(h) : src[b] # h[b]}

(* "no books in the source path": the run ends at once. *)
NoLocalBooks ==
  /\ pc = "idle"
  /\ Keys(local) = {}
  /\ UNCHANGED vars

(* Sync up to the planned actions. *)
PrepareActions(dry) ==
  /\ pc = "idle"
  /\ Keys(local) # {}
  /\ pc' = "send"
  /\ dryRun' = dry
  /\ snap' = local
  /\ outbox' = NewOrChanged(local, history)
  /\ anyAction' = (outbox' # {})
  /\ UNCHANGED <<local, history, synced, edits, faults, mail, apart>>

(* A mail with the version that the source has now has been delivered. *)
Delivered(b) ==
  /\ mailed' = [mailed EXCEPT ![b] = local[b]]
  /\ delivered' = delivered \cup {<<b, local[b]>>}
  /\ repeats' = IF mailed[b] = local[b] THEN repeats + 1 ELSE repeats

(* Copy: the attachment is read from the source when the mail is sent. *)
Send(b) ==
  /\ pc = "send"
  /\ b \in outbox
  /\ \/ dryRun /\ UNCHANGED mail
     \/ ~dryRun /\ local[b] # Absent /\ Delivered(b)
  /\ outbox' = outbox \ {b}
  /\ UNCHANGED <<local, history, synced, pc, dryRun, snap, anyAction, edits,
                 faults, apart>>

(* The book is gone: the run ends with an error and nothing is saved. *)
NothingToAttach ==
  /\ pc = "send"
  /\ ~dryRun
  /\ \E b \in outbox : local[b] = Absent
  /\ EndRun
  /\ UNCHANGED <<local, history, synced, edits, faults, mail, apart>>

WrongSendFailsGoesOn(b) ==
  /\ pc = "send"
  /\ ~dryRun
  /\ b \in outbox
  /\ faults < MaxFaults
  /\ faults' = faults + 1
  /\ outbox' = outbox \ {b}
  /\ UNCHANGED <<local, history, synced, pc, dryRun, snap, anyAction, edits,
                 mail, apart>>

(* DialAndSend returns an error, before or after the server has taken the  *)
(* mail; or the process dies there.                                        *)
SendFails(b) ==
  /\ pc = "send"
  /\ ~dryRun
  /\ b \in outbox
  /\ faults < MaxFaults
  /\ faults' = faults + 1
  /\ \/ UNCHANGED mail
     \/ local[b] # Absent /\ Delivered(b)
  /\ EndRun
  /\ UNCHANGED <<local, history, synced, edits, apart>>

(* The process dies between two mails, or the history cannot be saved. *)
Interrupt ==
  /\ pc = "send"
  /\ faults < MaxFaults
  /\ faults' = faults + 1
  /\ EndRun
  /\ UNCHANGED <<local, history, synced, edits, mail, apart>>

WrongFinishOfDryRun ==
  /\ pc = "send"
  /\ outbox = {}
  /\ IF anyAction \/ ~synced
     THEN history' = snap /\ synced' = TRUE
     ELSE UNCHANGED <<history, synced>>
  /\ EndRun
  /\ UNCHANGED <<local, edits, faults, mail, apart>>

WrongFinishSavesOnce ==
  /\ pc = "send"
  /\ outbox = {}
  /\ IF ~dryRun /\ ~synced
     THEN history' = snap /\ synced' = TRUE
     ELSE UNCHANGED <<history, synced>>
  /\ EndRun
  /\ UNCHANGED <<local, edits, faults, mail, apart>>

(* SaveObjectInfos records what the scan has seen. *)
Finish ==
  /\ pc = "send"
  /\ outbox = {}
  /\ IF ~dryRun /\ (anyAction \/ ~synced)
     THEN history' = snap /\ synced' = TRUE
     ELSE UNCHANGED <<history, synced>>
  /\ EndRun
  /\ UNCHANGED <<local, edits, faults, mail, apart>>

UserNext == \E b \in Books, c \in Contents \cup {Absent} : Edit(b, c)

RunGoesOn == (\E b \in Books : Send(b)) \/ NothingToAttach \/ Finish

Next ==
  \/ UserNext
  \/ NoLocalBooks
  \/ \E dry \in BOOLEAN : PrepareActions(dry)
  \/ RunGoesOn
  \/ \E b \in Books : SendFails(b)
  \/ Interrupt

Spec == Init /\ [][Next]_vars

(* A run goes on until it ends, and the user keeps starting the tool       *)
(* without --dry-run.                                                      *)
FairSpec == Spec /\ WF_vars(RunGoesOn) /\ SF_vars(PrepareActions(FALSE))

-----------------------------------------------------------------------------
Files == Contents \cup {Absent}

(* What is still to be mailed was found by this run's scan. *)
TypeOK ==
  /\ local \in [Books -> Files]
  /\ history \in [Books -> Files]
  /\ synced \in BOOLEAN
  /\ pc \in {"idle", "send"}
  /\ dryRun \in BOOLEAN
  /\ snap \in [Books -> Files]
  /\ outbox \in SUBSET Keys(snap)
  /\ anyAction \in BOOLEAN
  /\ edits \in 0..MaxEdits
  /\ faults \in 0..MaxFaults
  /\ mailed \in [Books -> Files]
  /\ delivered \in SUBSET (Books \X Contents)
  /\ repeats \in Nat
  /\ apart \in BOOLEAN

(* Nothing gets into the history unmailed: some version of a recorded book *)
(* has been mailed, whatever breaks and whoever edits; and the recorded    *)
(* version itself, when no edit falls into a run.                          *)
RecordedWasMailed ==
  \A b \in Keys(history) :
    /\ \E c \in Contents : <<b, c>> \in delivered
    /\ apart => <<b, history[b]>> \in delivered

(* The inductive invariant behind RecordedWasMailed: a real run has mailed *)
(* what it is going to record, or still has to mail it.                    *)
MailedOrPending ==
  pc = "send" /\ ~dryRun =>
    \A b \in Keys(snap) \ outbox :
      /\ \E c \in Contents : <<b, c>> \in delivered
      /\ apart => <<b, snap[b]>> \in delivered

(* Mails are sent at least once, and a version is mailed again only by     *)
(* reason of a run that was broken off: each such run can make every book  *)
(* go out once more, and without one nothing is mailed twice.              *)
RepeatsAreBounded == apart => repeats <= faults * Cardinality(Books)

(* "New or updated books should be sent to the device": in the end every   *)
(* local book has been mailed in its local version.  With the proviso that *)
(* no edit falls into a run it holds, and without it it does not.          *)
AllMailed == \A b \in Keys(local) : <<b, local[b]>> \in delivered

EventuallyMailed == <>[](apart => AllMailed)

UpdatesAreMailed == <>[]AllMailed
=============================================================================
