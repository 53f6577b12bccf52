-------------------------- MODULE BookSyncObserved --------------------------
(***************************************************************************)
(* BookSync with history variables that remember what has happened to the  *)
(* books, and the properties that need them.  The added variables restrict *)
(* no step of BookSync.                                                    *)
(***************************************************************************)
EXTENDS BookSync

VARIABLES
  everLocal,     \* books that were in the source at some time
  everOnDevice,  \* books that were on the device at some time
  userRemoved,   \* books gone from the device by the hand of the user
  foreign,       \* books on the device as the user has put them there
  everForeign,   \* books the user has ever put on the device
  unbroken,      \* no run was broken off or has read only a part of a side
  apart,         \* no edit fell into a run
  quiet,         \* no edit since the last run started
  settled        \* the last run finished, and no edit since it started

observers == <<everLocal, everOnDevice, userRemoved, foreign, everForeign,
               unbroken, apart, quiet, settled>>
allVars == <<vars, observers>>

smooth == unbroken /\ apart

(* Books a step puts on the device or alters there, and takes from it. *)
Placed  == {b \in Books : device'[b] # Absent /\ device'[b] # device[b]}
Removed == {b \in Books : device'[b] = Absent /\ device[b] # Absent}

ObservedInit ==
  /\ Init
  /\ everLocal = Keys(local)
  /\ everOnDevice = {}
  /\ userRemoved = {}
  /\ foreign = {}
  /\ everForeign = {}
  /\ unbroken = TRUE
  /\ apart = TRUE
  /\ quiet = FALSE
  /\ settled = FALSE

ObserveAny ==
  /\ everLocal' = everLocal \cup Keys(local')
  /\ everOnDevice' = everOnDevice \cup Keys(device')

ObserveUser ==
  /\ ObserveAny
  /\ userRemoved' = (userRemoved \cup Removed) \ Placed
  /\ foreign' = (foreign \ Removed) \cup Placed
  /\ everForeign' = everForeign \cup Placed
  /\ unbroken' = unbroken
  /\ apart' = (apart /\ pc = "idle")
  /\ quiet' = FALSE
  /\ settled' = FALSE

ObserveTool ==
  /\ ObserveAny
  /\ userRemoved' = userRemoved \ Placed
  /\ foreign' = (foreign \ Removed) \ Placed
  /\ UNCHANGED <<everForeign, apart>>

ObserveRun ==
  /\ ObserveTool
  /\ unbroken' = unbroken
  /\ quiet' = (quiet \/ pc = "idle")
  /\ settled' = (quiet /\ pc = "exec" /\ pc' = "idle" /\ ~dryRun)

ObserveBreak ==
  /\ ObserveTool
  /\ unbroken' = FALSE
  /\ quiet' = FALSE
  /\ settled' = FALSE

ToolNext ==
  \/ RunNext /\ ObserveRun
  \/ BreakNext /\ ObserveBreak

ObservedNext ==
  \/ UserNext /\ ObserveUser
  \/ ToolNext

ObservedSpec == ObservedInit /\ [][ObservedNext]_allVars

(* The user keeps running the tool for real, and a run that has started    *)
(* goes on until it ends.                                                  *)
RunGoesOn == pc # "idle" /\ (RunNext \/ ActionFails \/ \E b \in Books : CopyOfOtherSize(b))
ToolIsRunAgain == StartSync(FALSE)

FairSpec ==
  /\ ObservedSpec
  /\ WF_vars(RunGoesOn)
  /\ SF_vars(ToolIsRunAgain)

-----------------------------------------------------------------------------
ObserversOK ==
  /\ everLocal \subseteq Books
  /\ everOnDevice \subseteq Books
  /\ userRemoved \subseteq Books
  /\ foreign \subseteq everForeign
  /\ everForeign \subseteq Books
  /\ unbroken \in BOOLEAN
  /\ apart \in BOOLEAN
  /\ quiet \in BOOLEAN
  /\ settled \in BOOLEAN

(* PrepareActions against the table in its package comment, for whatever   *)
(* the run has read: the rows 6 and 7, and row 3 together with the updates *)
(* that the table counts as row 8.                                         *)
Row(b) == <<snap[b] # Absent, history[b] # Absent, device[b] # Absent>>

PlanFollowsTable ==
  pc = "plan" =>
    LET L == Keys(snap)
        H == Keys(history)
        D == Keys(device)
    IN  \A ignore \in BOOLEAN :
          /\ Case7Books(ignore, L, H, D) =
               {b \in Books : Row(b) = <<TRUE, TRUE, FALSE>> /\ ~ignore}
          /\ Case6Books(ignore, L, H, D) =
               {b \in Books : Row(b) = <<FALSE, TRUE, TRUE>>}
          /\ Case3Books(ignore, snap, history, L, D) =
               {b \in Books : \/ Row(b) = <<TRUE, FALSE, FALSE>>
                              \/ Row(b) = <<TRUE, TRUE, FALSE>> /\ ignore
                              \/ Row(b) = <<TRUE, TRUE, TRUE>> /\ snap[b] # history[b]}

(* A book is in the history only if it has been on the device: no run that *)
(* was broken off, was a dry run or has met a changing source records a    *)
(* book it did not deliver (sync/run.go, the save after the loop).         *)
HistoryWasOnDevice == Keys(history) \subseteq everOnDevice

(* The inductive invariant behind HistoryWasOnDevice and the provenance of *)
(* what a run removes: a real run has every book it will record on the     *)
(* device already, or still has to copy it.                                *)
Provenance ==
  /\ Keys(local) \subseteq everLocal
  /\ Keys(snap) \subseteq everLocal
  /\ Keys(device) \subseteq everOnDevice
  /\ Keys(history) \subseteq everLocal \cap everOnDevice
  /\ case7 \subseteq everOnDevice
  /\ case6 \cup case3 \cup replace \subseteq everLocal
  /\ pc = "exec" /\ ~dryRun => Keys(snap) \subseteq everOnDevice \cup case3

(* When a run has finished and nobody has edited anything since, the next  *)
(* run plans nothing, whatever went wrong in earlier runs, and whatever    *)
(* its switches and theirs.                                                *)
NothingPlanned(src, h, dev) ==
  \A ignore \in BOOLEAN :
    /\ Case7Books(ignore, Keys(src), Keys(h), Keys(dev)) = {}
    /\ Case6Books(ignore, Keys(src), Keys(h), Keys(dev)) = {}
    /\ Case3Books(ignore, src, h, Keys(src), Keys(dev)) = {}

SecondRunIdle == settled => NothingPlanned(local, history, device)

(* The inductive invariant behind SecondRunIdle: during a real run without *)
(* edits, what the run will record is what is local but for the books it   *)
(* still has to remove, and is on the device but for those still to copy.  *)
QuietRun ==
  /\ settled => pc = "idle" /\ NothingPlanned(local, history, device)
  /\ quiet /\ pc = "plan" => snap = local
  /\ quiet /\ pc = "exec" /\ ~dryRun =>
       /\ \A b \in Books \ case7 : local[b] = snap[b]
       /\ case7 \cap Keys(snap) = {}
       /\ case6 \cap Keys(snap) = {}
       /\ replace \subseteq case3
       /\ case3 \subseteq Keys(snap)
       /\ Keys(snap) \subseteq Keys(device) \cup case3
       /\ ~anyAction => /\ case7 = {} /\ case6 = {} /\ case3 = {}
                        /\ NothingPlanned(local, history, device)

(* As long as no run was broken off and no edit fell into a run, a run     *)
(* leaves the device with the very version of each book that is local,     *)
(* but for the books the user has put on the device.                       *)
SmoothRunsMirror ==
  settled /\ smooth =>
    \A b \in Keys(local) \ everForeign : device[b] = local[b]

(* The inductive invariant behind the properties of smooth runs: between   *)
(* runs the history vouches for the device, that is, what it records and   *)
(* is not there was removed by the user, and what the tool has put there   *)
(* is the version recorded.                                                *)
Vouched ==
  /\ Keys(history) \ Keys(device) \subseteq userRemoved
  /\ \A b \in Keys(device) \ everForeign : history[b] = device[b]

SmoothRun ==
  smooth =>
    /\ pc # "idle" => quiet
    /\ pc # "exec" \/ dryRun \/ ~anyAction => Vouched
    /\ pc = "exec" /\ ~dryRun =>
         /\ case7 \subseteq userRemoved
         /\ \A b \in case3 \ replace : device[b] = Absent
         /\ \A b \in Books \ everForeign :
              /\ b \in Keys(snap) \ case3 => device[b] = snap[b]
              /\ b \notin Keys(snap) \cup case6 => device[b] = Absent

(* The tool takes a book out of the source only if that book was on the    *)
(* device at some time: a book that was never delivered is never deleted,  *)
(* with crashes and edits at any point of a run.                           *)
LocalLossNeedsDelivery ==
  [][Keys(local) \ Keys(local') \subseteq everOnDevice \/ UserNext]_allVars

(* As long as no run was broken off and no edit fell into a run, the tool  *)
(* takes a book out of the source only if the user has taken it off the    *)
(* device and it has not been there since (row 7 of the table).            *)
SmoothLocalLossIsRequested ==
  [][(smooth => Keys(local) \ Keys(local') \subseteq userRemoved) \/ UserNext]_allVars

(* A device file whose name no local book has ever had is never touched.   *)
ForeignBooksUntouched ==
  [][(\A b \in Books \ everLocal : device'[b] = device[b]) \/ UserNext]_allVars

(* Once the edits, crashes and errors are over, repeated runs bring every  *)
(* local book to the device and take the recorded books that are no longer *)
(* local from it; without any local book the tool refuses to run.          *)
Agreed ==
  \/ Keys(local) = {}
  \/ /\ Keys(local) \subseteq Keys(device)
     /\ (Keys(history) \ Keys(local)) \cap Keys(device) = {}

EventuallyAgreed == <>[]Agreed

-----------------------------------------------------------------------------
(* What the package comment and the README say without the provisos above. *)

(* Row 7, "manually removed (D)": the tool takes a book out of the source  *)
(* only if the user took it off the device, also when runs are broken off. *)
LocalLossIsRequested ==
  [][(apart => Keys(local) \ Keys(local') \subseteq userRemoved) \/ UserNext]_allVars

(* Row 4, "error (H)", gives L H D = + + +: after a run, a book on both    *)
(* sides is in the history.                                                *)
BothSidesAreRecorded ==
  settled /\ apart => Keys(local) \cap Keys(device) \subseteq Keys(history)

(* A book the user adds to the device is ignored and left untouched: even  *)
(* when nothing ever goes wrong and nobody edits while the tool runs.      *)
UserBooksUntouched ==
  [][\/ smooth /\ quiet => \A b \in foreign : device'[b] = device[b]
     \/ UserNext]_allVars

(* A book that has been synced and is then changed locally is handled by   *)
(* case 3: after a run that nobody disturbs, a book recorded before it is  *)
(* on the device in its local version, or else cut short there, but never  *)
(* in some older version.                                                  *)
RecordedBooksAreCurrent ==
  [][Finish /\ ~dryRun /\ quiet /\ apart =>
       \A b \in (Keys(history) \cap Keys(local)) \ everForeign :
          device[b] \in {local[b], Garbled}]_allVars
=============================================================================
