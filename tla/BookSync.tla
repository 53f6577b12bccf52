------------------------------ MODULE BookSync ------------------------------
(***************************************************************************)
(* The synchronisation of a directory of books with a device, as s2k runs  *)
(* it: sync/prepare.go compares the local files (L), the history database  *)
(* (H) and the files on the device (D), and sync/run.go carries out the    *)
(* planned actions one by one and then records the local books as the new  *)
(* history.                                                                *)
(*                                                                         *)
(* A book stands for one file, known by its path relative to the source    *)
(* and to the target directory.  Its side files (page indexes, thumbnails) *)
(* and the directories around it are left to PathPlan.  Between and during *)
(* the runs of the tool the user edits both sides.                         *)
(***************************************************************************)
EXTENDS SyncPlan, Naturals

CONSTANTS
  Contents,              \* versions of a file, told apart by their SHA-256
  Size,                  \* Size[c]: the length of version c
  Garbled,               \* a device file that is no version: cut short or mixed
  None,                  \* no book
  MaxEdits,              \* bound on the edits of the user
  MaxFaults,             \* bound on crashes, unplugged cables and I/O errors
  ScansSkip              \* a scan may pass over what it cannot read

ASSUME SizeAssumption == Size \in [Contents -> Nat]
ASSUME AbsentAssumption == Absent \notin Contents
ASSUME GarbledAssumption == Garbled \notin Contents /\ Garbled # Absent
ASSUME NoneAssumption == None \notin Books
ASSUME BoundsAssumption == MaxEdits \in Nat /\ MaxFaults \in Nat
ASSUME ScansAssumption == ScansSkip \in BOOLEAN

VARIABLES
  local,      \* files under the source directory
  device,     \* files under the target directory of the device
  history,    \* objects of the last step in the history database
  synced,     \* the history database has a step: StepID() # 0
  pc,         \* where the run of the tool is; "idle": it does not run
  dryRun,     \* the switch --dry-run of this run
  snap,       \* srcOIS: the local files as this run has read them
  case7,      \* planned: remove locally, was removed from the device
  case6,      \* planned: remove from the device, was removed locally
  case3,      \* planned: copy to the device
  replace,    \* the books of case3 whose old copy is to be removed first
  current,    \* the book whose old copy was removed and whose Copy is next
  anyAction,  \* len(actions) # 0
  edits,      \* edits made so far
  faults      \* faults so far

files == <<local, device>>
hst   == <<history, synced>>
plan  == <<case7, case6, case3, replace, current, anyAction>>
vars  == <<files, hst, pc, dryRun, snap, plan, edits, faults>>

-----------------------------------------------------------------------------
Init ==
  /\ local \in [Books -> Contents \cup {Absent}]
  /\ device = NoFiles
  /\ history = NoFiles
  /\ synced = FALSE
  /\ pc = "idle"
  /\ dryRun = FALSE
  /\ snap = NoFiles
  /\ case7 = {} /\ case6 = {} /\ case3 = {} /\ replace = {}
  /\ current = None
  /\ anyAction = FALSE
  /\ edits = 0
  /\ faults = 0

-----------------------------------------------------------------------------
(* The user, at any time: also while the tool runs, which takes no lock on *)
(* either side.                                                            *)

PutLocal(b, c) ==
  /\ edits < MaxEdits
  /\ local[b] # c
  /\ local' = [local EXCEPT ![b] = c]
  /\ edits' = edits + 1
  /\ UNCHANGED <<device, hst, pc, dryRun, snap, plan, faults>>

DropLocal(b) ==
  /\ edits < MaxEdits
  /\ local[b] # Absent
  /\ local' = [local EXCEPT ![b] = Absent]
  /\ edits' = edits + 1
  /\ UNCHANGED <<device, hst, pc, dryRun, snap, plan, faults>>

PutOnDevice(b, c) ==
  /\ edits < MaxEdits
  /\ device[b] # c
  /\ device' = [device EXCEPT ![b] = c]
  /\ edits' = edits + 1
  /\ UNCHANGED <<local, hst, pc, dryRun, snap, plan, faults>>

DropFromDevice(b) ==
  /\ edits < MaxEdits
  /\ device[b] # Absent
  /\ device' = [device EXCEPT ![b] = Absent]
  /\ edits' = edits + 1
  /\ UNCHANGED <<local, hst, pc, dryRun, snap, plan, faults>>

UserNext ==
  \E b \in Books :
     \/ \E c \in Contents : PutLocal(b, c) \/ PutOnDevice(b, c)
     \/ DropLocal(b)
     \/ DropFromDevice(b)

-----------------------------------------------------------------------------
(* One run of the tool. *)

(* Everything the run holds in memory is gone when it ends. *)
EndRun ==
  /\ pc' = "idle"
  /\ dryRun' = FALSE
  /\ snap' = NoFiles
  /\ case7' = {} /\ case6' = {} /\ case3' = {} /\ replace' = {}
  /\ current' = None
  /\ anyAction' = FALSE

(* Sync connects the drivers and opens (or creates) the history database. *)
StartSync(dry) ==
  /\ pc = "idle"
  /\ pc' = "scan"
  /\ dryRun' = dry
  /\ UNCHANGED <<files, hst, snap, plan, edits, faults>>

(* srcActor.GetObjectInfos. *)
ScanLocal ==
  /\ pc = "scan"
  /\ Keys(local) # {}
  /\ snap' = local
  /\ pc' = "plan"
  /\ UNCHANGED <<files, hst, dryRun, plan, edits, faults>>

(* A directory that cannot be listed, or a file without attributes, is     *)
(* logged and passed over: the walk goes on and the scan returns no error. *)
ScanSkips ==
  /\ ScansSkip
  /\ pc = "scan"
  /\ faults < MaxFaults
  /\ faults' = faults + 1
  /\ \E seen \in SUBSET Keys(local) \ {{}, Keys(local)} :
        snap' = [b \in Books |-> IF b \in seen THEN local[b] ELSE Absent]
  /\ pc' = "plan"
  /\ UNCHANGED <<files, hst, dryRun, plan, edits>>

(* "no books in the source path" ends the run. *)
NoLocalBooks ==
  /\ pc = "scan"
  /\ Keys(local) = {}
  /\ EndRun
  /\ UNCHANGED <<files, hst, edits, faults>>

(* The plan for the books D found on the device.  Planning takes the books *)
(* of case 7 out of srcOIS, which is what will be saved as history; dstOIS *)
(* still holds a book of case 3 when the device has a file under its name, *)
(* which is then removed first.                                            *)
PlanWith(ignore, D) ==
  /\ pc = "plan"
  /\ LET L == Keys(snap)
         H == Keys(history)
     IN  /\ case7' = Case7Books(ignore, L, H, D)
         /\ case6' = Case6Books(ignore, L, H, D)
         /\ case3' = Case3Books(ignore, snap, history, L, D)
  /\ replace' = case3' \cap (D \ case6')
  /\ anyAction' = (case7' \cup case6' \cup case3' # {})
  /\ snap' = [b \in Books |-> IF b \in case7' THEN Absent ELSE snap[b]]
  /\ pc' = "exec"
  /\ UNCHANGED <<files, hst, dryRun, current, edits>>

(* The history and the device are read after the source, and the actions   *)
(* are planned, with or without --ignore-device-removals.                  *)
PrepareActions ==
  \E ignore \in BOOLEAN : PlanWith(ignore, Keys(device)) /\ UNCHANGED faults

(* The scan of the device passes over a part of it. *)
DeviceScanSkips ==
  /\ ScansSkip
  /\ faults < MaxFaults
  /\ faults' = faults + 1
  /\ \E ignore \in BOOLEAN, D \in SUBSET Keys(device) \ {Keys(device)} :
        PlanWith(ignore, D)

(* The actions run in the order planned: those of case 7, of case 6, then  *)
(* of case 3; inside a case the order is that of a Go map, which is any.   *)
Executing6 == pc = "exec" /\ case7 = {}
Executing3 == Executing6 /\ case6 = {}

(* srcActor.Remove of a book of case 7. *)
RemoveLocalBook(b) ==
  /\ pc = "exec"
  /\ b \in case7
  /\ \/ dryRun /\ local' = local
     \/ ~dryRun /\ local[b] # Absent /\ local' = [local EXCEPT ![b] = Absent]
  /\ case7' = case7 \ {b}
  /\ UNCHANGED <<device, hst, pc, dryRun, snap, case6, case3, replace, current,
                 anyAction, edits, faults>>

(* dstActor.Remove of a book of case 6. *)
RemoveDeviceBook(b) ==
  /\ Executing6
  /\ b \in case6
  /\ \/ dryRun /\ device' = device
     \/ ~dryRun /\ device[b] # Absent /\ device' = [device EXCEPT ![b] = Absent]
  /\ case6' = case6 \ {b}
  /\ UNCHANGED <<local, hst, pc, dryRun, snap, case7, case3, replace, current,
                 anyAction, edits, faults>>

(* dstActor.Remove of the old copy of a book of case 3; its Copy is the    *)
(* next action of the plan.                                                *)
RemoveOldCopy(b) ==
  /\ Executing3
  /\ b \in replace
  /\ current = None
  /\ \/ dryRun /\ device' = device
     \/ ~dryRun /\ device[b] # Absent /\ device' = [device EXCEPT ![b] = Absent]
  /\ replace' = replace \ {b}
  /\ current' = b
  /\ UNCHANGED <<local, hst, pc, dryRun, snap, case7, case6, case3, anyAction,
                 edits, faults>>

(* What the device file holds after new has been written into it.  The     *)
(* file is opened without O_TRUNC: the tail of a longer file stays.        *)
Written(old, new) ==
  CASE old = Absent -> {new}
    [] old = Garbled -> {new, Garbled}
    [] OTHER -> {IF Size[old] <= Size[new] THEN new ELSE Garbled}

CopyIsNext(b) ==
  /\ Executing3
  /\ b \in case3 \ replace
  /\ current \in {None, b}

(* dstActor.Copy: reads the file as it is now and checks only that as many *)
(* bytes were written as the scan has seen.                                *)
CopyBook(b) ==
  /\ CopyIsNext(b)
  /\ \/ dryRun /\ device' = device
     \/ /\ ~dryRun
        /\ local[b] # Absent
        /\ Size[local[b]] = Size[snap[b]]
        /\ \E f \in Written(device[b], local[b]) :
              device' = [device EXCEPT ![b] = f]
  /\ case3' = case3 \ {b}
  /\ current' = None
  /\ UNCHANGED <<local, hst, pc, dryRun, snap, case7, case6, replace, anyAction,
                 edits, faults>>

(* The copy is complete, but its size is not the one seen by the scan. *)
CopyOfOtherSize(b) ==
  /\ CopyIsNext(b)
  /\ ~dryRun
  /\ local[b] # Absent
  /\ Size[local[b]] # Size[snap[b]]
  /\ \E f \in Written(device[b], local[b]) :
        device' = [device EXCEPT ![b] = f]
  /\ EndRun
  /\ UNCHANGED <<local, hst, edits, faults>>

(* An action finds the file it works on gone and returns an error, which   *)
(* ends the run: nothing is saved.                                         *)
ActionFails ==
  /\ ~dryRun
  /\ \/ pc = "exec" /\ \E b \in case7 : local[b] = Absent
     \/ Executing6 /\ \E b \in case6 : device[b] = Absent
     \/ Executing3 /\ current = None /\ \E b \in replace : device[b] = Absent
     \/ \E b \in Books : CopyIsNext(b) /\ local[b] = Absent
  /\ EndRun
  /\ UNCHANGED <<files, hst, edits, faults>>

WrongFinishOfDryRun ==
  /\ Executing3
  /\ case3 = {}
  /\ history' = snap /\ synced' = TRUE
  /\ EndRun
  /\ UNCHANGED <<files, edits, faults>>

WrongFinishSavesOnce ==
  /\ Executing3
  /\ case3 = {}
  /\ IF ~dryRun /\ ~synced
     THEN history' = snap /\ synced' = TRUE
     ELSE UNCHANGED hst
  /\ EndRun
  /\ UNCHANGED <<files, edits, faults>>

(* SaveObjectInfos records srcOIS as the next step, when there were        *)
(* actions or when it is the first step; it is one transaction.            *)
Finish ==
  /\ Executing3
  /\ case3 = {}
  /\ IF ~dryRun /\ (anyAction \/ ~synced)
     THEN history' = snap /\ synced' = TRUE
     ELSE UNCHANGED hst
  /\ EndRun
  /\ UNCHANGED <<files, edits, faults>>

(* The process dies, an action fails on I/O before it has changed anything *)
(* or the history cannot be saved.                                         *)
Interrupt ==
  /\ pc # "idle"
  /\ faults < MaxFaults
  /\ faults' = faults + 1
  /\ EndRun
  /\ UNCHANGED <<files, hst, edits>>

(* A copy breaks off: a part of the file, or all of it, is on the device. *)
CopyCutShort(b) ==
  /\ CopyIsNext(b)
  /\ ~dryRun
  /\ local[b] # Absent
  /\ faults < MaxFaults
  /\ faults' = faults + 1
  /\ device' = [device EXCEPT ![b] = Garbled]
  /\ EndRun
  /\ UNCHANGED <<local, hst, edits>>

-----------------------------------------------------------------------------
(* The steps of a run that goes well, and those of one that does not. *)
RunNext ==
  \/ \E dry \in BOOLEAN : StartSync(dry)
  \/ ScanLocal
  \/ NoLocalBooks
  \/ PrepareActions
  \/ \E b \in Books : RemoveLocalBook(b) \/ RemoveDeviceBook(b)
  \/ \E b \in Books : RemoveOldCopy(b) \/ CopyBook(b)
  \/ Finish

BreakNext ==
  \/ \E b \in Books : CopyOfOtherSize(b) \/ CopyCutShort(b)
  \/ ActionFails
  \/ Interrupt
  \/ ScanSkips
  \/ DeviceScanSkips

Next == UserNext \/ RunNext \/ BreakNext

Spec == Init /\ [][Next]_vars

-----------------------------------------------------------------------------
Files == Contents \cup {Absent}

(* The source and the history hold only whole versions of books: what lies *)
(* garbled on the device never gets into either of them.                   *)
TypeOK ==
  /\ local \in [Books -> Files]
  /\ device \in [Books -> Files \cup {Garbled}]
  /\ history \in [Books -> Files]
  /\ synced \in BOOLEAN
  /\ pc \in {"idle", "scan", "plan", "exec"}
  /\ dryRun \in BOOLEAN
  /\ snap \in [Books -> Files]
  /\ case7 \subseteq Books
  /\ case6 \subseteq Books
  /\ case3 \subseteq Books
  /\ replace \subseteq Books
  /\ current \in Books \cup {None}
  /\ anyAction \in BOOLEAN
  /\ edits \in 0..MaxEdits
  /\ faults \in 0..MaxFaults
=============================================================================
