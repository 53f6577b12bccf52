--------------------------- MODULE BookSyncProofs ---------------------------
(***************************************************************************)
(* Proofs about BookSync for any books, versions and bounds.               *)
(***************************************************************************)
EXTENDS BookSyncObserved, TLAPS

(* The plan only ever names books; what it copies is what was scanned,     *)
(* whatever part D of the device was read.                                 *)
LEMMA PlanBooks ==
  ASSUME TypeOK, NEW ignore \in BOOLEAN, NEW D \in SUBSET Books
  PROVE  LET L == Keys(snap)
             H == Keys(history)
         IN  /\ Case7Books(ignore, L, H, D) \subseteq L \cap H
             /\ Case6Books(ignore, L, H, D) \subseteq H \cap D
             /\ Case3Books(ignore, snap, history, L, D) \subseteq L \ Case7Books(ignore, L, H, D)
             /\ L \ Case7Books(ignore, L, H, D) \subseteq
                  D \cup Case3Books(ignore, snap, history, L, D)
  <1>1. Case7Books(ignore, Keys(snap), Keys(history), D)
          \subseteq Keys(snap) \cap Keys(history)
    BY DEF Case7Books
  <1>2. Case6Books(ignore, Keys(snap), Keys(history), D)
          \subseteq Keys(history) \cap D
    BY DEF Case6Books
  <1>3. Case3Books(ignore, snap, history, Keys(snap), D) \subseteq
          Keys(snap) \ Case7Books(ignore, Keys(snap), Keys(history), D)
    BY DEF Case3Books, ChangedBooks
  <1>4. Keys(snap) \ Case7Books(ignore, Keys(snap), Keys(history), D) \subseteq
          D \cup Case3Books(ignore, snap, history, Keys(snap), D)
    BY DEF Case3Books
  <1> QED
    BY <1>1, <1>2, <1>3, <1>4

(* Every step keeps the types, with one step of the proof per action.      *)
LEMMA TypeStep ==
  ASSUME TypeOK, [Next]_vars
  PROVE  TypeOK'
  <1> USE AbsentAssumption, GarbledAssumption, NoneAssumption, BoundsAssumption
  <1> USE DEF TypeOK, Files
  <1>1. ASSUME NEW b \in Books, NEW c \in Contents,
               PutLocal(b, c) \/ PutOnDevice(b, c)
        PROVE  TypeOK'
    <2>1. edits + 1 \in 0..MaxEdits
      BY <1>1 DEF PutLocal, PutOnDevice
    <2>2. CASE PutLocal(b, c)
      BY <2>1, <2>2 DEF PutLocal, hst, plan
    <2>3. CASE PutOnDevice(b, c)
      BY <2>1, <2>3 DEF PutOnDevice, hst, plan
    <2> QED BY <1>1, <2>2, <2>3
  <1>2. ASSUME NEW b \in Books, DropLocal(b) \/ DropFromDevice(b)
        PROVE  TypeOK'
    <2>1. edits + 1 \in 0..MaxEdits
      BY <1>2 DEF DropLocal, DropFromDevice
    <2>2. CASE DropLocal(b)
      BY <2>1, <2>2 DEF DropLocal, hst, plan
    <2>3. CASE DropFromDevice(b)
      BY <2>1, <2>3 DEF DropFromDevice, hst, plan
    <2> QED BY <1>2, <2>2, <2>3
  <1>3. ASSUME NEW dry \in BOOLEAN, StartSync(dry)
        PROVE  TypeOK'
    BY <1>3 DEF StartSync, files, hst, plan
  <1>4. CASE ScanLocal \/ ScanSkips
    <2>1. CASE ScanLocal
      BY <2>1 DEF ScanLocal, files, hst, plan
    <2>2. CASE ScanSkips
      <3>1. faults' \in 0..MaxFaults
        BY <2>2 DEF ScanSkips
      <3>2. snap' \in [Books -> Contents \cup {Absent}]
        BY <2>2 DEF ScanSkips
      <3> QED BY <2>2, <3>1, <3>2 DEF ScanSkips, files, hst, plan
    <2> QED BY <1>4, <2>1, <2>2
  <1>5. CASE NoLocalBooks
    BY <1>5 DEF NoLocalBooks, EndRun, NoFiles, files, hst
  <1>6. CASE PrepareActions \/ DeviceScanSkips
    <2>1. faults' \in 0..MaxFaults
      BY <1>6 DEF PrepareActions, DeviceScanSkips
    <2>2. PICK ignore \in BOOLEAN, D \in SUBSET Books : PlanWith(ignore, D)
      BY <1>6 DEF PrepareActions, DeviceScanSkips, Keys
    <2>3. /\ case7' \subseteq Books
          /\ case6' \subseteq Books
          /\ case3' \subseteq Books
          /\ replace' \subseteq Books
      BY <2>2, PlanBooks DEF PlanWith, Keys
    <2>4. anyAction' \in BOOLEAN
      BY <2>2, Zenon DEF PlanWith
    <2>5. snap' \in [Books -> Contents \cup {Absent}]
      BY <2>2 DEF PlanWith
    <2> QED
      BY <2>1, <2>2, <2>3, <2>4, <2>5 DEF PlanWith, files, hst
  <1>7. ASSUME NEW b \in Books, RemoveLocalBook(b) \/ RemoveDeviceBook(b)
        PROVE  TypeOK'
    BY <1>7 DEF RemoveLocalBook, RemoveDeviceBook, hst
  <1>8. ASSUME NEW b \in Books, RemoveOldCopy(b)
        PROVE  TypeOK'
    BY <1>8 DEF RemoveOldCopy, hst
  <1>9. ASSUME NEW b \in Books,
               \/ CopyBook(b)
               \/ CopyOfOtherSize(b)
               \/ CopyCutShort(b)
        PROVE  TypeOK'
    <2>1. ASSUME local[b] # Absent, NEW f \in Written(device[b], local[b])
          PROVE  /\ f \in Files \cup {Garbled}
                 /\ [device EXCEPT ![b] = f] \in [Books -> Files \cup {Garbled}]
      <3>1. f \in {local[b], Garbled}
        BY <2>1 DEF Written
      <3> QED BY <3>1
    <2>2. CASE CopyBook(b)
      <3>1. device' \in [Books -> Files \cup {Garbled}]
        BY <2>1, <2>2 DEF CopyBook
      <3> QED BY <2>2, <3>1 DEF CopyBook, hst
    <2>3. CASE CopyOfOtherSize(b)
      <3>1. device' \in [Books -> Files \cup {Garbled}]
        BY <2>1, <2>3 DEF CopyOfOtherSize
      <3> QED BY <2>3, <3>1 DEF CopyOfOtherSize, EndRun, NoFiles, hst
    <2>4. CASE CopyCutShort(b)
      <3>1. faults' \in 0..MaxFaults
        BY <2>4 DEF CopyCutShort
      <3> QED BY <2>4, <3>1 DEF CopyCutShort, EndRun, NoFiles, hst
    <2> QED BY <1>9, <2>2, <2>3, <2>4
  <1>10. CASE Finish
    BY <1>10 DEF Finish, EndRun, NoFiles, files, hst
  <1>11. CASE ActionFails
    BY <1>11 DEF ActionFails, EndRun, NoFiles, files, hst
  <1>12. CASE Interrupt
    <2>1. faults' \in 0..MaxFaults
      BY <1>12 DEF Interrupt
    <2> QED BY <1>12, <2>1 DEF Interrupt, EndRun, NoFiles, files, hst
  <1>13. CASE UNCHANGED vars
    BY <1>13 DEF vars, files, hst, plan
  <1> QED
    BY <1>1, <1>2, <1>3, <1>4, <1>5, <1>6, <1>7, <1>8, <1>9, <1>10, <1>11,
       <1>12, <1>13
    DEF Next, UserNext, RunNext, BreakNext

(* The added variables restrict nothing: every step of the observed system *)
(* is a step of BookSync.                                                  *)
LEMMA ObservedStep ==
  ASSUME [ObservedNext]_allVars
  PROVE  [Next]_vars
  BY DEF ObservedNext, ToolNext, Next, allVars, vars

(* Type correctness: the source and the history only ever hold whole       *)
(* versions of books, whatever is cut short or mixed on the device.        *)
THEOREM TypeCorrect == ObservedSpec => []TypeOK
  <1>1. Init => TypeOK
    <2>1. NoFiles \in [Books -> Files] /\ NoFiles \in [Books -> Files \cup {Garbled}]
      BY DEF NoFiles, Files
    <2>2. 0 \in 0..MaxEdits /\ 0 \in 0..MaxFaults
      BY BoundsAssumption
    <2> QED
      BY <2>1, <2>2 DEF Init, TypeOK, Files
  <1>2. TypeOK /\ [ObservedNext]_allVars => TypeOK'
    BY TypeStep, ObservedStep
  <1> QED
    BY <1>1, <1>2, PTL DEF ObservedSpec, ObservedInit

-----------------------------------------------------------------------------
(* What the observers add to a step, whoever takes it.                     *)
LEMMA ObservedGrow ==
  ASSUME [ObservedNext]_allVars, Provenance
  PROVE  /\ everLocal \subseteq everLocal'
         /\ everOnDevice \subseteq everOnDevice'
         /\ Keys(local)' \subseteq everLocal'
         /\ Keys(device)' \subseteq everOnDevice'
  <1>1. CASE ObserveAny
    BY <1>1 DEF ObserveAny, Keys
  <1>2. CASE UNCHANGED allVars
    BY <1>2 DEF allVars, observers, vars, files, Provenance, Keys
  <1> QED
    BY <1>1, <1>2 DEF ObservedNext, ToolNext, ObserveUser, ObserveRun,
                      ObserveBreak, ObserveTool

(* A run that ends leaves nothing but the files and the history.           *)
LEMMA EndRunKeeps ==
  ASSUME EndRun
  PROVE  /\ Keys(snap)' = {}
         /\ case7' = {} /\ case6' = {} /\ case3' = {} /\ replace' = {}
         /\ pc' = "idle"
  BY DEF EndRun, Keys, NoFiles

(* Every step keeps Provenance.                                            *)
LEMMA ProvenanceStep ==
  ASSUME TypeOK, Provenance, [ObservedNext]_allVars
  PROVE  Provenance'
  <1> USE ObservedGrow DEF Provenance
  <1>1. [Next]_vars
    BY ObservedStep
  <1>2. CASE UserNext \/ UNCHANGED vars
    <2>1. UNCHANGED <<history, pc, dryRun, snap, case7, case6, case3, replace>>
      BY <1>2 DEF UserNext, PutLocal, PutOnDevice, DropLocal, DropFromDevice,
                  vars, hst, plan
    <2>2. Keys(history)' = Keys(history) /\ Keys(snap)' = Keys(snap)
      BY <2>1 DEF Keys
    <2> QED BY <2>1, <2>2
  <1>3. ASSUME NEW dry \in BOOLEAN, StartSync(dry)
        PROVE  Provenance'
    BY <1>3 DEF StartSync, files, hst, plan, Keys
  <1>4. CASE ScanLocal \/ ScanSkips
    <2>1. Keys(snap)' \subseteq Keys(local)
      BY <1>4 DEF ScanLocal, ScanSkips, Keys
    <2> QED BY <1>4, <2>1 DEF ScanLocal, ScanSkips, files, hst, plan, Keys
  <1>5. CASE PrepareActions \/ DeviceScanSkips
    <2>1. PICK ignore \in BOOLEAN, D \in SUBSET Keys(device) : PlanWith(ignore, D)
      BY <1>5 DEF PrepareActions, DeviceScanSkips
    <2>2. Keys(snap)' = Keys(snap) \ case7'
      BY <2>1 DEF PlanWith, Keys
    <2>3. /\ case7' \subseteq Keys(history)
          /\ case6' \subseteq Keys(history)
          /\ case3' \subseteq Keys(snap)
          /\ replace' \subseteq case3'
          /\ Keys(snap) \ case7' \subseteq Keys(device) \cup case3'
      <3>1. D \in SUBSET Books
        BY DEF Keys
      <3> QED BY <2>1, <3>1, PlanBooks DEF PlanWith
    <2>4. UNCHANGED <<local, device, history>>
      BY <2>1 DEF PlanWith, files, hst
    <2>5. Keys(history)' = Keys(history)
      BY <2>4 DEF Keys
    <2> QED BY <2>2, <2>3, <2>4, <2>5
  <1>6. ASSUME NEW b \in Books,
               \/ RemoveLocalBook(b)
               \/ RemoveDeviceBook(b)
               \/ RemoveOldCopy(b)
        PROVE  Provenance'
    <2>1. /\ UNCHANGED <<history, pc, dryRun, snap, case3>>
          /\ case7' \subseteq case7 /\ case6' \subseteq case6
          /\ replace' \subseteq replace
      BY <1>6 DEF RemoveLocalBook, RemoveDeviceBook, RemoveOldCopy, hst
    <2>2. Keys(history)' = Keys(history) /\ Keys(snap)' = Keys(snap)
      BY <2>1 DEF Keys
    <2> QED BY <2>1, <2>2
  <1>7. ASSUME NEW b \in Books, CopyBook(b)
        PROVE  Provenance'
    <2>1. /\ UNCHANGED <<history, pc, dryRun, snap, case7, case6, replace>>
          /\ case3' = case3 \ {b}
      BY <1>7 DEF CopyBook, hst
    <2>2. Keys(history)' = Keys(history) /\ Keys(snap)' = Keys(snap)
      BY <2>1 DEF Keys
    <2>3. ASSUME ~dryRun PROVE b \in Keys(device)'
      <3>1. PICK f \in Written(device[b], local[b]) :
              device' = [device EXCEPT ![b] = f]
        BY <1>7, <2>3 DEF CopyBook
      <3>2. f # Absent
        BY <1>7, <2>3, GarbledAssumption DEF CopyBook, Written
      <3> QED BY <3>1, <3>2 DEF TypeOK, Keys
    <2> QED BY <2>1, <2>2, <2>3
  <1>8. CASE Finish
    <2>1. history' = snap \/ history' = history
      BY <1>8 DEF Finish, hst
    <2>2. history' = snap => ~dryRun \/ history' = history
      BY <1>8 DEF Finish, hst
    <2>3. Keys(history)' \subseteq everLocal \cap everOnDevice
      BY <1>8, <2>1, <2>2 DEF Finish, Executing3, Executing6, Keys
    <2> QED BY <1>8, <2>3, EndRunKeeps DEF Finish
  <1>9. CASE NoLocalBooks \/ (BreakNext /\ ~ScanSkips /\ ~DeviceScanSkips)
    <2>1. EndRun /\ history' = history
      BY <1>9 DEF BreakNext, NoLocalBooks, CopyOfOtherSize, CopyCutShort,
                  ActionFails, Interrupt, hst
    <2>2. Keys(history)' = Keys(history)
      BY <2>1 DEF Keys
    <2> QED BY <2>1, <2>2, EndRunKeeps
  <1> QED
    BY <1>1, <1>2, <1>3, <1>4, <1>5, <1>6, <1>7, <1>8, <1>9
    DEF Next, RunNext, BreakNext

(* Provenance is an invariant.                                             *)
LEMMA ProvenanceHolds == ObservedSpec => [](TypeOK /\ Provenance)
  <1>1. ObservedInit => Provenance
    BY DEF ObservedInit, Init, Provenance, Keys, NoFiles
  <1>2. TypeOK /\ Provenance /\ [ObservedNext]_allVars => Provenance'
    BY ProvenanceStep
  <1> QED
    BY <1>1, <1>2, TypeCorrect, PTL DEF ObservedSpec

(* A book is in the history only if it has been on the device.             *)
THEOREM OnlyDeliveredIsRecorded == ObservedSpec => []HistoryWasOnDevice
  <1>1. Provenance => HistoryWasOnDevice
    BY DEF Provenance, HistoryWasOnDevice
  <1> QED BY <1>1, ProvenanceHolds, PTL

(* The tool never deletes a local book that has not been on the device.    *)
THEOREM OnlyDeliveredIsDeleted == ObservedSpec => LocalLossNeedsDelivery
  <1>1. ASSUME TypeOK, Provenance, ToolNext
        PROVE  Keys(local) \ Keys(local') \subseteq everOnDevice
    <2>1. CASE UNCHANGED local
      BY <2>1 DEF Keys
    <2>2. ASSUME NEW b \in Books, RemoveLocalBook(b)
          PROVE  Keys(local) \ Keys(local') \subseteq everOnDevice
      BY <1>1, <2>2 DEF RemoveLocalBook, Keys, TypeOK, Provenance
    <2> QED
      BY <1>1, <2>1, <2>2
      DEF ToolNext, RunNext, BreakNext, StartSync, ScanLocal, NoLocalBooks,
          PrepareActions, RemoveDeviceBook, RemoveOldCopy, CopyBook, Finish,
          CopyOfOtherSize, CopyCutShort, ActionFails, Interrupt, ScanSkips,
          DeviceScanSkips, PlanWith, files
  <1>2. TypeOK /\ Provenance /\ [ObservedNext]_allVars =>
          [Keys(local) \ Keys(local') \subseteq everOnDevice \/ UserNext]_allVars
    BY <1>1 DEF ObservedNext
  <1> QED BY <1>2, ProvenanceHolds, PTL DEF ObservedSpec, LocalLossNeedsDelivery

(* The tool never touches a device file whose name no local book has had.  *)
THEOREM NeverLocalIsUntouched == ObservedSpec => ForeignBooksUntouched
  <1>1. ASSUME TypeOK, Provenance, ToolNext
        PROVE  \A b \in Books \ everLocal : device'[b] = device[b]
    <2>1. CASE UNCHANGED device
      BY <2>1
    <2>2. ASSUME NEW x \in Books,
                 \/ RemoveDeviceBook(x) \/ RemoveOldCopy(x) \/ CopyBook(x)
                 \/ CopyOfOtherSize(x) \/ CopyCutShort(x)
          PROVE  \A b \in Books \ everLocal : device'[b] = device[b]
      <3>1. x \in everLocal
        BY <1>1, <2>2 DEF RemoveDeviceBook, RemoveOldCopy, CopyBook,
             CopyOfOtherSize, CopyCutShort, CopyIsNext, Provenance
      <3>2. \A b \in Books \ {x} : device'[b] = device[b]
        BY <1>1, <2>2 DEF RemoveDeviceBook, RemoveOldCopy, CopyBook,
             CopyOfOtherSize, CopyCutShort, TypeOK
      <3> QED BY <3>1, <3>2
    <2> QED
      BY <1>1, <2>1, <2>2
      DEF ToolNext, RunNext, BreakNext, StartSync, ScanLocal, NoLocalBooks,
          PrepareActions, RemoveLocalBook, Finish, ActionFails, Interrupt,
          ScanSkips, DeviceScanSkips, PlanWith, files
  <1>2. TypeOK /\ Provenance /\ [ObservedNext]_allVars =>
          [(\A b \in Books \ everLocal : device'[b] = device[b]) \/ UserNext]_allVars
    BY <1>1 DEF ObservedNext
  <1> QED BY <1>2, ProvenanceHolds, PTL DEF ObservedSpec, ForeignBooksUntouched

(* The plan is the table, whatever files there are on the three sides.     *)
THEOREM PlanIsTheTable == ObservedSpec => []PlanFollowsTable
  <1>1. TypeOK => PlanFollowsTable
    BY DEF PlanFollowsTable, Row, Case7Books, Case6Books, Case3Books,
        ChangedBooks, Keys
  <1> QED BY <1>1, TypeCorrect, PTL

-----------------------------------------------------------------------------
(***************************************************************************)
(* What whole runs of BookSync achieve: a second run has nothing to do,    *)
(* and runs that nothing disturbs mirror the source.                       *)
(***************************************************************************)

(* With the history equal to the source and every book on the device there *)
(* is nothing to plan.                                                     *)
LEMMA RecordedIsNotPlanned ==
  ASSUME NEW src, NEW dev, Keys(src) \subseteq Keys(dev)
  PROVE  NothingPlanned(src, src, dev)
  BY DEF NothingPlanned, Case7Books, Case6Books, Case3Books, ChangedBooks

(* When nothing is planned with one setting of the switch, nothing is with *)
(* the other: every local book is on the device then.                      *)
LEMMA OneSettingIsEnough ==
  ASSUME NEW src, NEW h, NEW dev, NEW ignore \in BOOLEAN,
         Case7Books(ignore, Keys(src), Keys(h), Keys(dev)) = {},
         Case6Books(ignore, Keys(src), Keys(h), Keys(dev)) = {},
         Case3Books(ignore, src, h, Keys(src), Keys(dev)) = {}
  PROVE  NothingPlanned(src, h, dev)
  <1>1. Keys(src) \subseteq Keys(dev)
    BY DEF Case7Books, Case3Books
  <1>2. ASSUME NEW ign \in BOOLEAN
        PROVE  /\ Case7Books(ign, Keys(src), Keys(h), Keys(dev)) = {}
               /\ Case6Books(ign, Keys(src), Keys(h), Keys(dev)) = {}
               /\ Case3Books(ign, src, h, Keys(src), Keys(dev)) = {}
    <2>1. /\ Case7Books(ign, Keys(src), Keys(h), Keys(dev)) = {}
          /\ Case7Books(ignore, Keys(src), Keys(h), Keys(dev)) = {}
      BY <1>1 DEF Case7Books
    <2> QED BY <2>1 DEF Case6Books, Case3Books
  <1> QED BY <1>2 DEF NothingPlanned

(* Keys is a matter of the function alone.                                 *)
LEMMA KeysPrime ==
  /\ local' = local => Keys(local)' = Keys(local)
  /\ device' = device => Keys(device)' = Keys(device)
  /\ history' = history => Keys(history)' = Keys(history)
  /\ snap' = snap => Keys(snap)' = Keys(snap)
  BY DEF Keys

(* What is found on the device are books.                                  *)
LEMMA KeysAreBooks == Keys(device) \in SUBSET Books
  BY DEF Keys

(* A step of the user ends what quiet and settled stand for, and is only   *)
(* smooth between runs.                                                    *)
LEMMA UserStepQuiet ==
  ASSUME UserNext /\ ObserveUser
  PROVE  ~quiet' /\ ~settled'
  BY DEF ObserveUser

(* Every step keeps QuietRun.                                              *)
LEMMA QuietStep ==
  ASSUME TypeOK, QuietRun, [ObservedNext]_allVars
  PROVE  QuietRun'
  <1> USE DEF QuietRun
  <1>1. CASE UserNext /\ ObserveUser
    BY <1>1, UserStepQuiet
  <1>2. CASE BreakNext /\ ObserveBreak
    BY <1>2 DEF ObserveBreak
  <1>3. CASE UNCHANGED allVars
    BY <1>3, KeysPrime DEF allVars, vars, observers, files, hst, plan,
       NothingPlanned
  <1>4. ASSUME ObserveRun, NEW dry \in BOOLEAN, StartSync(dry)
        PROVE  QuietRun'
    BY <1>4 DEF StartSync, ObserveRun
  <1>5. CASE ScanLocal /\ ObserveRun
    BY <1>5 DEF ScanLocal, ObserveRun, files
  <1>6. CASE NoLocalBooks /\ ObserveRun
    BY <1>6 DEF NoLocalBooks, EndRun, ObserveRun
  <1>7. CASE PrepareActions /\ ObserveRun
    <2> PICK ignore \in BOOLEAN : PlanWith(ignore, Keys(device))
      BY <1>7 DEF PrepareActions
    <2>1. ~settled' /\ pc' = "exec" /\ (quiet' => snap = local)
      BY <1>7 DEF PlanWith, ObserveRun
    <2>2. UNCHANGED <<local, device, history, dryRun>>
      BY <1>7 DEF PlanWith, files, hst
    <2>3. /\ Keys(snap)' = Keys(snap) \ case7'
          /\ \A b \in Books \ case7' : snap'[b] = snap[b]
      BY <1>7 DEF PlanWith, Keys
    <2>4. /\ case7' = Case7Books(ignore, Keys(snap), Keys(history), Keys(device))
          /\ case6' = Case6Books(ignore, Keys(snap), Keys(history), Keys(device))
          /\ case3' = Case3Books(ignore, snap, history, Keys(snap), Keys(device))
          /\ replace' \subseteq case3'
          /\ ~anyAction' => case7' = {} /\ case6' = {} /\ case3' = {}
      BY <1>7 DEF PlanWith
    <2>5. case6' \cap (Keys(snap) \ case7') = {}
      BY <2>4 DEF Case6Books
    <2>6. /\ case3' \subseteq Keys(snap) \ case7'
          /\ Keys(snap) \ case7' \subseteq Keys(device) \cup case3'
      BY <2>4, KeysAreBooks, PlanBooks
    <2>7. quiet' /\ ~anyAction' => NothingPlanned(local, history, device)'
      <3>1. ~anyAction' => NothingPlanned(snap, history, device)
        BY <2>4, OneSettingIsEnough
      <3> QED BY <2>1, <2>2, <3>1, KeysPrime DEF NothingPlanned
    <2> QED
      BY <2>1, <2>2, <2>3, <2>4, <2>5, <2>6, <2>7, KeysPrime
  <1>8. ASSUME ObserveRun, NEW b \in Books, RemoveLocalBook(b)
        PROVE  QuietRun'
    <2>1. /\ UNCHANGED <<device, history, pc, dryRun, snap, case6, case3,
                         replace, anyAction>>
          /\ case7' = case7 \ {b} /\ b \in case7 /\ pc = "exec"
          /\ (quiet' => quiet) /\ ~settled'
      BY <1>8 DEF RemoveLocalBook, ObserveRun, hst
    <2>2. ~dryRun => local' = [local EXCEPT ![b] = Absent]
      BY <1>8 DEF RemoveLocalBook
    <2>3. ASSUME quiet, ~dryRun
          PROVE  \A x \in Books \ case7' : local'[x] = snap'[x]
      BY <2>1, <2>2, <2>3 DEF TypeOK, Keys
    <2>4. quiet /\ ~dryRun => anyAction
      BY <2>1
    <2>5. /\ Keys(device)' = Keys(device) /\ Keys(snap)' = Keys(snap)
      BY <2>1, KeysPrime
    <2> QED BY <2>1, <2>3, <2>4, <2>5
  <1>9. ASSUME ObserveRun, NEW b \in Books, RemoveDeviceBook(b)
        PROVE  QuietRun'
    <2>1. /\ UNCHANGED <<local, history, pc, dryRun, snap, case7, case3,
                         replace, anyAction>>
          /\ case6' = case6 \ {b} /\ b \in case6 /\ pc = "exec"
          /\ (quiet' => quiet) /\ ~settled'
      BY <1>9 DEF RemoveDeviceBook, Executing6, ObserveRun, hst
    <2>2. Keys(device) \ {b} \subseteq Keys(device)'
      BY <1>9 DEF RemoveDeviceBook, TypeOK, Keys
    <2>3. quiet /\ ~dryRun => anyAction
      BY <2>1
    <2>4. Keys(snap)' = Keys(snap)
      BY <2>1, KeysPrime
    <2> QED BY <2>1, <2>2, <2>3, <2>4
  <1>10. ASSUME ObserveRun, NEW b \in Books, RemoveOldCopy(b)
         PROVE  QuietRun'
    <2>1. /\ UNCHANGED <<local, history, pc, dryRun, snap, case7, case6,
                         case3, anyAction>>
          /\ replace' \subseteq replace /\ b \in replace /\ pc = "exec"
          /\ (quiet' => quiet) /\ ~settled'
      BY <1>10 DEF RemoveOldCopy, Executing3, Executing6, ObserveRun, hst
    <2>2. Keys(device) \ {b} \subseteq Keys(device)'
      BY <1>10 DEF RemoveOldCopy, TypeOK, Keys
    <2>3. quiet /\ ~dryRun => anyAction
      BY <2>1
    <2>4. Keys(snap)' = Keys(snap)
      BY <2>1, KeysPrime
    <2> QED BY <2>1, <2>2, <2>3, <2>4
  <1>11. ASSUME ObserveRun, NEW b \in Books, CopyBook(b)
         PROVE  QuietRun'
    <2>1. /\ UNCHANGED <<local, history, pc, dryRun, snap, case7, case6,
                         replace, anyAction>>
          /\ case3' = case3 \ {b} /\ b \in case3 \ replace /\ pc = "exec"
          /\ (quiet' => quiet) /\ ~settled'
      BY <1>11 DEF CopyBook, CopyIsNext, Executing3, Executing6, ObserveRun, hst
    <2>2. ASSUME ~dryRun PROVE Keys(device) \cup {b} \subseteq Keys(device)'
      <3>1. PICK f \in Written(device[b], local[b]) :
              device' = [device EXCEPT ![b] = f]
        BY <1>11, <2>2 DEF CopyBook
      <3>2. f # Absent
        BY <1>11, <2>2, GarbledAssumption DEF CopyBook, Written
      <3> QED BY <3>1, <3>2 DEF TypeOK, Keys
    <2>3. quiet /\ ~dryRun => anyAction
      BY <2>1
    <2>4. Keys(snap)' = Keys(snap)
      BY <2>1, KeysPrime
    <2> QED BY <2>1, <2>2, <2>3, <2>4
  <1>12. CASE Finish /\ ObserveRun
    <2>1. /\ UNCHANGED <<local, device>> /\ pc' = "idle"
          /\ settled' => quiet /\ ~dryRun
          /\ pc = "exec" /\ case7 = {} /\ case3 = {}
      BY <1>12 DEF Finish, EndRun, Executing3, Executing6, ObserveRun, files
    <2>2. ASSUME settled' PROVE local = snap
      BY <2>1, <2>2 DEF TypeOK
    <2>3. CASE history' = snap /\ settled'
      BY <2>1, <2>2, <2>3, KeysPrime, RecordedIsNotPlanned
    <2>4. CASE history' = history /\ ~anyAction /\ settled'
      BY <2>1, <2>4, KeysPrime DEF NothingPlanned
    <2> QED
      BY <1>12, <2>1, <2>3, <2>4 DEF Finish, hst
  <1> QED
    BY <1>1, <1>2, <1>3, <1>4, <1>5, <1>6, <1>7, <1>8, <1>9, <1>10, <1>11,
       <1>12
    DEF ObservedNext, ToolNext, RunNext

(* QuietRun is an invariant.                                               *)
LEMMA QuietRunHolds == ObservedSpec => [](TypeOK /\ QuietRun)
  <1>1. ObservedInit => QuietRun
    BY DEF ObservedInit, Init, QuietRun
  <1>2. TypeOK /\ QuietRun /\ [ObservedNext]_allVars => QuietRun'
    BY QuietStep
  <1> QED BY <1>1, <1>2, TypeCorrect, PTL DEF ObservedSpec

(* A run that ends well leaves the next one nothing to do, until somebody  *)
(* edits one of the sides.                                                 *)
THEOREM SecondRunHasNothingToDo == ObservedSpec => []SecondRunIdle
  <1>1. QuietRun => SecondRunIdle
    BY DEF QuietRun, SecondRunIdle
  <1> QED BY <1>1, QuietRunHolds, PTL

-----------------------------------------------------------------------------
(* What an edit between runs leaves true.                                  *)
LEMMA SmoothUserStep ==
  ASSUME TypeOK, SmoothRun, UserNext /\ ObserveUser
  PROVE  SmoothRun'
  <1>1. CASE ~smooth'
    BY <1>1 DEF SmoothRun
  <1>2. CASE smooth'
    <2>1. smooth /\ pc = "idle"
      BY <1>2 DEF smooth, ObserveUser
    <2>2. Vouched
      BY <2>1 DEF SmoothRun
    <2>3. pc' = pc /\ history' = history
      BY DEF UserNext, PutLocal, PutOnDevice, DropLocal, DropFromDevice, hst
    <2>4. Vouched'
      <3>1. /\ userRemoved' = (userRemoved \cup Removed) \ Placed
            /\ everForeign' = everForeign \cup Placed
        BY DEF ObserveUser
      <3>2. Keys(history)' = Keys(history)
        BY <2>3, KeysPrime
      <3>3. Keys(history)' \ Keys(device)' \subseteq userRemoved'
        BY <2>2, <3>1, <3>2 DEF Vouched, Keys, Removed, Placed
      <3>4. \A b \in Keys(device)' \ everForeign' : history'[b] = device'[b]
        <4> SUFFICES ASSUME NEW b \in Keys(device)' \ everForeign'
                     PROVE  history'[b] = device'[b]
          OBVIOUS
        <4>1. b \in Books /\ b \notin Placed /\ device'[b] # Absent
          BY <3>1 DEF Keys
        <4>2. device'[b] = device[b]
          BY <4>1 DEF Placed
        <4> QED BY <2>2, <2>3, <3>1, <4>1, <4>2 DEF Vouched, Keys
      <3> QED BY <3>3, <3>4 DEF Vouched
    <2> QED BY <2>1, <2>3, <2>4 DEF SmoothRun
  <1> QED BY <1>1, <1>2

(* A step of a run that changes neither side nor the history keeps what    *)
(* the history vouches for.                                                *)
LEMMA VouchedStays ==
  ASSUME TypeOK, Vouched, ObserveTool, UNCHANGED <<device, history>>
  PROVE  Vouched'
  <1>1. Placed = {}
    BY DEF Placed
  <1>2. userRemoved' = userRemoved /\ everForeign' = everForeign
    BY <1>1, Zenon DEF ObserveTool
  <1> QED BY <1>2, KeysPrime DEF Vouched

(* Planning: what the run has to do about each side, from what the history *)
(* vouches for.                                                            *)
LEMMA SmoothPlanStep ==
  ASSUME TypeOK, QuietRun, SmoothRun, PrepareActions /\ ObserveRun
  PROVE  SmoothRun'
  <1> SUFFICES ASSUME smooth'
               PROVE  SmoothRun'
    BY DEF SmoothRun
  <1> PICK ignore \in BOOLEAN : PlanWith(ignore, Keys(device))
    BY DEF PrepareActions
  <1>1. smooth /\ pc = "plan" /\ pc' = "exec" /\ quiet /\ quiet'
    BY DEF PlanWith, ObserveRun, ObserveTool, smooth, SmoothRun
  <1>2. UNCHANGED <<local, device, history, dryRun>>
    BY DEF PlanWith, files, hst
  <1>3. Vouched /\ Vouched'
    BY <1>1, <1>2, VouchedStays DEF SmoothRun, ObserveRun
  <1>4. userRemoved' = userRemoved /\ everForeign' = everForeign
    <2>1. Placed = {}
      BY <1>2 DEF Placed
    <2> QED BY <2>1, Zenon DEF ObserveRun, ObserveTool
  <1>5. /\ case7' = Case7Books(ignore, Keys(snap), Keys(history), Keys(device))
        /\ case6' = Case6Books(ignore, Keys(snap), Keys(history), Keys(device))
        /\ case3' = Case3Books(ignore, snap, history, Keys(snap), Keys(device))
        /\ replace' = case3' \cap (Keys(device) \ case6')
        /\ Keys(snap)' = Keys(snap) \ case7'
        /\ \A b \in Books \ case7' : snap'[b] = snap[b]
    BY DEF PlanWith, Keys
  <1>6. case7' \subseteq userRemoved'
    BY <1>3, <1>4, <1>5 DEF Case7Books, Vouched
  <1>7. \A b \in case3' \ replace' : device'[b] = Absent
    <2>1. case3' \cap case6' = {}
      BY <1>5, KeysAreBooks, PlanBooks DEF Case6Books
    <2>2. case3' \subseteq Books
      BY <1>5, KeysAreBooks, PlanBooks DEF Keys
    <2> QED BY <1>2, <1>5, <2>1, <2>2 DEF Keys
  <1>8. ASSUME NEW b \in Books \ everForeign', b \in Keys(snap)' \ case3'
        PROVE  device'[b] = snap'[b]
    <2>1. b \in Keys(device) /\ snap'[b] = snap[b]
      BY <1>5, <1>8, KeysAreBooks, PlanBooks
    <2>2. history[b] = device[b]
      BY <1>3, <1>4, <2>1 DEF Vouched
    <2>3. b \in Keys(history)
      BY <2>1, <2>2 DEF Keys
    <2>4. snap[b] = history[b]
      BY <1>5, <1>8, <2>3 DEF Case3Books, ChangedBooks
    <2> QED BY <1>2, <2>1, <2>2, <2>4
  <1>9. ASSUME NEW b \in Books \ everForeign', b \notin Keys(snap)' \cup case6'
        PROVE  device'[b] = Absent
    <2>1. SUFFICES ASSUME b \in Keys(device) PROVE FALSE
      BY <1>2 DEF Keys
    <2>2. b \in Keys(history)
      BY <1>3, <1>4, <2>1 DEF Vouched, Keys
    <2> QED
      BY <1>5, <1>9, <2>1, <2>2 DEF Case6Books, Case7Books
  <1> QED
    BY <1>1, <1>2, <1>3, <1>6, <1>7, <1>8, <1>9 DEF SmoothRun

(* The actions of a plan that change a file.                               *)
LEMMA SmoothActionStep ==
  ASSUME TypeOK, QuietRun, SmoothRun, ObserveRun, NEW b \in Books,
         \/ RemoveLocalBook(b)
         \/ RemoveDeviceBook(b)
         \/ RemoveOldCopy(b)
         \/ CopyBook(b)
  PROVE  SmoothRun'
  <1> SUFFICES ASSUME smooth'
               PROVE  SmoothRun'
    BY DEF SmoothRun
  <1>1. /\ pc = "exec" /\ pc' = "exec"
        /\ UNCHANGED <<history, dryRun, snap, anyAction>>
    BY DEF RemoveLocalBook, RemoveDeviceBook, RemoveOldCopy, CopyBook,
           CopyIsNext, Executing3, Executing6, hst
  <1>2. smooth /\ quiet /\ quiet'
    BY <1>1 DEF ObserveRun, ObserveTool, smooth, SmoothRun
  <1>3. CASE dryRun
    <2>1. UNCHANGED device
      BY <1>3 DEF RemoveLocalBook, RemoveDeviceBook, RemoveOldCopy, CopyBook
    <2>2. Vouched
      BY <1>2, <1>3 DEF SmoothRun
    <2>3. Vouched'
      BY <1>1, <2>1, <2>2, VouchedStays DEF ObserveRun
    <2> QED BY <1>1, <1>2, <1>3, <2>3 DEF SmoothRun
  <1>4. CASE ~dryRun
    <2>1. everForeign' = everForeign /\ userRemoved' = userRemoved \ Placed
      BY DEF ObserveRun, ObserveTool
    <2>2. anyAction
      BY <1>1, <1>2, <1>4 DEF QuietRun, RemoveLocalBook, RemoveDeviceBook,
         RemoveOldCopy, CopyBook, CopyIsNext
    <2>3. Keys(snap)' = Keys(snap)
      BY <1>1, KeysPrime
    <2>4. CASE RemoveLocalBook(b)
      <3>1. UNCHANGED <<device, case6, case3, replace>> /\ case7' \subseteq case7
        BY <2>4 DEF RemoveLocalBook
      <3>2. Placed = {}
        BY <3>1 DEF Placed
      <3> QED
        BY <1>1, <1>2, <1>4, <2>1, <2>2, <2>3, <3>1, <3>2 DEF SmoothRun
    <2>5. CASE RemoveDeviceBook(b)
      <3>1. /\ UNCHANGED <<case7, case3, replace>> /\ case6' = case6 \ {b}
            /\ device' = [device EXCEPT ![b] = Absent]
            /\ b \in case6
        BY <1>4, <2>5 DEF RemoveDeviceBook
      <3>2. Placed = {}
        BY <3>1 DEF Placed, TypeOK
      <3>3. b \notin Keys(snap)
        BY <1>1, <1>2, <1>4, <3>1 DEF QuietRun
      <3>4. \A x \in Books : device'[x] = IF x = b THEN Absent ELSE device[x]
        BY <3>1 DEF TypeOK
      <3>5. case3 \subseteq Books
        BY DEF TypeOK
      <3> QED
        BY <1>1, <1>2, <1>4, <2>1, <2>2, <2>3, <3>1, <3>2, <3>3, <3>4, <3>5
        DEF SmoothRun
    <2>6. CASE RemoveOldCopy(b)
      <3>1. /\ UNCHANGED <<case7, case6, case3>> /\ replace' = replace \ {b}
            /\ device' = [device EXCEPT ![b] = Absent]
            /\ b \in replace
        BY <1>4, <2>6 DEF RemoveOldCopy
      <3>2. Placed = {}
        BY <3>1 DEF Placed, TypeOK
      <3>3. b \in case3 /\ b \in Keys(snap)
        BY <1>1, <1>2, <1>4, <3>1 DEF QuietRun
      <3>4. \A x \in Books : device'[x] = IF x = b THEN Absent ELSE device[x]
        BY <3>1 DEF TypeOK
      <3>5. case3 \subseteq Books
        BY DEF TypeOK
      <3> QED
        BY <1>1, <1>2, <1>4, <2>1, <2>2, <2>3, <3>1, <3>2, <3>3, <3>4, <3>5
        DEF SmoothRun
    <2>7. CASE CopyBook(b)
      <3>1. /\ UNCHANGED <<local, case7, case6, replace>> /\ case3' = case3 \ {b}
            /\ b \in case3 \ replace
            /\ local[b] # Absent
        BY <1>4, <2>7 DEF CopyBook, CopyIsNext
      <3>2. PICK f \in Written(device[b], local[b]) :
              device' = [device EXCEPT ![b] = f]
        BY <1>4, <2>7 DEF CopyBook
      <3>3. device[b] = Absent
        BY <1>1, <1>2, <1>4, <3>1 DEF SmoothRun
      <3>4. b \in Keys(snap) /\ b \notin case7 /\ local[b] = snap[b]
        BY <1>1, <1>2, <1>4, <3>1 DEF QuietRun
      <3>5. f = snap[b]
        BY <3>2, <3>3, <3>4, GarbledAssumption DEF Written
      <3>6. \A x \in Books : device'[x] = IF x = b THEN snap[b] ELSE device[x]
        BY <3>2, <3>5 DEF TypeOK
      <3>7. Placed \subseteq {b}
        BY <3>6 DEF Placed
      <3>8. case3 \subseteq Books
        BY DEF TypeOK
      <3> QED
        BY <1>1, <1>2, <1>4, <2>1, <2>2, <2>3, <3>1, <3>4, <3>6, <3>7, <3>8
        DEF SmoothRun
    <2> QED BY <2>4, <2>5, <2>6, <2>7
  <1> QED BY <1>3, <1>4

(* The end of a run: what it has recorded is on the device, and nothing    *)
(* else that the tool has put there is.                                    *)
LEMMA SmoothFinishStep ==
  ASSUME TypeOK, QuietRun, SmoothRun, Finish /\ ObserveRun
  PROVE  /\ SmoothRun'
         /\ settled' /\ smooth' =>
              \A b \in Keys(local)' \ everForeign' : device'[b] = local'[b]
  <1>1. CASE ~smooth'
    BY <1>1 DEF SmoothRun
  <1>2. CASE smooth'
    <2>1. /\ UNCHANGED <<local, device>> /\ pc' = "idle" /\ pc = "exec"
          /\ case7 = {} /\ case6 = {} /\ case3 = {}
      BY DEF Finish, EndRun, Executing3, Executing6, files
    <2>2. smooth /\ quiet
      BY <1>2, <2>1 DEF ObserveRun, ObserveTool, smooth, SmoothRun
    <2>3. userRemoved' = userRemoved /\ everForeign' = everForeign
      <3>1. Placed = {}
        BY <2>1 DEF Placed
      <3> QED BY <3>1, Zenon DEF ObserveRun, ObserveTool
    <2>4. CASE ~dryRun /\ history' = snap
      <3>1. /\ Keys(history)' \subseteq Keys(device)
            /\ replace = {}
            /\ \A b \in Books : local[b] = snap[b]
        BY <2>1, <2>2, <2>4 DEF QuietRun, Keys
      <3>2. \A b \in Books \ everForeign :
              /\ b \in Keys(snap) => device[b] = snap[b]
              /\ b \notin Keys(snap) => device[b] = Absent
        BY <2>1, <2>2, <2>4 DEF SmoothRun
      <3>3. Vouched'
        <4>1. Keys(history)' \ Keys(device)' \subseteq userRemoved'
          BY <2>1, <3>1, KeysPrime
        <4>2. \A b \in Keys(device)' \ everForeign' : history'[b] = device'[b]
          BY <2>1, <2>3, <2>4, <3>2, KeysPrime DEF Keys
        <4> QED BY <4>1, <4>2 DEF Vouched
      <3>4. \A b \in Keys(local)' \ everForeign' : device'[b] = local'[b]
        BY <2>1, <2>3, <3>1, <3>2, KeysPrime DEF Keys
      <3> QED BY <2>1, <3>3, <3>4 DEF SmoothRun
    <2>5. CASE history' = history /\ (dryRun \/ ~anyAction)
      <3>1. Vouched
        BY <2>1, <2>2, <2>5 DEF SmoothRun
      <3>2. Vouched'
        BY <2>1, <2>5, <3>1, VouchedStays DEF ObserveRun
      <3>3. ASSUME settled'
            PROVE  \A b \in Keys(local)' \ everForeign' : device'[b] = local'[b]
        <4>1. ~dryRun /\ quiet
          BY <3>3 DEF ObserveRun
        <4>2. \A b \in Books : local[b] = snap[b]
          BY <2>1, <2>2, <4>1 DEF QuietRun
        <4>3. \A b \in Books \ everForeign : b \in Keys(snap) => device[b] = snap[b]
          BY <2>1, <2>2, <4>1 DEF SmoothRun
        <4> QED BY <2>1, <2>3, <4>2, <4>3, KeysPrime DEF Keys
      <3> QED BY <2>1, <3>2, <3>3 DEF SmoothRun
    <2> QED BY <2>4, <2>5 DEF Finish, hst
  <1> QED BY <1>1, <1>2

(* Every step keeps SmoothRun, and with it the mirror.                     *)
LEMMA SmoothStep ==
  ASSUME TypeOK, QuietRun, SmoothRun, SmoothRunsMirror,
         [ObservedNext]_allVars
  PROVE  SmoothRun' /\ SmoothRunsMirror'
  <1>1. CASE UserNext /\ ObserveUser
    BY <1>1, SmoothUserStep, UserStepQuiet DEF SmoothRunsMirror
  <1>2. CASE BreakNext /\ ObserveBreak
    BY <1>2 DEF ObserveBreak, SmoothRun, SmoothRunsMirror, smooth
  <1>3. CASE UNCHANGED allVars
    BY <1>3, KeysPrime DEF allVars, vars, observers, files, hst, plan,
       SmoothRun, SmoothRunsMirror, Vouched, smooth
  <1>4. ASSUME ObserveRun,
               \/ \E dry \in BOOLEAN : StartSync(dry)
               \/ ScanLocal
               \/ NoLocalBooks
        PROVE  SmoothRun' /\ SmoothRunsMirror'
    <2>1. /\ UNCHANGED <<device, history>> /\ ~settled'
          /\ pc # "exec" /\ pc' # "exec"
          /\ pc' # "idle" => quiet' \/ ~smooth
      BY <1>4 DEF StartSync, ScanLocal, NoLocalBooks, EndRun, ObserveRun,
         SmoothRun, files, hst
    <2>2. smooth' => smooth
      BY <1>4 DEF ObserveRun, ObserveTool, smooth
    <2>3. smooth' => Vouched'
      BY <1>4, <2>1, <2>2, VouchedStays DEF ObserveRun, SmoothRun
    <2> QED BY <2>1, <2>2, <2>3 DEF SmoothRun, SmoothRunsMirror
  <1>5. CASE PrepareActions /\ ObserveRun
    <2>1. ~settled'
      BY <1>5 DEF PrepareActions, PlanWith, ObserveRun
    <2> QED BY <1>5, <2>1, SmoothPlanStep DEF SmoothRunsMirror
  <1>6. ASSUME ObserveRun, NEW b \in Books,
               \/ RemoveLocalBook(b)
               \/ RemoveDeviceBook(b)
               \/ RemoveOldCopy(b)
               \/ CopyBook(b)
        PROVE  SmoothRun' /\ SmoothRunsMirror'
    <2>1. ~settled'
      BY <1>6 DEF RemoveLocalBook, RemoveDeviceBook, RemoveOldCopy, CopyBook,
         CopyIsNext, Executing3, Executing6, ObserveRun
    <2> QED BY <1>6, <2>1, SmoothActionStep DEF SmoothRunsMirror
  <1>7. CASE Finish /\ ObserveRun
    BY <1>7, SmoothFinishStep DEF SmoothRunsMirror
  <1> QED
    BY <1>1, <1>2, <1>3, <1>4, <1>5, <1>6, <1>7
    DEF ObservedNext, ToolNext, RunNext

LEMMA SmoothRunHolds ==
  ObservedSpec => [](TypeOK /\ QuietRun /\ SmoothRun /\ SmoothRunsMirror)
  <1>1. ObservedInit => SmoothRun /\ SmoothRunsMirror
    BY DEF ObservedInit, Init, SmoothRun, SmoothRunsMirror, Vouched, Keys,
           NoFiles
  <1>2. TypeOK /\ QuietRun /\ SmoothRun /\ SmoothRunsMirror
          /\ [ObservedNext]_allVars => SmoothRun' /\ SmoothRunsMirror'
    BY SmoothStep
  <1> QED BY <1>1, <1>2, QuietRunHolds, PTL DEF ObservedSpec

(* Undisturbed runs leave every local book on the device in its local      *)
(* version, but for the books the user has put there.                      *)
THEOREM SmoothRunsDoMirror == ObservedSpec => []SmoothRunsMirror
  BY SmoothRunHolds, PTL

(* Undisturbed runs take a book from the source only when the user has     *)
(* taken it off the device.                                                *)
THEOREM SmoothLossIsRequested == ObservedSpec => SmoothLocalLossIsRequested
  <1>1. ASSUME TypeOK, SmoothRun, ToolNext, smooth
        PROVE  Keys(local) \ Keys(local') \subseteq userRemoved
    <2>1. CASE UNCHANGED local
      BY <2>1 DEF Keys
    <2>2. ASSUME NEW b \in Books, RemoveLocalBook(b)
          PROVE  Keys(local) \ Keys(local') \subseteq userRemoved
      <3>1. CASE dryRun
        BY <2>2, <3>1 DEF RemoveLocalBook, Keys
      <3>2. CASE ~dryRun
        <4>1. b \in userRemoved
          BY <1>1, <2>2, <3>2 DEF RemoveLocalBook, SmoothRun
        <4> QED BY <1>1, <2>2, <3>2, <4>1 DEF RemoveLocalBook, Keys, TypeOK
      <3> QED BY <3>1, <3>2
    <2> QED
      BY <1>1, <2>1, <2>2
      DEF ToolNext, RunNext, BreakNext, StartSync, ScanLocal, NoLocalBooks,
          PrepareActions, RemoveDeviceBook, RemoveOldCopy, CopyBook, Finish,
          CopyOfOtherSize, CopyCutShort, ActionFails, Interrupt, ScanSkips,
          DeviceScanSkips, PlanWith, files
  <1>2. TypeOK /\ SmoothRun /\ [ObservedNext]_allVars =>
          [\/ smooth => Keys(local) \ Keys(local') \subseteq userRemoved
           \/ UserNext]_allVars
    BY <1>1 DEF ObservedNext
  <1> QED
    BY <1>2, SmoothRunHolds, PTL DEF ObservedSpec, SmoothLocalLossIsRequested
=============================================================================
