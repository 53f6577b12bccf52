------------------------------ MODULE HistoryDB ------------------------------
(***************************************************************************)
(* The history database as history/create.go and history/connection.go     *)
(* use it: a file that is created and migrated table by table, opened      *)
(* without migration when it is there, read at the step it had when it was *)
(* opened, and extended by one transaction at the end of a run.            *)
(*                                                                         *)
(* SQLite and its migration pool are external: a transaction is visible to *)
(* others only once it is committed, there is one writer at a time, the    *)
(* others wait (SetBlockOnBusy), and each migration is a transaction.      *)
(***************************************************************************)
EXTENDS Sequences, Integers

CONSTANTS
  Runs,        \* runs of the tool; several may overlap
  Objects,     \* what is recorded: pairs of a path and a hash
  Closed,
  Nobody,
  MaxSteps,    \* bound on the saved steps
  MaxFaults    \* bound on crashes and failing statements

ASSUME NobodyAssumption == Nobody \notin Runs
ASSUME NothingAssumption == \A s \in SUBSET Objects : s # Closed
ASSUME BoundsAssumption == MaxSteps \in Nat /\ MaxFaults \in Nat

Tables == 3       \* identifiers, steps, objects: one migration each
Identifiers == 1..3  \* protocol, device id and target path

VARIABLES
  exists,      \* the database file is there
  version,     \* its user_version: the migrations applied
  identifiers, \* rows of the table identifiers
  disk,        \* committed steps: the objects of each
  owner,       \* the run whose transaction is open, or Nobody
  row,         \* objects the open transaction has inserted
  pc,
  dryRun,
  given,       \* the identifier to insert next
  stepID,      \* Connection.stepID
  seen,        \* the history this run has read
  want,        \* the snapshot this run saves
  faults

db == <<exists, version, identifiers, disk, owner, row>>
vars == <<db, pc, dryRun, given, stepID, seen, want, faults>>

(* SELECT step_id FROM steps ORDER BY 1 DESC LIMIT 1, 0 without any step. *)
LastStep == Len(disk)

StepObjects(id) == IF id = 0 THEN {} ELSE disk[id]

Init ==
  /\ exists = FALSE
  /\ version = 0
  /\ identifiers = {}
  /\ disk = << >>
  /\ owner = Nobody
  /\ row = {}
  /\ pc = [r \in Runs |-> "idle"]
  /\ dryRun = [r \in Runs |-> FALSE]
  /\ given = [r \in Runs |-> 1]
  /\ stepID = [r \in Runs |-> 0]
  /\ seen = [r \in Runs |-> {}]
  /\ want = [r \in Runs |-> {}]
  /\ faults = 0

Goto(r, label) == pc' = [pc EXCEPT ![r] = label]

(* The run is over, for better or for worse. *)
End(r) ==
  /\ Goto(r, "idle")
  /\ dryRun' = [dryRun EXCEPT ![r] = FALSE]
  /\ given' = [given EXCEPT ![r] = 1]
  /\ stepID' = [stepID EXCEPT ![r] = 0]
  /\ seen' = [seen EXCEPT ![r] = {}]
  /\ want' = [want EXCEPT ![r] = {}]

-----------------------------------------------------------------------------
(* Sync looks for the file: os.Stat. *)
Stat(r, dry) ==
  /\ pc[r] = "idle"
  /\ Goto(r, IF exists THEN "connect" ELSE "create")
  /\ dryRun' = [dryRun EXCEPT ![r] = dry]
  /\ UNCHANGED <<db, given, stepID, seen, want, faults>>

(* Create: the pool opens the file ... *)
CreateFile(r) ==
  /\ pc[r] = "create"
  /\ exists' = TRUE
  /\ Goto(r, "migrate")
  /\ UNCHANGED <<version, identifiers, disk, owner, row, dryRun, given, stepID,
                 seen, want, faults>>

(* Definitions named Wrong... are faulty variants that nothing uses. *)
WrongMigrate(r) ==
  /\ pc[r] = "migrate"
  /\ owner = Nobody
  /\ IF version < Tables - 1
     THEN version' = version + 1 /\ pc' = pc
     ELSE version' = version /\ Goto(r, "identify")
  /\ UNCHANGED <<exists, identifiers, disk, owner, row, dryRun, given, stepID,
                 seen, want, faults>>

WrongMigrateOnce(r) ==
  /\ pc[r] = "migrate"
  /\ owner = Nobody
  /\ version' = 1
  /\ Goto(r, "identify")
  /\ UNCHANGED <<exists, identifiers, disk, owner, row, dryRun, given, stepID,
                 seen, want, faults>>

(* ... and applies the migrations that are missing, one transaction each. *)
Migrate(r) ==
  /\ pc[r] = "migrate"
  /\ owner = Nobody
  /\ IF version < Tables
     THEN version' = version + 1 /\ pc' = pc
     ELSE version' = version /\ Goto(r, "identify")
  /\ UNCHANGED <<exists, identifiers, disk, owner, row, dryRun, given, stepID,
                 seen, want, faults>>

(* INSERT INTO identifiers, a statement for each. *)
Identify(r) ==
  /\ pc[r] = "identify"
  /\ owner = Nobody
  /\ given[r] \in Identifiers \ identifiers
  /\ identifiers' = identifiers \cup {given[r]}
  /\ given' = [given EXCEPT ![r] = @ + 1]
  /\ UNCHANGED <<exists, version, disk, owner, row, pc, dryRun, stepID, seen,
                 want, faults>>

AllIdentified(r) ==
  /\ pc[r] = "identify"
  /\ given[r] \notin Identifiers
  /\ Goto(r, "connect")
  /\ UNCHANGED <<db, dryRun, given, stepID, seen, want, faults>>

(* The values are UNIQUE: another run has created the database as well. *)
IdentifierIsTaken(r) ==
  /\ pc[r] = "identify"
  /\ owner = Nobody
  /\ given[r] \in identifiers
  /\ End(r)
  /\ UNCHANGED <<db, faults>>

(* Connect opens the file as it is and asks for the last step. *)
Connect(r) ==
  /\ pc[r] = "connect"
  /\ version >= 2
  /\ stepID' = [stepID EXCEPT ![r] = LastStep]
  /\ Goto(r, "read")
  /\ UNCHANGED <<db, dryRun, given, seen, want, faults>>

(* "no such table: steps". *)
ConnectFails(r) ==
  /\ pc[r] = "connect"
  /\ version < 2
  /\ End(r)
  /\ UNCHANGED <<db, faults>>

WrongGetObjectInfos(r) ==
  /\ pc[r] = "read"
  /\ seen' = [seen EXCEPT ![r] = StepObjects(LastStep)]
  /\ Goto(r, "work")
  /\ UNCHANGED <<db, dryRun, given, stepID, want, faults>>

GetObjectInfos(r) ==
  /\ pc[r] = "read"
  /\ seen' = [seen EXCEPT ![r] = StepObjects(stepID[r])]
  /\ Goto(r, "work")
  /\ UNCHANGED <<db, dryRun, given, stepID, want, faults>>

(* The run ends without a save: a dry run, nothing to do, a failed action. *)
Leave(r) ==
  /\ pc[r] = "work"
  /\ End(r)
  /\ UNCHANGED <<db, faults>>

(* SaveObjectInfos: BEGIN IMMEDIATE and the new row of steps. *)
BeginSave(r, snapshot) ==
  /\ pc[r] = "work"
  /\ ~dryRun[r]
  /\ owner = Nobody
  /\ LastStep < MaxSteps
  /\ owner' = r
  /\ row' = {}
  /\ want' = [want EXCEPT ![r] = snapshot]
  /\ Goto(r, "save")
  /\ UNCHANGED <<exists, version, identifiers, disk, dryRun, given, stepID,
                 seen, faults>>

InsertObject(r, o) ==
  /\ pc[r] = "save"
  /\ version = Tables
  /\ o \in want[r] \ row
  /\ row' = row \cup {o}
  /\ UNCHANGED <<exists, version, identifiers, disk, owner, pc, dryRun, given,
                 stepID, seen, want, faults>>

Rollback(r) ==
  /\ owner' = IF owner = r THEN Nobody ELSE owner
  /\ row' = IF owner = r THEN {} ELSE row

(* "no such table: objects". *)
InsertFails(r) ==
  /\ pc[r] = "save"
  /\ version < Tables
  /\ want[r] \ row # {}
  /\ Rollback(r)
  /\ End(r)
  /\ UNCHANGED <<exists, version, identifiers, disk, faults>>

Commit(r) ==
  /\ pc[r] = "save"
  /\ row = want[r]
  /\ disk' = Append(disk, row)
  /\ owner' = Nobody
  /\ row' = {}
  /\ End(r)
  /\ UNCHANGED <<exists, version, identifiers, faults>>

WrongCrash(r) ==
  /\ pc[r] # "idle"
  /\ faults < MaxFaults
  /\ faults' = faults + 1
  /\ disk' = IF owner = r THEN Append(disk, row) ELSE disk
  /\ Rollback(r)
  /\ End(r)
  /\ UNCHANGED <<exists, version, identifiers>>

(* The process dies or a statement fails; an open transaction is undone. *)
Crash(r) ==
  /\ pc[r] # "idle"
  /\ faults < MaxFaults
  /\ faults' = faults + 1
  /\ Rollback(r)
  /\ End(r)
  /\ UNCHANGED <<exists, version, identifiers, disk>>

Create(r) == CreateFile(r) \/ Migrate(r) \/ Identify(r)
             \/ AllIdentified(r) \/ IdentifierIsTaken(r)

Use(r) ==
  \/ Connect(r) \/ ConnectFails(r) \/ GetObjectInfos(r) \/ Leave(r)
  \/ \E s \in SUBSET Objects : BeginSave(r, s)
  \/ \E o \in Objects : InsertObject(r, o)
  \/ InsertFails(r) \/ Commit(r)

Next ==
  \E r \in Runs :
     \/ \E dry \in BOOLEAN : Stat(r, dry)
     \/ Create(r)
     \/ Use(r)
     \/ Crash(r)

Spec == Init /\ [][Next]_vars

(* Every run that has begun goes on, and the user starts the tool again    *)
(* and again without --dry-run.                                            *)
FairSpec ==
  /\ Spec
  /\ \A r \in Runs : WF_vars(Create(r) \/ Use(r)) /\ WF_vars(Stat(r, FALSE))

-----------------------------------------------------------------------------
Labels ==
  {"idle", "create", "migrate", "identify", "connect", "read", "work", "save"}

Typed ==
  /\ exists \in BOOLEAN
  /\ version \in 0..Tables
  /\ identifiers \in SUBSET Identifiers
  /\ disk \in Seq(SUBSET Objects)
  /\ owner \in Runs \cup {Nobody}
  /\ row \in SUBSET Objects
  /\ pc \in [Runs -> Labels]
  /\ dryRun \in [Runs -> BOOLEAN]
  /\ given \in [Runs -> 1..4]
  /\ stepID \in [Runs -> Nat]
  /\ seen \in [Runs -> SUBSET Objects]
  /\ want \in [Runs -> SUBSET Objects]
  /\ faults \in Nat

(* Nothing is recorded before its table is there, and the one open         *)
(* transaction belongs to the one run that saves.                          *)
TypeOK ==
  /\ Typed
  /\ version > 0 => exists
  /\ \A i \in 1..Len(disk) : disk[i] # {} => version = Tables
  /\ \A r \in Runs : pc[r] = "save" <=> owner = r

(* stepObjectInfos asks for the step the connection was opened at, so that *)
(* a run that works beside a saving one still plans with the history it    *)
(* has connected to, which is always a whole saved snapshot.               *)
RunsSeeTheirStep ==
  \A r \in Runs :
    pc[r] \in {"work", "save"} =>
      stepID[r] <= Len(disk) /\ seen[r] = StepObjects(stepID[r])

(* Create returns only after the pool has applied every migration: as long *)
(* as no run has been broken off, a file without its tables is still in    *)
(* the hands of the run that creates it.                                   *)
CreationCompletes ==
  /\ faults = 0 /\ exists /\ version < Tables =>
       \E r \in Runs : pc[r] = "migrate"
  /\ \A r \in Runs : pc[r] \in {"read", "work", "save"} /\ version < Tables =>
       faults > 0 \/ \E q \in Runs : pc[q] = "migrate"

(* "Do not perform any actual changes": while only dry runs are under way  *)
(* the database stays as it is.                                            *)
DryRunsChangeNothing ==
  [][(\A r \in Runs : pc[r] # "idle" => dryRun[r]) =>
       UNCHANGED <<exists, version, identifiers, disk>>]_vars

(* "The tool should maintain a history": when the crashes are over, a run  *)
(* gets to its history again and again, unless one of them has left the    *)
(* file without the table steps: Create, which alone could add it, is only *)
(* called when there is no file.                                           *)
HalfCreated == exists /\ version < 2 /\ faults > 0

HistoryIsReached == <>[]HalfCreated \/ []<>(\E r \in Runs : pc[r] = "work")

-----------------------------------------------------------------------------
(* The database implements HistoryLog. *)

Connected(r) == pc[r] \in {"read", "work", "save"}

View(r) == IF Connected(r) THEN StepObjects(stepID[r]) ELSE Closed

Wish(r) == IF pc[r] = "save" THEN want[r] ELSE Closed

Log == INSTANCE HistoryLog WITH
  log  <- disk,
  view <- [r \in Runs |-> View(r)],
  wish <- [r \in Runs |-> Wish(r)]

(* Seen from a run, the migrations, the inserts row by row, the rollbacks  *)
(* and the other runs are the log of snapshots that sync/run.go relies on. *)
ImplementsLog == Log!Spec
=============================================================================
