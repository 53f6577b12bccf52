--------------------------- MODULE HistoryDBProofs ---------------------------
(***************************************************************************)
(* HistoryDB implements HistoryLog, for any runs, objects and bounds.      *)
(***************************************************************************)
EXTENDS HistoryDB, TLAPS

(* TypeOK and RunsSeeTheirStep do not hold on their own: that no object is *)
(* recorded before its table is there needs the same of the transaction in *)
(* progress, and that a run keeps seeing its step needs the step to be     *)
(* there from the moment the run has connected.                            *)
StepsAreThere == \A r \in Runs : Connected(r) => stepID[r] <= Len(disk)

RowsAreSound ==
  /\ version > 0 => exists
  /\ \A r \in Runs : pc[r] = "migrate" => exists
  /\ row # {} => version = Tables
  /\ \A i \in 1..Len(disk) : disk[i] # {} => version = Tables

OneWriter ==
  \A r \in Runs :
    /\ pc[r] = "save" <=> owner = r
    /\ pc[r] = "save" => ~dryRun[r]

SeenIsStep ==
  \A r \in Runs : pc[r] \in {"work", "save"} => seen[r] = StepObjects(stepID[r])

Inv == Typed /\ StepsAreThere /\ RowsAreSound /\ OneWriter /\ SeenIsStep

(* Types are kept: disk[stepID] is a snapshot, because the step is there. *)
LEMMA TypingStep == Typed /\ StepsAreThere /\ [Next]_vars => Typed'
<1> SUFFICES ASSUME Typed /\ StepsAreThere, [Next]_vars PROVE Typed'
  OBVIOUS
<1> USE NobodyAssumption DEF Typed, StepsAreThere, Connected, Tables, Labels, Goto, StepObjects, LastStep
<1>1. CASE UNCHANGED vars
  BY <1>1 DEF vars, db
<1>2. ASSUME NEW r \in Runs, NEW dry \in BOOLEAN, Stat(r, dry) PROVE Typed'
  BY <1>2 DEF Stat, db
<1>3. ASSUME NEW r \in Runs, CreateFile(r) PROVE Typed'
  BY <1>3 DEF CreateFile, db
<1>4. ASSUME NEW r \in Runs, Migrate(r) PROVE Typed'
  <2>1. version' \in 0..Tables
    BY <1>4 DEF Migrate
  <2>2. pc' \in [Runs -> Labels]
    BY <1>4 DEF Migrate
  <2> QED
    BY <1>4, <2>1, <2>2 DEF Migrate
<1>5. ASSUME NEW r \in Runs, Identify(r) PROVE Typed'
  <2>1. given[r] \in 1..3 /\ identifiers' \in SUBSET Identifiers
    BY <1>5 DEF Identify, Identifiers
  <2>2. given' \in [Runs -> 1..4]
    BY <1>5, <2>1 DEF Identify
  <2> QED
    BY <1>5, <2>1, <2>2 DEF Identify
<1>6. ASSUME NEW r \in Runs, AllIdentified(r) PROVE Typed'
  BY <1>6 DEF AllIdentified, db
<1>7. ASSUME NEW r \in Runs, IdentifierIsTaken(r) PROVE Typed'
  BY <1>7 DEF IdentifierIsTaken, db, End
<1>8. ASSUME NEW r \in Runs, Connect(r) PROVE Typed'
  BY <1>8 DEF Connect, db
<1>9. ASSUME NEW r \in Runs, ConnectFails(r) PROVE Typed'
  BY <1>9 DEF ConnectFails, db, End
<1>10. ASSUME NEW r \in Runs, GetObjectInfos(r) PROVE Typed'
  <2>1. StepObjects(stepID[r]) \in SUBSET Objects
    BY <1>10 DEF GetObjectInfos
  <2>2. seen' \in [Runs -> SUBSET Objects]
    BY <1>10, <2>1 DEF GetObjectInfos
  <2> QED
    BY <1>10, <2>2 DEF GetObjectInfos, db
<1>11. ASSUME NEW r \in Runs, Leave(r) PROVE Typed'
  BY <1>11 DEF Leave, db, End
<1>12. ASSUME NEW r \in Runs, NEW s \in SUBSET Objects, BeginSave(r, s) PROVE Typed'
  BY <1>12 DEF BeginSave, db
<1>13. ASSUME NEW r \in Runs, NEW o \in Objects, InsertObject(r, o) PROVE Typed'
  BY <1>13 DEF InsertObject, db
<1>14. ASSUME NEW r \in Runs, InsertFails(r) PROVE Typed'
  BY <1>14 DEF InsertFails, db, End, Rollback
<1>15. ASSUME NEW r \in Runs, Commit(r) PROVE Typed'
  BY <1>15 DEF Commit, db, End
<1>16. ASSUME NEW r \in Runs, Crash(r) PROVE Typed'
  BY <1>16 DEF Crash, db, End, Rollback
<1> HIDE DEF Typed, StepsAreThere, Connected, Tables, Labels, Goto, StepObjects, LastStep
<1> QED
  BY <1>1, <1>2, <1>3, <1>4, <1>5, <1>6, <1>7, <1>8, <1>9, <1>10, <1>11, <1>12,
     <1>13, <1>14, <1>15, <1>16 DEF Next, Create, Use

(* A connected run keeps its step: steps are only appended. *)
LEMMA StepsStep == Typed /\ StepsAreThere /\ [Next]_vars => StepsAreThere'
<1> SUFFICES ASSUME Typed /\ StepsAreThere, [Next]_vars PROVE StepsAreThere'
  OBVIOUS
<1> USE NobodyAssumption DEF Typed, StepsAreThere, Connected, Labels, Goto, LastStep
<1>1. CASE UNCHANGED vars
  BY <1>1 DEF vars, db
<1>2. ASSUME NEW r \in Runs, NEW dry \in BOOLEAN, Stat(r, dry) PROVE StepsAreThere'
  BY <1>2 DEF Stat, db
<1>3. ASSUME NEW r \in Runs, CreateFile(r) PROVE StepsAreThere'
  BY <1>3 DEF CreateFile, db
<1>4. ASSUME NEW r \in Runs, Migrate(r) PROVE StepsAreThere'
  BY <1>4 DEF Migrate, db
<1>5. ASSUME NEW r \in Runs, Identify(r) PROVE StepsAreThere'
  BY <1>5 DEF Identify, db
<1>6. ASSUME NEW r \in Runs, AllIdentified(r) PROVE StepsAreThere'
  BY <1>6 DEF AllIdentified, db
<1>7. ASSUME NEW r \in Runs, IdentifierIsTaken(r) PROVE StepsAreThere'
  BY <1>7 DEF IdentifierIsTaken, db, End
<1>8. ASSUME NEW r \in Runs, Connect(r) PROVE StepsAreThere'
  BY <1>8 DEF Connect, db
<1>9. ASSUME NEW r \in Runs, ConnectFails(r) PROVE StepsAreThere'
  BY <1>9 DEF ConnectFails, db, End
<1>10. ASSUME NEW r \in Runs, GetObjectInfos(r) PROVE StepsAreThere'
  BY <1>10 DEF GetObjectInfos, db
<1>11. ASSUME NEW r \in Runs, Leave(r) PROVE StepsAreThere'
  BY <1>11 DEF Leave, db, End
<1>12. ASSUME NEW r \in Runs, NEW s \in SUBSET Objects, BeginSave(r, s) PROVE StepsAreThere'
  BY <1>12 DEF BeginSave, db
<1>13. ASSUME NEW r \in Runs, NEW o \in Objects, InsertObject(r, o) PROVE StepsAreThere'
  BY <1>13 DEF InsertObject, db
<1>14. ASSUME NEW r \in Runs, InsertFails(r) PROVE StepsAreThere'
  BY <1>14 DEF InsertFails, db, End, Rollback
<1>15. ASSUME NEW r \in Runs, Commit(r) PROVE StepsAreThere'
  BY <1>15 DEF Commit, db, End
<1>16. ASSUME NEW r \in Runs, Crash(r) PROVE StepsAreThere'
  BY <1>16 DEF Crash, db, End, Rollback
<1> HIDE DEF Typed, StepsAreThere, Connected, Labels, Goto, LastStep
<1> QED
  BY <1>1, <1>2, <1>3, <1>4, <1>5, <1>6, <1>7, <1>8, <1>9, <1>10, <1>11, <1>12,
     <1>13, <1>14, <1>15, <1>16 DEF Next, Create, Use

(* Nothing is inserted before there is a table, and tables stay. *)
LEMMA RowsStep == Typed /\ RowsAreSound /\ [Next]_vars => RowsAreSound'
<1> SUFFICES ASSUME Typed /\ RowsAreSound, [Next]_vars PROVE RowsAreSound'
  OBVIOUS
<1> USE NobodyAssumption DEF Typed, RowsAreSound, Tables, Goto
<1>1. CASE UNCHANGED vars
  BY <1>1 DEF vars, db
<1>2. ASSUME NEW r \in Runs, NEW dry \in BOOLEAN, Stat(r, dry) PROVE RowsAreSound'
  BY <1>2 DEF Stat, db
<1>3. ASSUME NEW r \in Runs, CreateFile(r) PROVE RowsAreSound'
  BY <1>3 DEF CreateFile, db
<1>4. ASSUME NEW r \in Runs, Migrate(r) PROVE RowsAreSound'
  BY <1>4 DEF Migrate, db
<1>5. ASSUME NEW r \in Runs, Identify(r) PROVE RowsAreSound'
  BY <1>5 DEF Identify, db
<1>6. ASSUME NEW r \in Runs, AllIdentified(r) PROVE RowsAreSound'
  BY <1>6 DEF AllIdentified, db
<1>7. ASSUME NEW r \in Runs, IdentifierIsTaken(r) PROVE RowsAreSound'
  BY <1>7 DEF IdentifierIsTaken, db, End
<1>8. ASSUME NEW r \in Runs, Connect(r) PROVE RowsAreSound'
  BY <1>8 DEF Connect, db
<1>9. ASSUME NEW r \in Runs, ConnectFails(r) PROVE RowsAreSound'
  BY <1>9 DEF ConnectFails, db, End
<1>10. ASSUME NEW r \in Runs, GetObjectInfos(r) PROVE RowsAreSound'
  BY <1>10 DEF GetObjectInfos, db
<1>11. ASSUME NEW r \in Runs, Leave(r) PROVE RowsAreSound'
  BY <1>11 DEF Leave, db, End
<1>12. ASSUME NEW r \in Runs, NEW s \in SUBSET Objects, BeginSave(r, s) PROVE RowsAreSound'
  BY <1>12 DEF BeginSave, db
<1>13. ASSUME NEW r \in Runs, NEW o \in Objects, InsertObject(r, o) PROVE RowsAreSound'
  BY <1>13 DEF InsertObject, db
<1>14. ASSUME NEW r \in Runs, InsertFails(r) PROVE RowsAreSound'
  BY <1>14 DEF InsertFails, db, End, Rollback
<1>15. ASSUME NEW r \in Runs, Commit(r) PROVE RowsAreSound'
  BY <1>15 DEF Commit, db, End
<1>16. ASSUME NEW r \in Runs, Crash(r) PROVE RowsAreSound'
  BY <1>16 DEF Crash, db, End, Rollback
<1> HIDE DEF Typed, RowsAreSound, Tables, Goto
<1> QED
  BY <1>1, <1>2, <1>3, <1>4, <1>5, <1>6, <1>7, <1>8, <1>9, <1>10, <1>11, <1>12,
     <1>13, <1>14, <1>15, <1>16 DEF Next, Create, Use

(* Only the owner of the transaction saves, and it is no dry run. *)
LEMMA WriterStep == Typed /\ OneWriter /\ [Next]_vars => OneWriter'
<1> SUFFICES ASSUME Typed /\ OneWriter, [Next]_vars PROVE OneWriter'
  OBVIOUS
<1> USE NobodyAssumption DEF Typed, OneWriter, Labels, Goto
<1>1. CASE UNCHANGED vars
  BY <1>1 DEF vars, db
<1>2. ASSUME NEW r \in Runs, NEW dry \in BOOLEAN, Stat(r, dry) PROVE OneWriter'
  BY <1>2 DEF Stat, db
<1>3. ASSUME NEW r \in Runs, CreateFile(r) PROVE OneWriter'
  BY <1>3 DEF CreateFile, db
<1>4. ASSUME NEW r \in Runs, Migrate(r) PROVE OneWriter'
  BY <1>4 DEF Migrate, db
<1>5. ASSUME NEW r \in Runs, Identify(r) PROVE OneWriter'
  BY <1>5 DEF Identify, db
<1>6. ASSUME NEW r \in Runs, AllIdentified(r) PROVE OneWriter'
  BY <1>6 DEF AllIdentified, db
<1>7. ASSUME NEW r \in Runs, IdentifierIsTaken(r) PROVE OneWriter'
  BY <1>7 DEF IdentifierIsTaken, db, End
<1>8. ASSUME NEW r \in Runs, Connect(r) PROVE OneWriter'
  BY <1>8 DEF Connect, db
<1>9. ASSUME NEW r \in Runs, ConnectFails(r) PROVE OneWriter'
  BY <1>9 DEF ConnectFails, db, End
<1>10. ASSUME NEW r \in Runs, GetObjectInfos(r) PROVE OneWriter'
  BY <1>10 DEF GetObjectInfos, db
<1>11. ASSUME NEW r \in Runs, Leave(r) PROVE OneWriter'
  BY <1>11 DEF Leave, db, End
<1>12. ASSUME NEW r \in Runs, NEW s \in SUBSET Objects, BeginSave(r, s) PROVE OneWriter'
  BY <1>12 DEF BeginSave, db
<1>13. ASSUME NEW r \in Runs, NEW o \in Objects, InsertObject(r, o) PROVE OneWriter'
  BY <1>13 DEF InsertObject, db
<1>14. ASSUME NEW r \in Runs, InsertFails(r) PROVE OneWriter'
  BY <1>14 DEF InsertFails, db, End, Rollback
<1>15. ASSUME NEW r \in Runs, Commit(r) PROVE OneWriter'
  BY <1>15 DEF Commit, db, End
<1>16. ASSUME NEW r \in Runs, Crash(r) PROVE OneWriter'
  BY <1>16 DEF Crash, db, End, Rollback
<1> HIDE DEF Typed, OneWriter, Labels, Goto
<1> QED
  BY <1>1, <1>2, <1>3, <1>4, <1>5, <1>6, <1>7, <1>8, <1>9, <1>10, <1>11, <1>12,
     <1>13, <1>14, <1>15, <1>16 DEF Next, Create, Use

(* What a run has read stays what its step holds. *)
LEMMA SeenStep == Typed /\ StepsAreThere /\ SeenIsStep /\ [Next]_vars => SeenIsStep'
<1> SUFFICES ASSUME Typed /\ StepsAreThere /\ SeenIsStep, [Next]_vars PROVE SeenIsStep'
  OBVIOUS
<1> USE NobodyAssumption DEF Typed, StepsAreThere, SeenIsStep, Connected, StepObjects, Goto
<1>1. CASE UNCHANGED vars
  BY <1>1 DEF vars, db
<1>2. ASSUME NEW r \in Runs, NEW dry \in BOOLEAN, Stat(r, dry) PROVE SeenIsStep'
  BY <1>2 DEF Stat, db
<1>3. ASSUME NEW r \in Runs, CreateFile(r) PROVE SeenIsStep'
  BY <1>3 DEF CreateFile, db
<1>4. ASSUME NEW r \in Runs, Migrate(r) PROVE SeenIsStep'
  BY <1>4 DEF Migrate, db
<1>5. ASSUME NEW r \in Runs, Identify(r) PROVE SeenIsStep'
  BY <1>5 DEF Identify, db
<1>6. ASSUME NEW r \in Runs, AllIdentified(r) PROVE SeenIsStep'
  BY <1>6 DEF AllIdentified, db
<1>7. ASSUME NEW r \in Runs, IdentifierIsTaken(r) PROVE SeenIsStep'
  BY <1>7 DEF IdentifierIsTaken, db, End
<1>8. ASSUME NEW r \in Runs, Connect(r) PROVE SeenIsStep'
  BY <1>8 DEF Connect, db
<1>9. ASSUME NEW r \in Runs, ConnectFails(r) PROVE SeenIsStep'
  BY <1>9 DEF ConnectFails, db, End
<1>10. ASSUME NEW r \in Runs, GetObjectInfos(r) PROVE SeenIsStep'
  BY <1>10 DEF GetObjectInfos, db
<1>11. ASSUME NEW r \in Runs, Leave(r) PROVE SeenIsStep'
  BY <1>11 DEF Leave, db, End
<1>12. ASSUME NEW r \in Runs, NEW s \in SUBSET Objects, BeginSave(r, s) PROVE SeenIsStep'
  BY <1>12 DEF BeginSave, db
<1>13. ASSUME NEW r \in Runs, NEW o \in Objects, InsertObject(r, o) PROVE SeenIsStep'
  BY <1>13 DEF InsertObject, db
<1>14. ASSUME NEW r \in Runs, InsertFails(r) PROVE SeenIsStep'
  BY <1>14 DEF InsertFails, db, End, Rollback
<1>15. ASSUME NEW r \in Runs, Commit(r) PROVE SeenIsStep'
  <2> SUFFICES ASSUME NEW q \in Runs, pc'[q] \in {"work", "save"}
               PROVE  seen'[q] = StepObjects(stepID[q])'
    BY DEF SeenIsStep
  <2>1. q # r /\ pc[q] = pc'[q] /\ stepID'[q] = stepID[q] /\ seen'[q] = seen[q]
    BY <1>15 DEF Commit, End
  <2>2. stepID[q] # 0 => disk'[stepID[q]] = disk[stepID[q]]
    BY <1>15, <2>1 DEF Commit
  <2> QED
    BY <2>1, <2>2
<1>16. ASSUME NEW r \in Runs, Crash(r) PROVE SeenIsStep'
  BY <1>16 DEF Crash, db, End, Rollback
<1> HIDE DEF Typed, StepsAreThere, SeenIsStep, Connected, StepObjects, Goto
<1> QED
  BY <1>1, <1>2, <1>3, <1>4, <1>5, <1>6, <1>7, <1>8, <1>9, <1>10, <1>11, <1>12,
     <1>13, <1>14, <1>15, <1>16 DEF Next, Create, Use

(* The invariant of all reachable states. *)
THEOREM Invariance == Spec => []Inv
<1>1. Init => Inv
  <2> SUFFICES ASSUME Init PROVE Inv
    OBVIOUS
  <2>1. Typed
    <3>1. version \in 0..Tables /\ faults \in Nat /\ given \in [Runs -> 1..4]
      BY DEF Init, Tables
    <3>2. disk \in Seq(SUBSET Objects)
      BY DEF Init
    <3>3. /\ pc \in [Runs -> Labels] /\ dryRun \in [Runs -> BOOLEAN]
          /\ stepID \in [Runs -> Nat]
      BY DEF Init, Labels
    <3>4. seen \in [Runs -> SUBSET Objects] /\ want \in [Runs -> SUBSET Objects]
      BY DEF Init
    <3>5. /\ exists \in BOOLEAN /\ identifiers \in SUBSET Identifiers
          /\ owner \in Runs \cup {Nobody} /\ row \in SUBSET Objects
      BY DEF Init
    <3> QED
      BY <3>1, <3>2, <3>3, <3>4, <3>5 DEF Typed
  <2>2. StepsAreThere /\ SeenIsStep
    BY DEF Init, StepsAreThere, SeenIsStep, Connected
  <2>3. RowsAreSound
    BY DEF Init, RowsAreSound
  <2>4. OneWriter
    BY NobodyAssumption DEF Init, OneWriter
  <2> QED
    BY <2>1, <2>2, <2>3, <2>4 DEF Inv
<1>2. Inv /\ [Next]_vars => Inv'
  BY TypingStep, StepsStep, RowsStep, WriterStep, SeenStep DEF Inv
<1> QED
  BY <1>1, <1>2, PTL DEF Spec

(* For any runs and objects: nothing is recorded before its table is there *)
(* and the open transaction is that of the one run that saves.             *)
THEOREM TypeCorrect == Spec => []TypeOK
<1>1. Inv => TypeOK
  BY DEF Inv, TypeOK, RowsAreSound, OneWriter
<1> QED
  BY <1>1, Invariance, PTL

(* For any number of overlapping runs: each one plans with the history of  *)
(* the moment it connected (stepObjectInfos with Connection.stepID).       *)
THEOREM RunsDoSeeTheirStep == Spec => []RunsSeeTheirStep
<1>1. Inv => RunsSeeTheirStep
  BY DEF Inv, RunsSeeTheirStep, StepsAreThere, SeenIsStep, Connected
<1> QED
  BY <1>1, Invariance, PTL

-----------------------------------------------------------------------------
(* The creation of the database.  That a file without its tables is in the *)
(* hands of a run at its migrations is inductive; that a run which reads   *)
(* may meet such a file only then needs that it has found the table of     *)
(* steps when it connected.                                                *)
InCreation ==
  faults = 0 /\ exists /\ version < Tables => \E r \in Runs : pc[r] = "migrate"

ReadersHaveSteps == \A r \in Runs : Connected(r) => version >= 2

Moves(r) == (\E dry \in BOOLEAN : Stat(r, dry)) \/ Create(r) \/ Use(r) \/ Crash(r)

(* A step of one run leaves the others where they are. *)
LEMMA OneRunMoves ==
  ASSUME NEW r \in Runs, Moves(r), pc \in [Runs -> Labels], NEW q \in Runs, q # r
  PROVE  pc'[q] = pc[q]
<1> USE DEF Goto, End
<1>1. \A dry \in BOOLEAN : Stat(r, dry) => pc'[q] = pc[q]
  BY DEF Stat
<1>2. Create(r) => pc'[q] = pc[q]
  BY DEF Create, CreateFile, Migrate, Identify, AllIdentified, IdentifierIsTaken
<1>3. ConnectFails(r) \/ Leave(r) \/ InsertFails(r) \/ Commit(r) \/ Crash(r) => pc'[q] = pc[q]
  BY DEF ConnectFails, Leave, InsertFails, Commit, Crash
<1>4. Connect(r) \/ GetObjectInfos(r) => pc'[q] = pc[q]
  BY DEF Connect, GetObjectInfos
<1>5. \A s \in SUBSET Objects : BeginSave(r, s) => pc'[q] = pc[q]
  BY DEF BeginSave
<1>6. \A o \in Objects : InsertObject(r, o) => pc'[q] = pc[q]
  BY DEF InsertObject
<1> QED
  BY <1>1, <1>2, <1>3, <1>4, <1>5, <1>6 DEF Moves, Use

(* A run leaves its migrations when the last one has been applied, or it   *)
(* breaks off, which is a fault.                                           *)
LEMMA CreationStep == Typed /\ InCreation /\ [Next]_vars => InCreation'
<1> SUFFICES ASSUME Typed, InCreation, [Next]_vars,
                    faults' = 0, exists', version' < Tables
             PROVE  \E q \in Runs : pc'[q] = "migrate"
  BY DEF InCreation
<1>1. CASE exists' = exists /\ version' = version /\ faults' = faults
  <2>1. PICK q \in Runs : pc[q] = "migrate"
    BY <1>1 DEF InCreation
  <2>2. ASSUME NEW r \in Runs, Moves(r) PROVE pc'[q] = "migrate"
    <3>1. CASE r # q
      BY <2>1, <2>2, <3>1, OneRunMoves DEF Typed
    <3>2. CASE r = q
      <4>1. ~Crash(q)
        <5>1. faults \in Nat
          BY DEF Typed
        <5>2. Crash(q) => faults' = faults + 1
          BY Zenon DEF Crash
        <5>3. faults' # faults + 1
          BY <5>1, <1>1
        <5> QED
          BY <5>2, <5>3
      <4>2. ~Use(q) /\ \A dry \in BOOLEAN : ~Stat(q, dry)
        BY <2>1 DEF Use, Stat, Connect, ConnectFails, GetObjectInfos, Leave, BeginSave,
           InsertObject, InsertFails, Commit
      <4>3. Migrate(q)
        BY <2>1, <2>2, <3>2, <4>1, <4>2 DEF Moves, Create, CreateFile, Identify, AllIdentified,
           IdentifierIsTaken
      <4> QED
        BY <2>1, <3>2, <4>3, <1>1 DEF Typed, Tables, Migrate
    <3> QED
      BY <3>1, <3>2
  <2> QED
    BY <2>1, <2>2 DEF Next, Moves, vars
<1>2. ASSUME NEW r \in Runs, CreateFile(r) PROVE \E q \in Runs : pc'[q] = "migrate"
  BY <1>2 DEF Typed, CreateFile, Goto
<1>3. ASSUME NEW r \in Runs, Migrate(r) PROVE \E q \in Runs : pc'[q] = "migrate"
  BY <1>3 DEF Typed, Migrate, Goto
<1>4. ASSUME NEW r \in Runs, Crash(r) PROVE FALSE
  BY <1>4 DEF Typed, Crash
<1> QED
  BY <1>1, <1>2, <1>3, <1>4 DEF Next, Create, Use, vars, db, Stat, Identify, AllIdentified,
     IdentifierIsTaken, Connect, ConnectFails, GetObjectInfos, Leave, BeginSave,
     InsertObject, InsertFails, Commit

(* Tables stay, and who connects has asked for the last step. *)
LEMMA ReadersStep == Typed /\ ReadersHaveSteps /\ [Next]_vars => ReadersHaveSteps'
<1> SUFFICES ASSUME Typed, ReadersHaveSteps, [Next]_vars,
                    NEW q \in Runs, Connected(q)'
             PROVE  version' >= 2
  BY DEF ReadersHaveSteps
<1>1. version' >= version
  BY DEF Typed, Tables, Next, Create, Use, vars, db, Stat, CreateFile, Migrate, Identify,
     AllIdentified, IdentifierIsTaken, Connect, ConnectFails, GetObjectInfos, Leave,
     BeginSave, InsertObject, InsertFails, Commit, Crash
<1>2. Connected(q) \/ Connect(q)
  <2>1. ASSUME NEW r \in Runs, Moves(r), r # q PROVE Connected(q)
    BY <2>1, OneRunMoves DEF Typed, Connected
  <2>2. ASSUME Moves(q) PROVE Connected(q) \/ Connect(q)
    <3> USE <2>2 DEF Typed, Connected, Goto, End
    <3>1. ~Create(q) /\ ~Crash(q) /\ \A dry \in BOOLEAN : ~Stat(q, dry)
      BY DEF Create, Stat, CreateFile, Migrate, Identify, AllIdentified, IdentifierIsTaken, Crash
    <3>2. ~ConnectFails(q) /\ ~Leave(q) /\ ~InsertFails(q) /\ ~Commit(q)
      BY DEF ConnectFails, Leave, InsertFails, Commit
    <3> QED
      BY <3>1, <3>2 DEF Moves, Use, GetObjectInfos, BeginSave, InsertObject
  <2> QED
    BY <2>1, <2>2 DEF Next, Moves, vars, Connected
<1>3. version >= 2
  BY <1>2 DEF ReadersHaveSteps, Connect
<1>4. version \in Int
  BY DEF Typed, Tables
<1>5. version' \in Int
  BY <1>4 DEF Next, Create, Use, vars, db, Stat, CreateFile, Migrate, Identify,
     AllIdentified, IdentifierIsTaken, Connect, ConnectFails, GetObjectInfos, Leave,
     BeginSave, InsertObject, InsertFails, Commit, Crash
<1> QED
  BY <1>1, <1>3, <1>4, <1>5

(* For any number of overlapping runs: as long as none of them has been    *)
(* broken off, a database without its tables is being migrated, also when  *)
(* another run reads it already (Create in history/create.go).             *)
THEOREM CreationDoesComplete == Spec => []CreationCompletes
<1>1. Init => InCreation /\ ReadersHaveSteps
  BY DEF Init, InCreation, ReadersHaveSteps, Connected
<1>2. Inv /\ InCreation /\ ReadersHaveSteps /\ [Next]_vars
        => InCreation' /\ ReadersHaveSteps'
  BY CreationStep, ReadersStep DEF Inv
<1>3. Inv /\ InCreation /\ ReadersHaveSteps => CreationCompletes
  BY DEF Inv, Typed, InCreation, ReadersHaveSteps, RowsAreSound, Connected, CreationCompletes
<1> QED
  BY <1>1, <1>2, <1>3, Invariance, PTL DEF Spec

-----------------------------------------------------------------------------
(* The refinement. *)

Views == [r \in Runs |-> View(r)]
Wishes == [r \in Runs |-> Wish(r)]

(* A run that ends without a commit leaves the log; one that had not       *)
(* connected yet does not show.                                            *)
LEMMA EndIsLeave ==
  ASSUME Inv, NEW r \in Runs, End(r), UNCHANGED disk
  PROVE  Log!Leave(r) \/ UNCHANGED Log!vars
<1>1. /\ Views' = [Views EXCEPT ![r] = Closed]
      /\ Wishes' = [Wishes EXCEPT ![r] = Closed]
  BY DEF Views, Wishes, View, Wish, Connected, StepObjects, End, Goto, Inv, Typed
<1>2. CASE Connected(r)
  <2>1. Views[r] # Closed
    BY <1>2, NothingAssumption DEF Views, View, Connected, StepObjects, Inv, Typed,
       StepsAreThere
  <2> QED
    BY <1>1, <2>1 DEF Log!Leave, Log!Close, Views, Wishes
<1>3. CASE ~Connected(r)
  <2>1. Views' = Views /\ Wishes' = Wishes
    BY <1>1, <1>3 DEF Views, Wishes, View, Wish, Connected
  <2> QED
    BY <2>1 DEF Log!vars, Views, Wishes
<1> QED
  BY <1>2, <1>3

(* Steps that neither connect, nor ask for a save, nor end a run do not    *)
(* show in the log.                                                        *)
LEMMA Hidden ==
  ASSUME Inv, NEW r \in Runs, NEW label,
         UNCHANGED <<disk, stepID, want>>,
         pc' = [pc EXCEPT ![r] = label],
         label = "save" <=> pc[r] = "save",
         label \in {"read", "work", "save"} <=> Connected(r)
  PROVE  UNCHANGED Log!vars
<1>1. Views' = Views /\ Wishes' = Wishes
  BY DEF Views, Wishes, View, Wish, Connected, StepObjects, Inv, Typed
<1> QED
  BY <1>1 DEF Log!vars, Views, Wishes

(* For any runs, objects and bounds the database implements the log of     *)
(* snapshots: each step is one of the log's, or does not show.             *)
THEOREM DatabaseImplementsLog == Spec => ImplementsLog
<1>1. Init => Log!Init
  BY DEF Init, Log!Init, View, Wish, Connected
<1>2. Inv /\ Inv' /\ [Next]_vars => [Log!Next]_(Log!vars)
  <2> SUFFICES ASSUME Inv, Inv', [Next]_vars PROVE Log!Next \/ UNCHANGED Log!vars
    OBVIOUS
  <2>1. CASE UNCHANGED vars
    BY <2>1 DEF vars, db, Log!vars, View, Wish, Connected, StepObjects
  <2>2. ASSUME NEW r \in Runs, \/ \E dry \in BOOLEAN : Stat(r, dry)
                               \/ CreateFile(r) \/ Migrate(r) \/ Identify(r)
                               \/ AllIdentified(r) \/ GetObjectInfos(r)
                               \/ \E o \in Objects : InsertObject(r, o)
        PROVE  UNCHANGED Log!vars
    <3>1. UNCHANGED <<disk, stepID, want>>
      BY <2>2 DEF Stat, CreateFile, Migrate, Identify, AllIdentified,
         GetObjectInfos, InsertObject, db
    <3>2. \E label : /\ pc' = [pc EXCEPT ![r] = label]
                     /\ label = "save" <=> pc[r] = "save"
                     /\ label \in {"read", "work", "save"} <=> Connected(r)
      BY <2>2 DEF Stat, CreateFile, Migrate, Identify, AllIdentified,
         GetObjectInfos, InsertObject, Goto, Connected, Inv, Typed
    <3> QED
      BY <3>1, <3>2, Hidden
  <2>3. ASSUME NEW r \in Runs, Connect(r) PROVE Log!Open(r)
    <3>1. Wishes' = Wishes /\ Views[r] = Closed /\ disk' = disk
      BY <2>3 DEF Connect, Views, Wishes, View, Wish, Connected, Goto, Inv, Typed, db
    <3>2. View(r)' = StepObjects(LastStep)
      BY <2>3 DEF Connect, View, Connected, StepObjects, LastStep, Goto, Inv, Typed, db
    <3>3. StepObjects(LastStep) = Log!Newest(disk)
      BY DEF StepObjects, LastStep, Log!Newest, Inv, Typed
    <3>4. \A q \in Runs \ {r} : View(q)' = View(q)
      BY <2>3 DEF Connect, View, Connected, StepObjects, Goto, Inv, Typed, db
    <3>5. Views' = [Views EXCEPT ![r] = Log!Newest(disk)]
      BY <3>2, <3>3, <3>4 DEF Views
    <3> QED
      BY <3>1, <3>5 DEF Log!Open, Views, Wishes
  <2>4. ASSUME NEW r \in Runs, NEW s \in SUBSET Objects, BeginSave(r, s)
        PROVE  Log!Ask(r, s)
    <3>1. Views[r] # Closed
      BY <2>4, NothingAssumption DEF BeginSave, Views, View, Connected, StepObjects,
         Inv, Typed, StepsAreThere
    <3>2. /\ Wishes' = [Wishes EXCEPT ![r] = s]
          /\ Wishes[r] = Closed
          /\ Views' = Views
      BY <2>4 DEF BeginSave, Views, Wishes, View, Wish, Connected, StepObjects,
         Goto, Inv, Typed
    <3> QED
      BY <2>4, <3>1, <3>2 DEF Log!Ask, Views, Wishes, BeginSave
  <2>5. ASSUME NEW r \in Runs, Commit(r) PROVE Log!Save(r)
    <3>1. Wishes[r] = want[r] /\ Wishes[r] # Closed /\ disk' = Append(disk, Wishes[r])
      BY <2>5, NothingAssumption DEF Commit, Wishes, Wish, Inv, Typed
    <3>2. Wishes' = [Wishes EXCEPT ![r] = Closed]
      BY <2>5 DEF Commit, End, Goto, Wishes, Wish, Inv, Typed
    <3>3. \A q \in Runs \ {r} : View(q)' = View(q)
      BY <2>5 DEF Commit, End, Goto, View, Connected, StepObjects, Inv, Typed,
         StepsAreThere
    <3>4. View(r)' = Closed
      BY <2>5 DEF Commit, End, Goto, View, Connected, Inv, Typed
    <3>5. Views' = [Views EXCEPT ![r] = Closed]
      BY <3>3, <3>4 DEF Views
    <3> QED
      BY <3>1, <3>2, <3>5 DEF Log!Save, Log!Close, Views, Wishes
  <2>6. ASSUME NEW r \in Runs, \/ IdentifierIsTaken(r) \/ ConnectFails(r) \/ Leave(r)
                               \/ InsertFails(r) \/ Crash(r)
        PROVE  Log!Leave(r) \/ UNCHANGED Log!vars
    BY <2>6, EndIsLeave DEF IdentifierIsTaken, ConnectFails, Leave, InsertFails,
       Crash, db
  <2> QED
    BY <2>1, <2>2, <2>3, <2>4, <2>5, <2>6 DEF Next, Create, Use, Log!Next
<1> QED
  BY <1>1, <1>2, Invariance, PTL DEF Spec, ImplementsLog, Log!Spec
=============================================================================
