------------------------ MODULE ConfigurationsProofs ------------------------
(***************************************************************************)
(* Proofs about Configurations, for any number of configurations, sources, *)
(* devices and books.  What they rest on is that the history of a          *)
(* configuration is that of its place: what lies there is what the last    *)
(* run for the place recorded, unless the user took it away.               *)
(***************************************************************************)
EXTENDS Configurations, TLAPS

(* What lies in a place is recorded in its history, in the same version.   *)
Recorded ==
  \A t \in Places, b \in Books : device[t][b] # Absent => history[t][b] = device[t][b]

(* What the history of a place has and the place has not, the user took.   *)
MissingIsTaken ==
  \A t \in Places : Keys(history[t]) \ Keys(device[t]) \subseteq taken[t]

(* What the history of a configuration has and its source has not, has     *)
(* gone from there, if the place is no other source's.                     *)
MissingIsGone ==
  \A p \in Profiles : OwnPlace(p) =>
    Keys(history[Place(p)]) \ Keys(local[p.source]) \subseteq gone[p.source]

(* The history of such a place is that of its source.                      *)
RecorderIsOwn ==
  \A p \in Profiles : OwnPlace(p) => recorder[Place(p)] \in {Nobody, p.source}

-----------------------------------------------------------------------------
LEMMA HistoriesArePlaces == Histories = Places /\ \A p : HistoryOf(p) = Place(p)
  BY DEF Histories, Places, HistoryOf, Place

(* What a run takes out of the source that recorded it, takes off its      *)
(* place and copies there, and what of its own source counts as local then.*)
Finished(p, ignore) ==
  Case7Books(ignore, Keys(local[p.source]), Keys(history[Place(p)]), Keys(device[Place(p)]))
Dropped(p, ignore) ==
  Case6Books(ignore, Keys(local[p.source]), Keys(history[Place(p)]), Keys(device[Place(p)]))
Copied(p, ignore) ==
  Case3Books(ignore, local[p.source], history[Place(p)],
             Keys(local[p.source]), Keys(device[Place(p)]))

Left(p, ignore) == Without(local[p.source], Finished(p, ignore))

(* The source whose files the run removes, and what the run records.       *)
Owner(p) == recorder[Place(p)]

Kept(p, ignore) == IF Owner(p) = p.source THEN Left(p, ignore) ELSE local[p.source]

LocalWithout(p, books) ==
  [s \in Sources |-> IF s = Owner(p) THEN Without(local[s], books) ELSE local[s]]
GoneWith(p, books) ==
  [s \in Sources |-> IF s = Owner(p) THEN gone[s] \cup books ELSE gone[s]]

(* The plan, in terms of what is where.                                    *)
LEMMA PlanOfRun ==
  ASSUME NEW p, NEW ignore \in BOOLEAN
  PROVE  LET src == Keys(local[p.source])
             hst == Keys(history[Place(p)])
             dst == Keys(device[Place(p)])
             stay == Keys(Left(p, ignore))
         IN  /\ stay = src \ Finished(p, ignore)
             /\ Finished(p, ignore) \subseteq src \cap (hst \ dst)
             /\ Dropped(p, ignore) = (dst \cap hst) \ stay
             /\ Copied(p, ignore) = (stay \ dst)
                  \cup {b \in stay \cap hst : local[p.source][b] # history[Place(p)][b]}
  <1>1. Keys(Left(p, ignore)) = Keys(local[p.source]) \ Finished(p, ignore)
    BY DEF Left, Without, Keys
  <1> QED BY <1>1 DEF Finished, Dropped, Copied, Case7Books, Case6Books, Case3Books,
                      ChangedBooks, Keys

LEMMA RunInParts ==
  ASSUME NEW p \in Profiles, NEW ignore \in BOOLEAN, RunWith(p, ignore)
  PROVE  /\ local' = LocalWithout(p, Finished(p, ignore))
         /\ device' = [device EXCEPT ![Place(p)] =
                         [b \in Books |-> CASE b \in Copied(p, ignore) -> local[p.source][b]
                                            [] b \in Dropped(p, ignore) -> Absent
                                            [] OTHER -> device[Place(p)][b]]]
         /\ Save(p, Kept(p, ignore),
                 Finished(p, ignore) \cup Dropped(p, ignore) \cup Copied(p, ignore) # {})
         /\ taken' = [taken EXCEPT ![Place(p)] = @ \ Copied(p, ignore)]
         /\ gone' = GoneWith(p, Finished(p, ignore))
         /\ edits' = edits
  BY Zenon DEF RunWith, RemoveBooks, ToRemove, LocalWithout, GoneWith, Owner, Kept,
               Finished, Dropped, Copied, Left, HistoryOf, Place

(* A run that fails has removed some of the books of case 7.               *)
LEMMA FailureInParts ==
  ASSUME NEW p \in Profiles, RunFails(p)
  PROVE  \E done \in SUBSET Finished(p, FALSE) :
           /\ local' = LocalWithout(p, done)
           /\ gone' = GoneWith(p, done)
           /\ UNCHANGED <<device, history, recorder, edits, taken>>
  BY DEF RunFails, RemoveBooks, ToRemove, LocalWithout, GoneWith, Owner, Finished,
         HistoryOf, Place

-----------------------------------------------------------------------------
LEMMA WithoutIsTyped ==
  ASSUME TypeOK, NEW p, NEW books \in SUBSET Books
  PROVE  /\ LocalWithout(p, books) \in [Sources -> Files]
         /\ GoneWith(p, books) \in [Sources -> SUBSET Books]
  BY DEF LocalWithout, GoneWith, Without, TypeOK, Files

LEMMA TypeStep == TypeOK /\ [Next]_vars => TypeOK'
  <1> SUFFICES ASSUME TypeOK, [Next]_vars PROVE TypeOK'
    OBVIOUS
  <1> USE DEF TypeOK, Files
  <1>1. ASSUME NEW s \in Sources, NEW b \in Books, NEW c \in Contents, PutLocal(s, b, c)
        PROVE  TypeOK'
    BY <1>1, EditsAssumption DEF PutLocal
  <1>2. ASSUME NEW s \in Sources, NEW b \in Books, DropLocal(s, b) PROVE TypeOK'
    BY <1>2, EditsAssumption DEF DropLocal
  <1>3. ASSUME NEW t \in Places, NEW b \in Books, DropFromDevice(t, b) PROVE TypeOK'
    BY <1>3, EditsAssumption DEF DropFromDevice
  <1>4. ASSUME NEW p \in Profiles, Run(p) PROVE TypeOK'
    <2>1. PICK ignore \in BOOLEAN : RunWith(p, ignore)
      BY <1>4 DEF Run
    <2> DEFINE dst == [b \in Books |-> CASE b \in Copied(p, ignore) -> local[p.source][b]
                                         [] b \in Dropped(p, ignore) -> Absent
                                         [] OTHER -> device[Place(p)][b]]
    <2>2. /\ local' = LocalWithout(p, Finished(p, ignore))
          /\ device' = [device EXCEPT ![Place(p)] = dst]
          /\ \/ UNCHANGED <<history, recorder>>
             \/ /\ history' = [history EXCEPT ![HistoryOf(p)] = Kept(p, ignore)]
                /\ recorder' = [recorder EXCEPT ![HistoryOf(p)] = p.source]
          /\ taken' = [taken EXCEPT ![Place(p)] = @ \ Copied(p, ignore)]
          /\ gone' = GoneWith(p, Finished(p, ignore))
          /\ edits' = edits
      BY <2>1, RunInParts DEF Save
    <2>3. p.source \in Sources /\ Place(p) \in Places /\ HistoryOf(p) \in Histories
      BY DEF Sources, Places, Histories
    <2>4. Finished(p, ignore) \subseteq Books
      BY PlanOfRun DEF Keys
    <2>10. Left(p, ignore) \in Files /\ Kept(p, ignore) \in Files
      BY <2>3 DEF Kept, Left, Without
    <2>5. dst \in Files
      BY <2>3
    <2> HIDE DEF dst
    <2>6. /\ local' \in [Sources -> Files] /\ gone' \in [Sources -> SUBSET Books]
          /\ device' \in [Places -> Files]
      BY <2>2, <2>4, <2>5, WithoutIsTyped
    <2>7. history' \in [Histories -> Files] /\ recorder' \in [Histories -> Sources \cup {Nobody}]
      BY <2>2, <2>3, <2>10
    <2>8. taken' \in [Places -> SUBSET Books]
      BY <2>2, <2>3
    <2>9. \A h \in Histories : recorder'[h] = Nobody => history'[h] = NoFiles
      BY <2>2, <2>3, NobodyAssumption
    <2> QED BY <2>2, <2>6, <2>7, <2>8, <2>9
  <1>5. ASSUME NEW p \in Profiles, RunFails(p) PROVE TypeOK'
    <2>1. PICK done \in SUBSET Finished(p, FALSE) :
            /\ local' = LocalWithout(p, done)
            /\ gone' = GoneWith(p, done)
            /\ UNCHANGED <<device, history, recorder, edits, taken>>
      BY <1>5, FailureInParts
    <2>2. done \subseteq Books
      BY PlanOfRun DEF Keys
    <2> QED BY <2>1, <2>2, WithoutIsTyped
  <1>6. ASSUME UNCHANGED vars PROVE TypeOK'
    BY <1>6 DEF vars
  <1> QED BY <1>1, <1>2, <1>3, <1>4, <1>5, <1>6 DEF Next, UserNext, RefuseToRun

LEMMA TypesStart == Init => TypeOK
  BY EditsAssumption DEF Init, TypeOK, Files, NoFiles

(* Types: for any configurations.                                          *)
THEOREM ConfigurationTypes == Spec => []TypeOK
  BY TypesStart, TypeStep, PTL DEF Spec
-----------------------------------------------------------------------------
(* After a run its place holds what still counts as local, and the history *)
(* is what has been kept, unless there was nothing to do.                  *)
LEMMA RunMirrored ==
  ASSUME TypeOK, Recorded, NEW p \in Profiles, NEW ignore \in BOOLEAN, RunWith(p, ignore)
  PROVE  /\ p.source \in Sources /\ Place(p) \in Places
         /\ local' = LocalWithout(p, Finished(p, ignore))
         /\ device' = [device EXCEPT ![Place(p)] = Left(p, ignore)]
         /\ \/ /\ history' = [history EXCEPT ![Place(p)] = Kept(p, ignore)]
               /\ recorder' = [recorder EXCEPT ![Place(p)] = p.source]
            \/ UNCHANGED <<history, recorder, device, taken>>
         /\ taken' = [taken EXCEPT ![Place(p)] = @ \ Copied(p, ignore)]
         /\ gone' = GoneWith(p, Finished(p, ignore))
  <1> DEFINE s == p.source
             t == Place(p)
             dst == [b \in Books |-> CASE b \in Copied(p, ignore) -> local[s][b]
                                       [] b \in Dropped(p, ignore) -> Absent
                                       [] OTHER -> device[t][b]]
  <1>1. s \in Sources /\ t \in Places /\ t \in Histories
    BY HistoriesArePlaces DEF Sources, Places
  <1>2. /\ local' = LocalWithout(p, Finished(p, ignore))
        /\ device' = [device EXCEPT ![t] = dst]
        /\ Save(p, Kept(p, ignore),
                Finished(p, ignore) \cup Dropped(p, ignore) \cup Copied(p, ignore) # {})
        /\ taken' = [taken EXCEPT ![t] = @ \ Copied(p, ignore)]
        /\ gone' = GoneWith(p, Finished(p, ignore))
    BY RunInParts
  <1>3. local[s] \in Files /\ device[t] \in Files /\ history[t] \in Files
    BY <1>1 DEF TypeOK
  <1>4. dst = Left(p, ignore)
    <2>1. ASSUME NEW b \in Books PROVE dst[b] = Left(p, ignore)[b]
      <3>1. b \in Keys(Left(p, ignore)) <=> Left(p, ignore)[b] # Absent
        BY DEF Keys
      <3>2. b \in Keys(Left(p, ignore)) => Left(p, ignore)[b] = local[s][b]
        BY <3>1 DEF Left, Without
      <3>3. CASE b \in Copied(p, ignore)
        BY <3>2, <3>3, PlanOfRun
      <3>4. CASE b \in Dropped(p, ignore) /\ b \notin Copied(p, ignore)
        <4>1. b \notin Keys(Left(p, ignore))
          BY <3>4, PlanOfRun
        <4> QED BY <3>1, <3>4, <4>1
      <3>5. CASE b \notin Copied(p, ignore) /\ b \notin Dropped(p, ignore)
        <4>1. dst[b] = device[t][b]
          BY <3>5
        <4>2. device[t][b] # Absent => history[t][b] = device[t][b]
          BY <1>1 DEF Recorded
        <4>3. CASE b \in Keys(Left(p, ignore))
          <5>1. b \in Keys(device[t])
            BY <3>5, <4>3, PlanOfRun
          <5>2. b \in Keys(history[t])
            BY <4>2, <5>1 DEF Keys
          <5>3. local[s][b] = history[t][b]
            BY <3>5, <4>3, <5>2, PlanOfRun
          <5> QED BY <3>2, <4>1, <4>2, <4>3, <5>1, <5>3 DEF Keys
        <4>4. CASE b \notin Keys(Left(p, ignore))
          <5>1. b \notin Keys(device[t]) \cap Keys(history[t])
            BY <3>5, <4>4, PlanOfRun
          <5>2. device[t][b] = Absent
            BY <4>2, <5>1 DEF Keys
          <5> QED BY <3>1, <4>1, <4>4, <5>2
        <4> QED BY <4>3, <4>4
      <3> QED BY <3>3, <3>4, <3>5
    <2> HIDE DEF dst
    <2>2. dst = [b \in Books |-> dst[b]]
      BY DEF dst
    <2>3. Left(p, ignore) = [b \in Books |-> Left(p, ignore)[b]]
      BY DEF Left, Without
    <2>4. [b \in Books |-> dst[b]] = [b \in Books |-> Left(p, ignore)[b]]
      BY <2>1
    <2> QED BY <2>2, <2>3, <2>4
  <1> HIDE DEF dst
  <1>5. \/ /\ history' = [history EXCEPT ![t] = Kept(p, ignore)]
           /\ recorder' = [recorder EXCEPT ![t] = s]
        \/ /\ history' = history /\ recorder' = recorder
           /\ Dropped(p, ignore) = {} /\ Copied(p, ignore) = {}
    BY <1>2, HistoriesArePlaces DEF Save
  <1>6. ASSUME Dropped(p, ignore) = {}, Copied(p, ignore) = {}
        PROVE  device' = device /\ taken' = taken
    <2>1. device[t] = [b \in Books |-> device[t][b]]
      BY <1>3 DEF Files
    <2>2. dst = device[t]
      BY <1>6, <2>1 DEF dst
    <2>3. device' = device
      BY <1>1, <1>2, <2>2 DEF TypeOK
    <2>4. taken[t] \ {} = taken[t]
      OBVIOUS
    <2>5. taken' = taken
      BY <1>1, <1>2, <1>6, <2>4 DEF TypeOK
    <2> QED BY <2>3, <2>5
  <1> QED BY <1>1, <1>2, <1>4, <1>5, <1>6
-----------------------------------------------------------------------------
PlacesInv == Recorded /\ MissingIsTaken

LEMMA PlacesStart == Init => PlacesInv
  BY HistoriesArePlaces DEF Init, PlacesInv, Recorded, MissingIsTaken, Keys, NoFiles

LEMMA PlacesRun ==
  ASSUME TypeOK, PlacesInv, NEW p \in Profiles, Run(p)
  PROVE  PlacesInv'
  <1>1. PICK ignore \in BOOLEAN : RunWith(p, ignore)
    BY DEF Run
  <1> DEFINE left == Left(p, ignore)
             kept == Kept(p, ignore)
  <1>2. /\ Place(p) \in Places /\ Histories = Places
        /\ device' = [device EXCEPT ![Place(p)] = left]
        /\ \/ history' = [history EXCEPT ![Place(p)] = kept]
           \/ history' = history /\ device' = device /\ taken' = taken
        /\ taken' = [taken EXCEPT ![Place(p)] = @ \ Copied(p, ignore)]
    BY <1>1, RunMirrored, HistoriesArePlaces DEF PlacesInv
  <1>5. \A b \in Books : left[b] # Absent => kept[b] = left[b]
    BY DEF Kept, Left, Without
  <1>6. Keys(kept) \ Keys(left) \subseteq taken[Place(p)] \ Copied(p, ignore)
    <2>1. Keys(kept) \ Keys(left) \subseteq Finished(p, ignore)
      BY PlanOfRun DEF Kept
    <2>2. Finished(p, ignore) \cap Copied(p, ignore) = {}
      BY PlanOfRun
    <2>3. Finished(p, ignore) \subseteq Keys(history[Place(p)]) \ Keys(device[Place(p)])
      BY PlanOfRun
    <2> QED BY <1>2, <2>1, <2>2, <2>3 DEF PlacesInv, MissingIsTaken
  <1> HIDE DEF left, kept
  <1>3. CASE history' = history /\ device' = device /\ taken' = taken
    BY <1>3 DEF PlacesInv, Recorded, MissingIsTaken, Keys
  <1>4. CASE history' = [history EXCEPT ![Place(p)] = kept]
    <2>1. /\ history'[Place(p)] = kept /\ device'[Place(p)] = left
          /\ taken'[Place(p)] = taken[Place(p)] \ Copied(p, ignore)
      BY <1>2, <1>4 DEF TypeOK
    <2>2. \A t \in Places : t # Place(p) =>
            history'[t] = history[t] /\ device'[t] = device[t] /\ taken'[t] = taken[t]
      BY <1>2, <1>4 DEF TypeOK
    <2>3. Recorded'
      BY <1>5, <2>1, <2>2 DEF PlacesInv, Recorded
    <2>4. ASSUME NEW t \in Places PROVE Keys(history'[t]) \ Keys(device'[t]) \subseteq taken'[t]
      BY <1>6, <2>1, <2>2 DEF PlacesInv, MissingIsTaken
    <2> QED BY <2>3, <2>4 DEF PlacesInv, MissingIsTaken, Keys
  <1> QED BY <1>2, <1>3, <1>4

LEMMA PlacesStep == TypeOK /\ PlacesInv /\ [Next]_vars => PlacesInv'
  <1> SUFFICES ASSUME TypeOK, PlacesInv, [Next]_vars PROVE PlacesInv'
    OBVIOUS
  <1>1. ASSUME UNCHANGED <<device, history, taken>> PROVE PlacesInv'
    BY <1>1 DEF PlacesInv, Recorded, MissingIsTaken, Keys
  <1>2. ASSUME NEW t \in Places, NEW b \in Books, DropFromDevice(t, b) PROVE PlacesInv'
    <2>1. /\ device' = [device EXCEPT ![t][b] = Absent]
          /\ taken' = [taken EXCEPT ![t] = @ \cup {b}]
          /\ history' = history
      BY <1>2 DEF DropFromDevice
    <2>2. \A u \in Places, c \in Books : device'[u][c] =
            IF u = t /\ c = b THEN Absent ELSE device[u][c]
      BY <2>1 DEF TypeOK, Files
    <2>3. \A u \in Places : taken'[u] = IF u = t THEN taken[u] \cup {b} ELSE taken[u]
      BY <2>1 DEF TypeOK
    <2>4. Recorded'
      BY <2>1, <2>2 DEF PlacesInv, Recorded
    <2>5. ASSUME NEW u \in Places, NEW c \in Books, history[u][c] # Absent, device'[u][c] = Absent
          PROVE  c \in taken'[u]
      <3>1. device[u][c] = Absent => c \in taken[u]
        BY <2>5 DEF PlacesInv, MissingIsTaken, Keys
      <3> QED BY <2>2, <2>3, <2>5, <3>1
    <2>6. MissingIsTaken'
      BY <2>1, <2>5 DEF MissingIsTaken, Keys
    <2> QED BY <2>4, <2>6 DEF PlacesInv
  <1> QED BY <1>1, <1>2, PlacesRun DEF Next, UserNext, RunFails, RefuseToRun, PutLocal,
                                       DropLocal, vars

LEMMA PlacesHold == Spec => [](TypeOK /\ PlacesInv)
  BY TypesStart, TypeStep, PlacesStart, PlacesStep, PTL DEF Spec

(* What a run, also one that fails, can take out of a source.              *)
LEMMA RemovedIsTaken ==
  ASSUME TypeOK, PlacesInv, NEW p \in Profiles, NEW ignore \in BOOLEAN,
         NEW books \in SUBSET Finished(p, ignore), local' = LocalWithout(p, books),
         NEW s \in Sources
  PROVE  Keys(local[s]) \ Keys(local'[s]) \subseteq taken[Place(p)]
  <1>1. Keys(local[s]) \ Keys(local'[s]) \subseteq books
    BY DEF LocalWithout, Without, Keys
  <1>2. Finished(p, ignore) \subseteq Keys(history[Place(p)]) \ Keys(device[Place(p)])
    BY PlanOfRun
  <1>3. Place(p) \in Places
    BY DEF Places
  <1> QED BY <1>1, <1>2, <1>3 DEF PlacesInv, MissingIsTaken

(* For any configurations, also ones that share places: whatever source it *)
(* takes a book from, a run does so only if the user took the book off the *)
(* place of that run.                                                      *)
THEOREM LocalLossRequested == Spec => LocalLossIsRequested
  <1>1. ASSUME TypeOK, PlacesInv, NEW p \in Profiles, Run(p) \/ RunFails(p), NEW s \in Sources
        PROVE  Keys(local[s]) \ Keys(local'[s]) \subseteq taken[Place(p)]
    <2>1. CASE Run(p)
      <3>1. PICK ignore \in BOOLEAN : RunWith(p, ignore)
        BY <2>1 DEF Run
      <3>2. local' = LocalWithout(p, Finished(p, ignore))
        BY <3>1, RunInParts
      <3> QED BY <1>1, <3>2, RemovedIsTaken
    <2>2. CASE RunFails(p)
      <3>1. PICK done \in SUBSET Finished(p, FALSE) : local' = LocalWithout(p, done)
        BY <2>2, FailureInParts
      <3> QED BY <1>1, <3>1, RemovedIsTaken
    <2> QED BY <1>1, <2>1, <2>2
  <1>2. TypeOK /\ PlacesInv => [\A p \in Profiles : Run(p) \/ RunFails(p) =>
          \A s \in Sources : Keys(local[s]) \ Keys(local'[s]) \subseteq taken[Place(p)]]_vars
    BY <1>1
  <1> QED BY <1>2, PlacesHold, PTL DEF LocalLossIsRequested

-----------------------------------------------------------------------------
(* Places that are their own source's.                                     *)
LEMMA RecorderStart == Init => RecorderIsOwn
  BY HistoriesArePlaces DEF Init, RecorderIsOwn, Places

LEMMA RecorderStep == TypeOK /\ PlacesInv /\ RecorderIsOwn /\ [Next]_vars => RecorderIsOwn'
  <1> SUFFICES ASSUME TypeOK, PlacesInv, RecorderIsOwn, [Next]_vars,
                      NEW p \in Profiles, OwnPlace(p)
               PROVE  recorder'[Place(p)] \in {Nobody, p.source}
    BY DEF RecorderIsOwn, OwnPlace, Place
  <1>1. recorder[Place(p)] \in {Nobody, p.source} /\ Place(p) \in Histories
    BY HistoriesArePlaces DEF RecorderIsOwn, Places
  <1>2. ASSUME NEW q \in Profiles, Run(q) PROVE recorder'[Place(p)] \in {Nobody, p.source}
    <2>1. PICK ignore \in BOOLEAN : RunWith(q, ignore)
      BY <1>2 DEF Run
    <2>2. recorder' = [recorder EXCEPT ![Place(q)] = q.source] \/ recorder' = recorder
      BY <2>1, RunMirrored DEF PlacesInv
    <2>3. Place(q) = Place(p) => q.source = p.source
      BY DEF OwnPlace
    <2> QED BY <1>1, <2>2, <2>3 DEF TypeOK
  <1> QED BY <1>1, <1>2 DEF Next, UserNext, RunFails, RefuseToRun, PutLocal, DropLocal,
                            DropFromDevice, vars

OwnInv == TypeOK /\ PlacesInv /\ RecorderIsOwn

LEMMA OwnHold == Spec => []OwnInv
  BY PlacesHold, RecorderStart, RecorderStep, PTL DEF Spec, OwnInv

(* A run for such a place, seen from its source.                           *)
LEMMA OwnRun ==
  ASSUME OwnInv, NEW p \in Profiles, OwnPlace(p), NEW ignore \in BOOLEAN, RunWith(p, ignore)
  PROVE  /\ local'[p.source] = Left(p, ignore)
         /\ Kept(p, ignore) = Left(p, ignore)
  <1>1. p.source \in Sources /\ Place(p) \in Histories
    BY HistoriesArePlaces DEF Sources, Places
  <1>2. local' = LocalWithout(p, Finished(p, ignore))
    BY RunInParts
  <1>3. CASE Owner(p) = p.source
    BY <1>1, <1>2, <1>3 DEF LocalWithout, Left, Kept
  <1>4. CASE Owner(p) = Nobody
    <2>1. history[Place(p)] = NoFiles
      BY <1>1, <1>4 DEF OwnInv, TypeOK, Owner
    <2>2. Keys(history[Place(p)]) = {}
      BY <2>1 DEF Keys, NoFiles
    <2>3. Finished(p, ignore) = {}
      BY <2>2, PlanOfRun
    <2>4. local[p.source] = [b \in Books |-> local[p.source][b]]
      BY <1>1 DEF OwnInv, TypeOK, Files
    <2>5. Left(p, ignore) = local[p.source]
      BY <2>3, <2>4 DEF Left, Without
    <2>6. local'[p.source] = local[p.source]
      BY <1>1, <1>2, <1>4, NobodyAssumption DEF LocalWithout
    <2> QED BY <1>1, <1>4, <2>5, <2>6, NobodyAssumption DEF Kept
  <1> QED BY <1>3, <1>4 DEF OwnInv, RecorderIsOwn, Owner

(* For any configurations, whatever others share: a run for a place that   *)
(* is no other source's leaves its source and its place with the same      *)
(* books in the same versions.                                             *)
THEOREM RunsDoMirror == Spec => RunsMirror
  <1>1. ASSUME OwnInv, NEW p \in Profiles, OwnPlace(p), Run(p)
        PROVE  device'[Place(p)] = local'[p.source]
    <2>1. PICK ignore \in BOOLEAN : RunWith(p, ignore)
      BY <1>1 DEF Run
    <2>2. device' = [device EXCEPT ![Place(p)] = Left(p, ignore)] /\ Place(p) \in Places
      BY <1>1, <2>1, RunMirrored DEF OwnInv, PlacesInv
    <2>3. local'[p.source] = Left(p, ignore)
      BY <1>1, <2>1, OwnRun
    <2> QED BY <1>1, <2>2, <2>3 DEF OwnInv, TypeOK
  <1>2. OwnInv => [\A p \in Profiles :
          OwnPlace(p) /\ Run(p) => device'[Place(p)] = local'[p.source]]_vars
    BY <1>1
  <1> QED BY <1>2, OwnHold, PTL DEF RunsMirror

-----------------------------------------------------------------------------
LEMMA GoneStart == Init => MissingIsGone
  <1> SUFFICES ASSUME Init, NEW p \in Profiles, NEW b \in Books
               PROVE  history[Place(p)][b] = Absent
    BY DEF MissingIsGone, Keys
  <1>1. Place(p) \in Histories
    BY HistoriesArePlaces DEF Places
  <1> QED BY <1>1 DEF Init, NoFiles

(* Removals add to both sides.                                             *)
LEMMA GoneRemove ==
  ASSUME TypeOK, NEW p, NEW books \in SUBSET Books, NEW s \in Sources,
         local' = LocalWithout(p, books), gone' = GoneWith(p, books)
  PROVE  Keys(local[s]) \ Keys(local'[s]) \subseteq gone'[s] /\ gone[s] \subseteq gone'[s]
  BY DEF LocalWithout, GoneWith, Without, Keys

LEMMA GoneRun ==
  ASSUME OwnInv, MissingIsGone, NEW q \in Profiles, Run(q)
  PROVE  MissingIsGone'
  <1>1. PICK ignore \in BOOLEAN : RunWith(q, ignore)
    BY DEF Run
  <1>2. /\ Place(q) \in Places /\ Histories = Places
        /\ local' = LocalWithout(q, Finished(q, ignore))
        /\ gone' = GoneWith(q, Finished(q, ignore))
        /\ \/ history' = [history EXCEPT ![Place(q)] = Kept(q, ignore)]
           \/ history' = history
    BY <1>1, RunMirrored, HistoriesArePlaces DEF OwnInv, PlacesInv
  <1>3. Finished(q, ignore) \in SUBSET Books
    BY PlanOfRun DEF Keys
  <1>4. ASSUME NEW p \in Profiles, OwnPlace(p)
        PROVE  Keys(history'[Place(p)]) \ Keys(local'[p.source]) \subseteq gone'[p.source]
    <2>1. p.source \in Sources /\ Place(p) \in Places
      BY DEF Sources, Places
    <2>2. Keys(history[Place(p)]) \ Keys(local[p.source]) \subseteq gone[p.source]
      BY <1>4 DEF MissingIsGone
    <2>3. CASE history'[Place(p)] = history[Place(p)]
      <3>1. /\ Keys(local[p.source]) \ Keys(local'[p.source]) \subseteq gone'[p.source]
            /\ gone[p.source] \subseteq gone'[p.source]
        BY <1>2, <1>3, <2>1, GoneRemove DEF OwnInv
      <3> QED BY <2>2, <2>3, <3>1
    <2>4. CASE history'[Place(p)] # history[Place(p)]
      <3>1. Place(q) = Place(p) /\ history'[Place(p)] = Kept(q, ignore)
        BY <1>2, <2>1, <2>4 DEF OwnInv, TypeOK
      <3>2. q.source = p.source /\ OwnPlace(q)
        BY <1>4, <3>1 DEF OwnPlace
      <3>3. local'[p.source] = Kept(q, ignore)
        BY <1>1, <3>2, OwnRun
      <3> QED BY <3>1, <3>3
    <2> QED BY <2>3, <2>4
  <1> QED BY <1>4 DEF MissingIsGone, Keys, OwnPlace, Place

LEMMA GoneStep ==
  OwnInv /\ MissingIsGone /\ [Next]_vars => MissingIsGone'
  <1> SUFFICES ASSUME OwnInv, MissingIsGone, [Next]_vars
               PROVE  MissingIsGone'
    OBVIOUS
  <1>1. ASSUME UNCHANGED <<local, history, gone>> PROVE MissingIsGone'
    BY <1>1 DEF MissingIsGone, Keys, OwnPlace, Place
  <1>2. ASSUME NEW s \in Sources, NEW b \in Books, NEW c \in Contents, PutLocal(s, b, c)
        PROVE  MissingIsGone'
    <2>1. /\ \A u \in Sources, d \in Books : local'[u][d] =
               IF u = s /\ d = b THEN c ELSE local[u][d]
          /\ \A u \in Sources : gone'[u] = IF u = s THEN gone[u] \ {b} ELSE gone[u]
          /\ history' = history
      BY <1>2 DEF PutLocal, OwnInv, TypeOK, Files
    <2>2. ASSUME NEW q \in Profiles, OwnPlace(q), NEW d \in Books,
                 history[Place(q)][d] # Absent, local'[q.source][d] = Absent
          PROVE  d \in gone'[q.source]
      <3>1. q.source \in Sources
        BY DEF Sources
      <3>2. local[q.source][d] = Absent => d \in gone[q.source]
        BY <2>2 DEF MissingIsGone, Keys
      <3> QED BY <2>1, <2>2, <3>1, <3>2, ContentsAssumption
    <2> QED BY <2>1, <2>2 DEF MissingIsGone, Keys, OwnPlace, Place
  <1>3. ASSUME NEW s \in Sources, NEW b \in Books, DropLocal(s, b) PROVE MissingIsGone'
    <2>1. /\ \A u \in Sources, d \in Books : local'[u][d] =
               IF u = s /\ d = b THEN Absent ELSE local[u][d]
          /\ \A u \in Sources : gone'[u] = IF u = s THEN gone[u] \cup {b} ELSE gone[u]
          /\ history' = history
      BY <1>3 DEF DropLocal, OwnInv, TypeOK, Files
    <2>2. ASSUME NEW q \in Profiles, OwnPlace(q), NEW d \in Books,
                 history[Place(q)][d] # Absent, local'[q.source][d] = Absent
          PROVE  d \in gone'[q.source]
      <3>1. q.source \in Sources
        BY DEF Sources
      <3>2. local[q.source][d] = Absent => d \in gone[q.source]
        BY <2>2 DEF MissingIsGone, Keys
      <3> QED BY <2>1, <2>2, <3>1, <3>2
    <2> QED BY <2>1, <2>2 DEF MissingIsGone, Keys, OwnPlace, Place
  <1>4. ASSUME NEW q \in Profiles, RunFails(q) PROVE MissingIsGone'
    <2>1. PICK done \in SUBSET Finished(q, FALSE) :
            local' = LocalWithout(q, done) /\ gone' = GoneWith(q, done) /\ history' = history
      BY <1>4, FailureInParts
    <2>2. done \in SUBSET Books
      BY PlanOfRun DEF Keys
    <2>3. ASSUME NEW p \in Profiles, OwnPlace(p)
          PROVE  Keys(history'[Place(p)]) \ Keys(local'[p.source]) \subseteq gone'[p.source]
      <3>1. Keys(history[Place(p)]) \ Keys(local[p.source]) \subseteq gone[p.source]
        BY <2>3 DEF MissingIsGone
      <3>2. /\ Keys(local[p.source]) \ Keys(local'[p.source]) \subseteq gone'[p.source]
            /\ gone[p.source] \subseteq gone'[p.source]
        BY <2>1, <2>2, GoneRemove DEF OwnInv, Sources
      <3> QED BY <2>1, <3>1, <3>2
    <2> QED BY <2>3 DEF MissingIsGone, Keys, OwnPlace, Place
  <1> QED BY <1>1, <1>2, <1>3, <1>4, GoneRun DEF Next, UserNext, RefuseToRun, DropFromDevice, vars

(* What the two sources of MCConfigurations_shared lack: a run for a place *)
(* that is no other source's takes a book off the device only if it has    *)
(* gone from the source of that configuration, whatever others share.      *)
THEOREM DeviceLossRequested == Spec => OwnDeviceLossIsRequested
  <1>1. Spec => [](OwnInv /\ MissingIsGone)
    BY OwnHold, GoneStart, GoneStep, PTL DEF Spec
  <1>2. ASSUME OwnInv, MissingIsGone, NEW p \in Profiles, OwnPlace(p), Run(p)
        PROVE  DeviceLoss(p) \subseteq gone[p.source]
    <2>1. PICK ignore \in BOOLEAN : RunWith(p, ignore)
      BY <1>2 DEF Run
    <2>2. device'[Place(p)] = Left(p, ignore) /\ Place(p) \in Places
      BY <1>2, <2>1, RunMirrored DEF OwnInv, PlacesInv, TypeOK
    <2>3. Keys(device[Place(p)]) \subseteq Keys(history[Place(p)])
      BY <1>2, <2>2 DEF OwnInv, PlacesInv, Recorded, Keys
    <2>4. Keys(device[Place(p)]) \ Keys(Left(p, ignore))
            \subseteq Keys(history[Place(p)]) \ Keys(local[p.source])
      BY <2>3, PlanOfRun
    <2> QED BY <1>2, <2>2, <2>4 DEF MissingIsGone, DeviceLoss
  <1>3. OwnInv /\ MissingIsGone => [\A p \in Profiles :
          OwnPlace(p) /\ Run(p) => DeviceLoss(p) \subseteq gone[p.source]]_vars
    BY <1>2
  <1> QED BY <1>1, <1>3, PTL DEF OwnDeviceLossIsRequested
=============================================================================
