-------------------------- MODULE MtpDeviceProofs --------------------------
(***************************************************************************)
(* Proofs about MtpDevice.                                                 *)
(***************************************************************************)
EXTENDS MtpDevice, SequenceTheorems, TLAPS

(* The theorems about PathPlan, for the tree that the device shows. *)
PP == INSTANCE PathPlanProofs WITH device <- DeviceTree, Mounted <- FALSE

(***************************************************************************)
(* Paths and PP are the same module, but the provers do not know that.     *)
(***************************************************************************)
(* The objects under a path. *)
LEMMA SameFind ==
  ASSUME NEW ois, NEW p
  PROVE  Paths!Find(ois, p) = PP!Find(ois, p)
  BY Zenon
  DEF Paths!Find, PP!Find

(* The directory above a path. *)
LEMMA SameParent ==
  ASSUME NEW p
  PROVE  Paths!Parent(p) = PP!Parent(p)
  BY Zenon
  DEF Paths!Parent, PP!Parent

(* The name at the end of a path. *)
LEMMA SameName ==
  ASSUME NEW p
  PROVE  Paths!Name(p) = PP!Name(p)
  BY Zenon
  DEF Paths!Name, PP!Name

(* The comparison of paths as strings. *)
LEMMA SameHasPrefix ==
  ASSUME NEW p, NEW dir
  PROVE  Paths!HasPrefix(p, dir) = PP!HasPrefix(p, dir)
  BY Zenon
  DEF Paths!HasPrefix, PP!HasPrefix, Paths!Name, PP!Name, Paths!Parent, PP!Parent

(* A file under a path. *)
LEMMA SameFile ==
  ASSUME NEW p
  PROVE  Paths!File(p) = PP!File(p)
  BY Zenon
  DEF Paths!File, PP!File

(* A path under another root. *)
LEMMA SameReroot ==
  ASSUME NEW p, NEW from, NEW to
  PROVE  Paths!Reroot(p, from, to) = PP!Reroot(p, from, to)
  BY Zenon
  DEF Paths!Reroot, PP!Reroot

(* The objects of a scan. *)
LEMMA SameScan ==
  ASSUME NEW disk
  PROVE  Paths!Scan(disk) = PP!Scan(disk)
  BY Zenon
  DEF Paths!Scan, PP!Scan

(* The places of a page index. *)
LEMMA SameIndexPaths ==
  ASSUME NEW p
  PROVE  Paths!IndexPaths(p) = PP!IndexPaths(p)
  BY Zenon
  DEF Paths!IndexPaths, PP!IndexPaths, Paths!Name, PP!Name, Paths!Parent, PP!Parent

(* An action that removes an object of the device. *)
LEMMA SameRemoveFromDevice ==
  ASSUME NEW pl, NEW o
  PROVE  Paths!RemoveFromDevice(pl, o) = PP!RemoveFromDevice(pl, o)
  BY Zenon
  DEF Paths!RemoveFromDevice, PP!RemoveFromDevice, Paths!Act, PP!Act, Paths!Delete, PP!Delete

(* An action that makes an object there. *)
LEMMA SameMake ==
  ASSUME NEW pl, NEW op, NEW p, NEW isDir, NEW from
  PROVE  Paths!Make(pl, op, p, isDir, from) = PP!Make(pl, op, p, isDir, from)
  BY Zenon
  DEF Paths!Make, PP!Make, Paths!Act, PP!Act, Paths!Add, PP!Add

(* The actions that remove empty directories. *)
LEMMA SameMakeRemoveDirActions ==
  ASSUME NEW pl, NEW dir
  PROVE  Paths!MakeRemoveDirActions(pl, dir) = PP!MakeRemoveDirActions(pl, dir)
  BY Zenon
  DEF Paths!MakeRemoveDirActions, PP!MakeRemoveDirActions, Paths!Find, PP!Find,
      Paths!SubsetByPath, PP!SubsetByPath, Paths!HasPrefix, PP!HasPrefix, Paths!Parent, PP!Parent,
      Paths!Name, PP!Name

(* The actions that remove a local file. *)
LEMMA SameMakeRemoveActions ==
  ASSUME NEW pl, NEW o
  PROVE  Paths!MakeRemoveActions(pl, o) = PP!MakeRemoveActions(pl, o)
  BY SameMakeRemoveDirActions, Zenon
  DEF Paths!MakeRemoveActions, PP!MakeRemoveActions, Paths!Act, PP!Act, Paths!Delete, PP!Delete,
      Paths!Parent, PP!Parent

(* The actions that make directories. *)
LEMMA SameMakeCreateDirActions ==
  ASSUME NEW pl, NEW p
  PROVE  Paths!MakeCreateDirActions(pl, p) = PP!MakeCreateDirActions(pl, p)
  BY Zenon
  DEF Paths!MakeCreateDirActions, PP!MakeCreateDirActions, Paths!Find, PP!Find

(* The actions that copy a file. *)
LEMMA SameMakeCopyActions ==
  ASSUME NEW pl, NEW p
  PROVE  Paths!MakeCopyActions(pl, p) = PP!MakeCopyActions(pl, p)
  <1> DEFINE to   == PP!Reroot(p, Source, Target)
             dirs == PP!MakeCreateDirActions(pl, PP!Parent(to))
             prev == {o \in PP!Find(dirs.dst, to) : ~o.dir}
             free == IF prev = {} THEN dirs
                     ELSE PP!RemoveFromDevice(dirs, CHOOSE o \in prev : TRUE)
  <1>1. PP!MakeCopyActions(pl, p) = PP!Make(free, "Copy", to, FALSE, p)
    BY Zenon DEF PP!MakeCopyActions
  <1>2. Paths!Reroot(p, Source, Target) = to BY SameReroot, Zenon
  <1> HIDE DEF to
  <1>3. Paths!MakeCreateDirActions(pl, Paths!Parent(to)) = dirs
    <2>1. Paths!Parent(to) = PP!Parent(to) BY SameParent, Zenon
    <2> QED BY <2>1, SameMakeCreateDirActions, Zenon
  <1> HIDE DEF dirs
  <1>4. {o \in Paths!Find(dirs.dst, to) : ~o.dir} = prev
    <2>1. Paths!Find(dirs.dst, to) = PP!Find(dirs.dst, to) BY SameFind, Zenon
    <2> QED BY <2>1, Zenon
  <1> HIDE DEF prev
  <1>5. (IF prev = {} THEN dirs ELSE Paths!RemoveFromDevice(dirs, CHOOSE o \in prev : TRUE))
          = free
    <2>1. Paths!RemoveFromDevice(dirs, CHOOSE o \in prev : TRUE) =
            PP!RemoveFromDevice(dirs, CHOOSE o \in prev : TRUE)
      BY SameRemoveFromDevice, Zenon
    <2> QED BY <2>1, Zenon
  <1> HIDE DEF free
  <1>6. Paths!MakeCopyActions(pl, p) = Paths!Make(free, "Copy", to, FALSE, p)
    BY <1>2, <1>3, <1>4, <1>5, Zenon DEF Paths!MakeCopyActions
  <1>7. Paths!Make(free, "Copy", to, FALSE, p) = PP!Make(free, "Copy", to, FALSE, p)
    BY SameMake, Zenon
  <1> QED BY <1>1, <1>6, <1>7, Zenon

(* The actions that remove a local page index. *)
LEMMA SameRemoveLocalIndex ==
  ASSUME NEW pl, NEW p
  PROVE  Paths!RemoveLocalIndex(pl, p) = PP!RemoveLocalIndex(pl, p)
  <1> DEFINE o == CHOOSE x \in PP!Find(pl.src, p) : TRUE
  <1>1. Paths!Find(pl.src, p) = PP!Find(pl.src, p) BY SameFind, Zenon
  <1>2. Paths!MakeRemoveActions(pl, o) = PP!MakeRemoveActions(pl, o)
    BY SameMakeRemoveActions, Zenon
  <1> QED BY <1>1, <1>2, Zenon DEF Paths!RemoveLocalIndex, PP!RemoveLocalIndex

(* The actions that remove one of the device. *)
LEMMA SameRemoveDeviceIndex ==
  ASSUME NEW pl, NEW p
  PROVE  Paths!RemoveDeviceIndex(pl, p) = PP!RemoveDeviceIndex(pl, p)
  <1> DEFINE o == CHOOSE x \in PP!Find(pl.dst, p) : TRUE
  <1>1. Paths!Find(pl.dst, p) = PP!Find(pl.dst, p) BY SameFind, Zenon
  <1>2. Paths!RemoveFromDevice(pl, o) = PP!RemoveFromDevice(pl, o)
    BY SameRemoveFromDevice, Zenon
  <1> QED BY <1>1, <1>2, Zenon DEF Paths!RemoveDeviceIndex, PP!RemoveDeviceIndex

(* The actions that copy one. *)
LEMMA SameCopyIndex ==
  ASSUME NEW pl, NEW p
  PROVE  Paths!CopyIndex(pl, p) = PP!CopyIndex(pl, p)
  BY SameMakeCopyActions, SameFind, Zenon
  DEF Paths!CopyIndex, PP!CopyIndex

(* The actions that remove a thumbnail. *)
LEMMA SameRemoveThumb ==
  ASSUME NEW pl, NEW b
  PROVE  Paths!RemoveThumb(pl, b) = PP!RemoveThumb(pl, b)
  BY Zenon
  DEF Paths!RemoveThumb, PP!RemoveThumb, Paths!RemoveFromDevice, PP!RemoveFromDevice,
      Paths!ThumbEntries, PP!ThumbEntries, Paths!Act, PP!Act, Paths!Delete, PP!Delete, Paths!Name,
      PP!Name

(* The actions that copy one. *)
LEMMA SameCopyThumb ==
  ASSUME NEW pl, NEW b
  PROVE  Paths!CopyThumb(pl, b) = PP!CopyThumb(pl, b)
  BY Zenon
  DEF Paths!CopyThumb, PP!CopyThumb, Paths!Find, PP!Find, Paths!Make, PP!Make, Paths!Name,
      PP!Name, Paths!RemoveFromDevice, PP!RemoveFromDevice, Paths!ThumbEntries, PP!ThumbEntries,
      Paths!Act, PP!Act, Paths!Add, PP!Add, Paths!Delete, PP!Delete

(* What planning a book leaves as it is. *)
LEMMA SamePlanBook ==
  ASSUME NEW b, NEW result
  PROVE  Paths!PlanBook(b, result) <=> PP!PlanBook(b, result)
  BY Zenon DEF Paths!PlanBook, PP!PlanBook, Paths!PlanKeeps, PP!PlanKeeps

(* Planning a book of Case 7. *)
LEMMA SamePlanCase7 ==
  ASSUME NEW b
  PROVE  Paths!PlanCase7(b) <=> PP!PlanCase7(b)
  <1> DEFINE p    == Source \o b
             idx  == PP!IndexPaths(p)
             one  == PP!MakeRemoveActions(plan, [path |-> p, dir |-> FALSE, id |-> 0])
             half == PP!RemoveLocalIndex(one, idx[1])
             two  == PP!RemoveLocalIndex(half, idx[2])
  <1>1. PP!PlanCase7(b) <=> phase = "case7" /\ PP!PlanBook(b, PP!RemoveThumb(two, b))
    BY Zenon DEF PP!PlanCase7
  <1>2. Paths!MakeRemoveActions(plan, [path |-> p, dir |-> FALSE, id |-> 0]) = one
    BY SameMakeRemoveActions, Zenon
  <1>3. Paths!IndexPaths(p) = idx BY SameIndexPaths, Zenon
  <1>4. Paths!RemoveLocalIndex(one, idx[1]) = half BY SameRemoveLocalIndex, Zenon
  <1>5. Paths!RemoveLocalIndex(half, idx[2]) = two BY SameRemoveLocalIndex, Zenon
  <1>6. Paths!RemoveThumb(two, b) = PP!RemoveThumb(two, b) BY SameRemoveThumb, Zenon
  <1> HIDE DEF one, idx, half, two
  <1>7. Paths!RemoveLocalIndex(Paths!RemoveLocalIndex(one, idx[1]), idx[2]) = two
    BY <1>4, <1>5, Zenon
  <1>8. Paths!PlanCase7(b) <=> phase = "case7" /\ Paths!PlanBook(b, PP!RemoveThumb(two, b))
    BY <1>2, <1>3, <1>6, <1>7, Zenon DEF Paths!PlanCase7
  <1> QED BY <1>1, <1>8, SamePlanBook, Zenon

(* Planning a book of Case 6. *)
LEMMA SamePlanCase6 ==
  ASSUME NEW b
  PROVE  Paths!PlanCase6(b) <=> PP!PlanCase6(b)
  <1> DEFINE p    == Target \o b
             idx  == PP!IndexPaths(p)
             one  == PP!RemoveFromDevice(plan, CHOOSE o \in PP!Find(plan.dst, p) : TRUE)
             half == PP!RemoveDeviceIndex(one, idx[1])
             two  == PP!RemoveDeviceIndex(half, idx[2])
  <1>1. PP!PlanCase6(b) <=> phase = "case6" /\ PP!PlanBook(b, PP!RemoveThumb(two, b))
    BY Zenon DEF PP!PlanCase6
  <1>2. Paths!RemoveFromDevice(plan, CHOOSE o \in Paths!Find(plan.dst, p) : TRUE) = one
    BY SameRemoveFromDevice, SameFind, Zenon
  <1>3. Paths!IndexPaths(p) = idx BY SameIndexPaths, Zenon
  <1>4. Paths!RemoveDeviceIndex(one, idx[1]) = half BY SameRemoveDeviceIndex, Zenon
  <1>5. Paths!RemoveDeviceIndex(half, idx[2]) = two BY SameRemoveDeviceIndex, Zenon
  <1>6. Paths!RemoveThumb(two, b) = PP!RemoveThumb(two, b) BY SameRemoveThumb, Zenon
  <1> HIDE DEF one, idx, half, two
  <1>7. Paths!RemoveDeviceIndex(Paths!RemoveDeviceIndex(one, idx[1]), idx[2]) = two
    BY <1>4, <1>5, Zenon
  <1>8. Paths!PlanCase6(b) <=> phase = "case6" /\ Paths!PlanBook(b, PP!RemoveThumb(two, b))
    BY <1>2, <1>3, <1>6, <1>7, Zenon DEF Paths!PlanCase6
  <1> QED BY <1>1, <1>8, SamePlanBook, Zenon

(* Planning a book of Case 3. *)
LEMMA SamePlanCase3 ==
  ASSUME NEW b
  PROVE  Paths!PlanCase3(b) <=> PP!PlanCase3(b)
  <1> DEFINE p    == Source \o b
             idx  == PP!IndexPaths(p)
             one  == PP!MakeCopyActions(plan, p)
             half == PP!CopyIndex(one, idx[1])
             two  == PP!CopyIndex(half, idx[2])
  <1>1. PP!PlanCase3(b) <=> phase = "case3" /\ PP!PlanBook(b, PP!CopyThumb(two, b))
    BY Zenon DEF PP!PlanCase3
  <1>2. Paths!MakeCopyActions(plan, p) = one
    BY SameMakeCopyActions, Zenon
  <1>3. Paths!IndexPaths(p) = idx BY SameIndexPaths, Zenon
  <1>4. Paths!CopyIndex(one, idx[1]) = half BY SameCopyIndex, Zenon
  <1>5. Paths!CopyIndex(half, idx[2]) = two BY SameCopyIndex, Zenon
  <1>6. Paths!CopyThumb(two, b) = PP!CopyThumb(two, b) BY SameCopyThumb, Zenon
  <1> HIDE DEF one, idx, half, two
  <1>7. Paths!CopyIndex(Paths!CopyIndex(one, idx[1]), idx[2]) = two
    BY <1>4, <1>5, Zenon
  <1>8. Paths!PlanCase3(b) <=> phase = "case3" /\ Paths!PlanBook(b, PP!CopyThumb(two, b))
    BY <1>2, <1>3, <1>6, <1>7, Zenon DEF Paths!PlanCase3
  <1> QED BY <1>1, <1>8, SamePlanBook, Zenon

(* The end of Case 7. *)
LEMMA SameEndCase7 ==
  Paths!EndCase7 <=> PP!EndCase7
  BY Zenon
  DEF Paths!EndCase7, PP!EndCase7, Paths!Case6, PP!Case6, Paths!Case7, PP!Case7,
      Paths!PlanKeeps, PP!PlanKeeps

(* The end of Case 6. *)
LEMMA SameEndCase6 ==
  Paths!EndCase6 <=> PP!EndCase6
  BY Zenon
  DEF Paths!EndCase6, PP!EndCase6, Paths!Case3, PP!Case3, Paths!Case6, PP!Case6,
      Paths!PlanKeeps, PP!PlanKeeps

(* The end of the planning. *)
LEMMA SameEndCase3 ==
  Paths!EndCase3 <=> PP!EndCase3
  BY Zenon
  DEF Paths!EndCase3, PP!EndCase3, Paths!PlanKeeps, PP!PlanKeeps

(* Carrying an action out. *)
LEMMA SameRunAction ==
  Paths!RunAction <=> PP!RunAction
  BY Zenon
  DEF Paths!RunAction, PP!RunAction, Paths!CarryOut, PP!CarryOut, Paths!Works, PP!Works,
      Paths!Effect, PP!Effect, Paths!StillGood, PP!StillGood, Paths!Succeeds, PP!Succeeds,
      Paths!Used, PP!Used, Paths!Dir, PP!Dir, Paths!File, PP!File, Paths!HasParent, PP!HasParent,
      Paths!IsUnder, PP!IsUnder, Paths!Parent, PP!Parent

(* The end of the run. *)
LEMMA SameFinish ==
  Paths!Finish <=> PP!Finish
  BY Zenon
  DEF Paths!Finish, PP!Finish

(* So every step is the same. *)
LEMMA SameNext == Paths!Next <=> PP!Next
  <1>1. (\E b \in BookPaths : Paths!PlanCase7(b) \/ Paths!PlanCase6(b) \/ Paths!PlanCase3(b)) <=>
        (\E b \in BookPaths : PP!PlanCase7(b) \/ PP!PlanCase6(b) \/ PP!PlanCase3(b))
    BY SamePlanCase7, SamePlanCase6, SamePlanCase3, Zenon
  <1> QED BY <1>1, SameEndCase7, SameEndCase6, SameEndCase3, SameRunAction, SameFinish, Zenon
          DEF Paths!Next, PP!Next

(* What a run may begin with. *)
LEMMA SameMixes ==
  Paths!Mixes = PP!Mixes
  BY Zenon
  DEF Paths!Mixes, PP!Mixes, Paths!Name, PP!Name

(* The source that it finds. *)
LEMMA SameLocalTree ==
  ASSUME NEW m
  PROVE  Paths!LocalTree(m) = PP!LocalTree(m)
  BY Zenon
  DEF Paths!LocalTree, PP!LocalTree, Paths!Tree, PP!Tree, Paths!Dir, PP!Dir, Paths!File, PP!File

(* The device that it finds. *)
LEMMA SameDeviceTree ==
  ASSUME NEW m
  PROVE  Paths!DeviceTree(m) = PP!DeviceTree(m)
  BY Zenon
  DEF Paths!DeviceTree, PP!DeviceTree, Paths!Dir, PP!Dir, Paths!Tree, PP!Tree, Paths!File,
      PP!File

(* The sets that it plans with. *)
LEMMA SameBegin ==
  ASSUME NEW src, NEW dst
  PROVE  Paths!Begin(src, dst) <=> PP!Begin(src, dst)
  BY Zenon
  DEF Paths!Begin, PP!Begin, Paths!BooksUnder, PP!BooksUnder, Paths!Case7, PP!Case7, Paths!Find,
      PP!Find, Paths!ThumbsAmong, PP!ThumbsAmong, Paths!SubsetByPath, PP!SubsetByPath, Paths!Name,
      PP!Name, Paths!Parent, PP!Parent, Paths!HasPrefix, PP!HasPrefix

(* So every first state is the same. *)
LEMMA SameInit ==
  Paths!Init <=> PP!Init
  BY SameMixes, SameLocalTree, SameDeviceTree, SameBegin, SameScan, Zenon
  DEF Paths!Init, PP!Init

(* What MtpDevice assumes of its paths is what PathPlan assumes.           *)
LEMMA PathsAreFit == PP!PathsFit /\ PP!NamesFit
  BY PathsAssumption, Zenon
  DEF Paths!PathsFit, PP!PathsFit, Paths!NamesFit, PP!NamesFit, Paths!Parent, PP!Parent,
      Paths!Name, PP!Name, Paths!IsUnder, PP!IsUnder, Paths!IndexPaths, PP!IndexPaths,
      Paths!Path, PP!Path, Paths!Files, PP!Files

(***************************************************************************)
(* The ways from the root.                                                 *)
(***************************************************************************)
AllIds == PP!Path \cup FreshIds

Things == [oid : AllIds, parent : AllIds, name : STRING, dir : BOOLEAN]

Ids(objects) == {Root} \cup {o.oid : o \in objects}

(* The objects hang from the root, on these ways. *)
Rooted(objects, w) ==
  /\ objects \subseteq Things
  /\ w \in [Ids(objects) -> Seq(Things)]
  /\ w[Root] = << >>
  /\ \A o \in objects : /\ o.oid # Root /\ o.parent \in Ids(objects)
                        /\ w[o.oid] = Append(w[o.parent], o)
  /\ \A o, x \in objects : o.oid = x.oid => o = x

(* The recursion defines them: there is no other way from the root to an   *)
(* object.                                                                 *)
LEMMA WaysAre ==
  ASSUME NEW objects, NEW w, Rooted(objects, w)
  PROVE  Ways(objects) = w
  <1> DEFINE D == Ids(objects)
             at(id) == CHOOSE x \in objects : x.oid = id
             F(v) == [id \in D |-> IF id = Root THEN << >>
                                   ELSE Append(v[at(id).parent], at(id))]
             v == Ways(objects)
  <1>1. \A o \in objects : at(o.oid) = o BY DEF Rooted
  <1>2. \A id \in D : id # Root => at(id) \in objects /\ at(id).oid = id
    <2> SUFFICES ASSUME NEW id \in D, id # Root PROVE at(id) \in objects /\ at(id).oid = id
      OBVIOUS
    <2>1. PICK o \in objects : id = o.oid BY DEF Ids
    <2>2. at(id) = o BY <1>1, <2>1
    <2> QED BY <2>1, <2>2
  <1>3. \A id \in D : F(w)[id] = w[id]
    <2> SUFFICES ASSUME NEW id \in D PROVE F(w)[id] = w[id] OBVIOUS
    <2>1. CASE id = Root BY <2>1 DEF Rooted
    <2>2. CASE id # Root
      <3>1. at(id) \in objects /\ at(id).oid = id BY <1>2, <2>2
      <3>2. w[at(id).oid] = Append(w[at(id).parent], at(id)) BY <3>1 DEF Rooted
      <3> QED BY <2>2, <3>1, <3>2
    <2> QED BY <2>1, <2>2
  <1>4. w = F(w)
    <2>1. w = [id \in D |-> w[id]] BY DEF Rooted
    <2> QED BY <1>3, <2>1
  <1>5. v = CHOOSE u : u = F(u) BY Zenon DEF Ways, Ids
  <1>6. v = F(v)
    <2> HIDE DEF F
    <2> QED BY <1>4, <1>5, Zenon
  <1> HIDE DEF v
  <1>7. \A id \in D : v[id] = IF id = Root THEN << >> ELSE Append(v[at(id).parent], at(id))
    <2>1. \A id \in D : F(v)[id] = IF id = Root THEN << >>
                                   ELSE Append(v[at(id).parent], at(id))
      OBVIOUS
    <2> QED BY <1>6, <2>1
  <1>8. v = [id \in D |-> v[id]] BY <1>6
  <1> HIDE DEF F
  <1> DEFINE odd == {id \in D : v[id] # w[id]}
             lens == {Len(w[id]) : id \in odd}
  <1>9. odd = {}
    <2> SUFFICES ASSUME odd # {} PROVE FALSE OBVIOUS
    <2>1. \A id \in D : w[id] \in Seq(Things) BY DEF Rooted
    <2>2. \A id \in D : Len(w[id]) \in Nat BY <2>1, LenProperties
    <2>3. lens \in SUBSET Nat /\ lens # {} BY <2>2
    <2>4. PICK n \in lens : \A k \in lens : n <= k
      <3> HIDE DEF lens
      <3> QED BY <2>3, PathsAreFit, PP!LeastOf
    <2>5. PICK id \in odd : n = Len(w[id]) OBVIOUS
    <2>6. \A i \in odd : Len(w[id]) <= Len(w[i]) BY <2>4, <2>5
    <2>7. id # Root BY <1>7, <2>5 DEF Rooted, Ids
    <2> DEFINE o == at(id)
    <2>8. o \in objects /\ o.oid = id BY <1>2, <2>5, <2>7
    <2>9. v[id] = Append(v[o.parent], o) BY <1>7, <2>5, <2>7
    <2> HIDE DEF o
    <2>10. w[id] = Append(w[o.parent], o) /\ o.parent \in D /\ o \in Things
      BY <2>8 DEF Rooted
    <2>11. o.parent \in odd BY <2>5, <2>9, <2>10
    <2>12. Len(w[id]) = Len(w[o.parent]) + 1 BY <2>1, <2>10, PathsAreFit, PP!AppendTo
    <2>13. Len(w[id]) <= Len(w[o.parent]) BY <2>6, <2>11
    <2> QED BY <2>2, <2>10, <2>12, <2>13
  <1>10. w = [id \in D |-> w[id]] BY DEF Rooted
  <1> QED BY <1>8, <1>9, <1>10 DEF v

(* A way tells a path. *)
LEMMA NamesAre ==
  ASSUME NEW way \in Seq(Things)
  PROVE  /\ Names(way) \in PP!Path /\ Len(Names(way)) = Len(way)
         /\ \A i \in 1..Len(way) : Names(way)[i] = way[i].name
  <1>1. Len(way) \in Nat /\ DOMAIN way = 1..Len(way) BY LenProperties
  <1>2. \A i \in 1..Len(way) : way[i] \in Things BY ElementOfSeq
  <1>3. \A i \in 1..Len(way) : way[i].name \in STRING BY <1>2 DEF Things
  <1>4. Names(way) = [i \in 1..Len(way) |-> way[i].name] BY <1>1 DEF Names
  <1> DEFINE names == [i \in 1..Len(way) |-> way[i].name]
  <1>5. \A i \in 1..Len(way) : names[i] \in STRING BY <1>3
  <1>6. names \in [1..Len(way) -> STRING] BY <1>5
  <1>7. names \in Seq(STRING) /\ Len(names) = Len(way) BY <1>1, <1>6
  <1> QED BY <1>4, <1>7 DEF PP!Path

(* A sequence with one more element. *)
LEMMA AppendPlaces ==
  ASSUME NEW S, NEW s \in Seq(S), NEW e \in S
  PROVE  (\A i \in 1..Len(s) : Append(s, e)[i] = s[i]) /\ Append(s, e)[Len(s) + 1] = e
  BY AppendProperties

(* The way to an object in a directory ends with its name.                 *)
LEMMA NamesAppend ==
  ASSUME NEW way \in Seq(Things), NEW o \in Things
  PROVE  /\ Names(Append(way, o)) \in PP!Path /\ Names(Append(way, o)) # << >>
         /\ PP!Parent(Names(Append(way, o))) = Names(way)
         /\ PP!Name(Names(Append(way, o))) = o.name
  <1> DEFINE more == Append(way, o)
             p == Names(way)
             q == Append(p, o.name)
  <1>1. /\ more \in Seq(Things) /\ Len(more) = Len(way) + 1 /\ Len(way) \in Nat
        /\ \A i \in 1..Len(way) : more[i] = way[i]
        /\ more[Len(way) + 1] = o
    BY PathsAreFit, PP!AppendTo
  <1>2. o.name \in STRING BY DEF Things
  <1>3. p \in PP!Path /\ Len(p) = Len(way) /\ \A i \in 1..Len(way) : p[i] = way[i].name
    BY NamesAre
  <1> HIDE DEF p, more
  <1>4. Names(more) \in PP!Path /\ Len(Names(more)) = Len(way) + 1
        /\ \A i \in 1..(Len(way) + 1) : Names(more)[i] = more[i].name
    BY <1>1, NamesAre
  <1>5. /\ q \in PP!Path /\ q # << >> /\ Len(q) = Len(way) + 1
        /\ PP!Parent(q) = p /\ PP!Name(q) = o.name
    BY <1>2, <1>3, PathsAreFit, PP!AppendIs
  <1>6. (\A i \in 1..Len(way) : q[i] = p[i]) /\ q[Len(way) + 1] = o.name
    <2>1. p \in Seq(STRING) BY <1>3 DEF PP!Path
    <2>2. (\A i \in 1..Len(p) : q[i] = p[i]) /\ q[Len(p) + 1] = o.name
      BY <1>2, <2>1, AppendPlaces, Zenon
    <2> HIDE DEF q
    <2> QED BY <1>3, <2>2
  <1> HIDE DEF q
  <1>7. \A i \in 1..(Len(way) + 1) : Names(more)[i] = q[i]
    <2> TAKE i \in 1..(Len(way) + 1)
    <2>1. CASE i = Len(way) + 1 BY <1>1, <1>4, <1>6, <2>1
    <2>2. CASE i # Len(way) + 1
      <3>1. i \in 1..Len(way) BY <1>1, <2>2
      <3> QED BY <1>1, <1>3, <1>4, <1>6, <3>1
    <2> QED BY <2>1, <2>2
  <1>8. Names(more) = q BY <1>4, <1>5, <1>7, PathsAreFit, PP!SamePath
  <1> QED BY <1>5, <1>8 DEF more, p

(* The root has the empty path, every object that of its directory and its *)
(* name.                                                                   *)
LEMMA PathsAre ==
  ASSUME NEW objects, NEW w, Rooted(objects, w)
  PROVE  /\ Names(w[Root]) = << >>
         /\ \A id \in Ids(objects) : Names(w[id]) \in PP!Path
         /\ \A o \in objects : /\ Names(w[o.oid]) # << >>
                               /\ PP!Parent(Names(w[o.oid])) = Names(w[o.parent])
                               /\ PP!Name(Names(w[o.oid])) = o.name
  <1>1. \A id \in Ids(objects) : w[id] \in Seq(Things) BY DEF Rooted
  <1>2. \A id \in Ids(objects) : Names(w[id]) \in PP!Path BY <1>1, NamesAre
  <1>3. w[Root] = << >> /\ << >> \in Seq(Things) BY EmptySeq DEF Rooted
  <1>4. Names(<< >>) \in PP!Path /\ Len(Names(<< >>)) = Len(<< >>) BY <1>3, NamesAre
  <1>5. Names(<< >>) = << >> BY <1>4, EmptySeq DEF PP!Path
  <1>6. ASSUME NEW o \in objects
        PROVE  /\ Names(w[o.oid]) # << >>
               /\ PP!Parent(Names(w[o.oid])) = Names(w[o.parent])
               /\ PP!Name(Names(w[o.oid])) = o.name
    <2>1. o \in Things /\ o.parent \in Ids(objects) /\ w[o.oid] = Append(w[o.parent], o)
      BY DEF Rooted
    <2>2. w[o.parent] \in Seq(Things) BY <1>1, <2>1
    <2> QED BY <2>1, <2>2, NamesAppend
  <1> QED BY <1>2, <1>3, <1>5, <1>6

(* A new object hangs where its parent is, and the ways to the others stay. *)
LEMMA CreateDoes ==
  ASSUME NEW objects, NEW w, Rooted(objects, w), NEW n \in Things,
         n.oid \notin Ids(objects), n.parent \in Ids(objects),
         NEW more, more = objects \cup {n}
  PROVE  /\ Rooted(more, Ways(more))
         /\ \A id \in Ids(objects) : Ways(more)[id] = w[id]
         /\ Ways(more)[n.oid] = Append(w[n.parent], n)
  <1> DEFINE w1 == [id \in Ids(more) |-> IF id = n.oid THEN Append(w[n.parent], n) ELSE w[id]]
  <1>1. Ids(more) = Ids(objects) \cup {n.oid} BY DEF Ids
  <1>2. \A id \in Ids(objects) : w[id] \in Seq(Things) BY DEF Rooted
  <1>3. Append(w[n.parent], n) \in Seq(Things)
    BY <1>2, PathsAreFit, PP!AppendTo
  <1>4. w1[n.oid] = Append(w[n.parent], n) BY <1>1
  <1>5. \A id \in Ids(objects) : w1[id] = w[id] BY <1>1
  <1>6. w1 \in [Ids(more) -> Seq(Things)] BY <1>1, <1>2, <1>3
  <1> HIDE DEF w1
  <1>7. \A o \in objects : o.oid \in Ids(objects) /\ Root \in Ids(objects) BY DEF Ids
  <1>8. Root \in Ids(objects) BY DEF Ids
  <1>9. w1[Root] = << >> BY <1>5, <1>8 DEF Rooted
  <1>10. ASSUME NEW o \in more
         PROVE  /\ o.oid # Root /\ o.parent \in Ids(more)
                /\ w1[o.oid] = Append(w1[o.parent], o)
    <2>1. CASE o = n BY <1>1, <1>4, <1>5, <1>8, <2>1
    <2>2. CASE o \in objects
      <3>1. /\ o.oid # Root /\ o.parent \in Ids(objects)
            /\ w[o.oid] = Append(w[o.parent], o)
        BY <2>2 DEF Rooted
      <3> QED BY <1>1, <1>5, <1>7, <2>2, <3>1
    <2> QED BY <2>1, <2>2
  <1>11. \A o, x \in more : o.oid = x.oid => o = x BY <1>7 DEF Rooted
  <1>12. more \subseteq Things BY DEF Rooted
  <1>13. Rooted(more, w1) BY <1>6, <1>9, <1>10, <1>11, <1>12 DEF Rooted
  <1>14. Ways(more) = w1 BY <1>13, WaysAre
  <1> QED BY <1>4, <1>5, <1>13, <1>14

(* When an object goes that nothing hangs from, the ways to the others     *)
(* stay.                                                                   *)
LEMMA RemoveDoes ==
  ASSUME NEW objects, NEW w, Rooted(objects, w), NEW gone,
         gone # Root, \A o \in objects : o.parent # gone,
         NEW rest, rest = {o \in objects : o.oid # gone}
  PROVE  /\ Rooted(rest, Ways(rest))
         /\ \A id \in Ids(rest) : Ways(rest)[id] = w[id]
  <1> DEFINE w1 == [id \in Ids(rest) |-> w[id]]
  <1>1. Ids(rest) = Ids(objects) \ {gone} BY DEF Ids
  <1>2. \A id \in Ids(rest) : w1[id] = w[id] OBVIOUS
  <1>3. w1 \in [Ids(rest) -> Seq(Things)] BY <1>1 DEF Rooted
  <1>4. \A o \in rest : o \in objects /\ o.oid \in Ids(rest) BY DEF Ids
  <1>5. Root \in Ids(rest) BY DEF Ids
  <1> HIDE DEF w1
  <1>6. w1[Root] = << >> BY <1>2, <1>5 DEF Rooted
  <1>7. ASSUME NEW o \in rest
        PROVE  /\ o.oid # Root /\ o.parent \in Ids(rest)
               /\ w1[o.oid] = Append(w1[o.parent], o)
    <2>1. /\ o.oid # Root /\ o.parent \in Ids(objects)
          /\ w[o.oid] = Append(w[o.parent], o)
      BY <1>4 DEF Rooted
    <2> QED BY <1>1, <1>2, <1>4, <2>1
  <1>8. \A o, x \in rest : o.oid = x.oid => o = x BY <1>4 DEF Rooted
  <1>9. rest \subseteq Things BY DEF Rooted
  <1>10. Rooted(rest, w1) BY <1>3, <1>6, <1>7, <1>8, <1>9 DEF Rooted
  <1>11. Ways(rest) = w1 BY <1>10, WaysAre
  <1> QED BY <1>2, <1>10, <1>11

(***************************************************************************)
(* The invariant.                                                          *)
(***************************************************************************)
(* The object of the plan is on the device under the id it is known by.    *)
Current(o) == \E x \in store : x.oid = OidOf(o) /\ PathOf(x) = o.path /\ x.dir = o.dir

(* The objects on the device are a tree. *)
StoreFits ==
  /\ Rooted(store, Ways(store))
  /\ \A o \in store : o.parent = Root \/ \E x \in store : x.oid = o.parent /\ x.dir
  /\ OneObjectPerPath

(* While planning every id is that of the listing; in the run, what has    *)
(* been listed or made and what is still to be removed has its id.         *)
IdsFit ==
  /\ \A o \in DOMAIN oids : oids[o] \in AllIds \ {Root}
  /\ PP!Planning => \A o \in PP!Scan(DeviceTree) : Current(o)
  /\ ~PP!Planning =>
       /\ \A o \in plan.dst : o.id < next => Current(o)
       /\ \A i \in next..Len(plan.actions) :
            plan.actions[i].on = "device" /\ plan.actions[i].op = "Remove" =>
              Current(plan.actions[i].object)

(* The inductive invariant: that of PathPlan, and what the ids add to it.  *)
MtpInv == PP!Inv /\ PP!Ready /\ StoreFits /\ IdsFit

(* Ids of objects have ways. *)
LEMMA IdsAre ==
  ASSUME NEW objects
  PROVE  Root \in Ids(objects) /\ \A o \in objects : o.oid \in Ids(objects)
  BY DEF Ids

(* The next action on the device can be carried out there, as PathPlan has *)
(* it.                                                                     *)
LEMMA NextOnDevice ==
  ASSUME MtpInv, phase = "run", next <= Len(plan.actions), Action.on = "device"
  PROVE  /\ plan.actions \in Seq(PP!Actions) /\ next \in 1..Len(plan.actions)
         /\ Len(plan.actions) \in Nat /\ Action \in PP!Actions
         /\ PP!Works(Action) /\ PP!Fits(local, DeviceTree, Action)
         /\ PP!Accounted(plan)
  <1> DEFINE acts == plan.actions
             a == plan.actions[next]
  <1>1. PP!Inv /\ PP!Ready BY DEF MtpInv
  <1>2. acts \in Seq(PP!Actions) /\ next \in 1..Len(acts) /\ a \in PP!Actions /\ PP!Works(a)
    BY <1>1, PathsAreFit, PP!NextActionFits
  <1>3. \E s, d : PP!Leads(a, local, DeviceTree, s, d)
    BY <1>1, PathsAreFit, PP!NextActionFits
  <1>4. PP!Fits(local, DeviceTree, a)
    BY <1>3, Zenon DEF PP!Leads, Action
  <1>5. PP!Accounted(plan) BY <1>1 DEF PP!Ready, PP!Planning
  <1>6. Len(acts) \in Nat BY <1>2, LenProperties
  <1> QED BY <1>2, <1>4, <1>5, <1>6 DEF Action

(* A new object in a folder adds its path to the tree. *)
LEMMA CreateInTree ==
  ASSUME StoreFits, NEW n \in Things, n.oid \notin Ids(store),
         NEW q, q = Names(Append(Way(n.parent), n)),
         n.parent = Root \/ \E x \in store : x.oid = n.parent /\ x.dir,
         \A x \in store : PathOf(x) # q,
         store' = store \cup {n}
  PROVE  /\ StoreFits'
         /\ \A o \in store : PathOf(o)' = PathOf(o)
         /\ PathOf(n)' = q
         /\ DeviceTree' = DeviceTree \cup {[path |-> q, dir |-> n.dir]}
  <1> DEFINE w == Ways(store)
             w1 == Ways(store')
  <1>1. Rooted(store, w) BY DEF StoreFits
  <1>2. n.parent \in Ids(store) BY IdsAre
  <1> HIDE DEF w
  <1>3. /\ Rooted(store', w1)
        /\ \A id \in Ids(store) : w1[id] = w[id]
        /\ w1[n.oid] = Append(w[n.parent], n)
    BY <1>1, <1>2, CreateDoes
  <1> USE DEF w
  <1>4. \A o \in store : o.oid \in Ids(store) BY IdsAre
  <1>5. \A o \in store : PathOf(o) = Names(w[o.oid]) BY DEF PathOf, Way
  <1>6. \A o \in store : PathOf(o)' = Names(w1[o.oid]) BY DEF PathOf, Way
  <1>7. \A o \in store : PathOf(o)' = PathOf(o)
    <2> HIDE DEF w, w1
    <2> QED BY <1>3, <1>4, <1>5, <1>6
  <1>8. PathOf(n)' = q
    <2>1. PathOf(n)' = Names(w1[n.oid]) BY DEF PathOf, Way
    <2>2. q = Names(Append(w[n.parent], n)) BY DEF Way
    <2> QED BY <1>3, <2>1, <2>2
  <1>9. OneObjectPerPath'
    <2> SUFFICES ASSUME NEW x \in store', NEW y \in store', PathOf(x)' = PathOf(y)'
                 PROVE  x = y
      BY DEF OneObjectPerPath
    <2>1. CASE x \in store /\ y \in store
      <3>1. PathOf(x) = PathOf(y) BY <1>7, <2>1
      <3> QED BY <2>1, <3>1 DEF StoreFits, OneObjectPerPath
    <2>2. CASE x \in store /\ y = n BY <1>7, <1>8, <2>2
    <2>3. CASE x = n /\ y \in store BY <1>7, <1>8, <2>3
    <2>4. CASE x = n /\ y = n BY <2>4
    <2> QED BY <2>1, <2>2, <2>3, <2>4
  <1>10. (\A o \in store : o.parent = Root \/ \E x \in store : x.oid = o.parent /\ x.dir)'
    BY DEF StoreFits
  <1>11. StoreFits' BY <1>3, <1>9, <1>10 DEF StoreFits
  <1>12. DeviceTree' = DeviceTree \cup {[path |-> q, dir |-> n.dir]}
    <2>1. DeviceTree' = {[path |-> PathOf(o)', dir |-> o.dir] : o \in store'}
      BY DEF DeviceTree
    <2>2. ASSUME NEW e \in DeviceTree'
          PROVE  e \in DeviceTree \cup {[path |-> q, dir |-> n.dir]}
      <3>1. PICK o \in store' : e = [path |-> PathOf(o)', dir |-> o.dir] BY <2>1
      <3>2. CASE o \in store
        <4>1. e = [path |-> PathOf(o), dir |-> o.dir] BY <1>7, <3>1, <3>2
        <4> QED BY <3>2, <4>1 DEF DeviceTree
      <3>3. CASE o = n BY <1>8, <3>1, <3>3
      <3> QED BY <3>2, <3>3
    <2>3. ASSUME NEW e \in DeviceTree \cup {[path |-> q, dir |-> n.dir]}
          PROVE  e \in DeviceTree'
      <3>1. CASE e \in DeviceTree
        <4>1. PICK o \in store : e = [path |-> PathOf(o), dir |-> o.dir] BY <3>1 DEF DeviceTree
        <4>2. o \in store' /\ e = [path |-> PathOf(o)', dir |-> o.dir] BY <1>7, <4>1
        <4> QED BY <2>1, <4>2
      <3>2. CASE e = [path |-> q, dir |-> n.dir]
        <4>1. n \in store' /\ e = [path |-> PathOf(n)', dir |-> n.dir] BY <1>8, <3>2
        <4> QED BY <2>1, <4>1
      <3> QED BY <3>1, <3>2
    <2> QED BY <2>2, <2>3
  <1> QED BY <1>7, <1>8, <1>11, <1>12

(* When an object goes that nothing hangs from, its path goes. *)
LEMMA RemoveFromTree ==
  ASSUME StoreFits, NEW y \in store, \A o \in store : o.parent # y.oid,
         store' = {o \in store : o.oid # y.oid}
  PROVE  /\ StoreFits'
         /\ \A o \in store' : PathOf(o)' = PathOf(o)
         /\ DeviceTree' = {x \in DeviceTree : x.path # PathOf(y)}
         /\ \A o \in store : PathOf(o) # PathOf(y) => o \in store'
  <1> DEFINE w == Ways(store)
             w1 == Ways(store')
  <1>1. Rooted(store, w) BY DEF StoreFits
  <1>2. y.oid # Root BY <1>1 DEF Rooted
  <1> HIDE DEF w
  <1>3. /\ Rooted(store', w1)
        /\ \A id \in Ids(store') : w1[id] = w[id]
    <2> DEFINE gone == y.oid
    <2>1. /\ gone # Root /\ \A o \in store : o.parent # gone
          /\ store' = {o \in store : o.oid # gone}
      BY <1>2
    <2>2. PICK rest : rest = store' OBVIOUS
    <2> HIDE DEF gone
    <2>3. rest = {o \in store : o.oid # gone} BY <2>1, <2>2
    <2>4. /\ Rooted(rest, Ways(rest))
          /\ \A id \in Ids(rest) : Ways(rest)[id] = w[id]
      BY <1>1, <2>1, <2>3, RemoveDoes
    <2> QED BY <2>2, <2>4
  <1> USE DEF w
  <1>4. \A o \in store' : o.oid \in Ids(store') BY IdsAre
  <1>5. \A o \in store' : PathOf(o) = Names(w[o.oid]) BY DEF PathOf, Way
  <1>6. \A o \in store' : PathOf(o)' = Names(w1[o.oid]) BY DEF PathOf, Way
  <1>7. \A o \in store' : PathOf(o)' = PathOf(o)
    <2> HIDE DEF w, w1
    <2> QED BY <1>3, <1>4, <1>5, <1>6
  <1>8. \A x, z \in store : PathOf(x) = PathOf(z) => x = z BY DEF StoreFits, OneObjectPerPath
  <1>9. \A o \in store : PathOf(o) # PathOf(y) <=> o \in store'
    <2> TAKE o \in store
    <2>1. o.oid = y.oid => o = y BY <1>1 DEF Rooted
    <2> QED BY <1>8, <2>1
  <1>10. \A o \in store' : o \in store OBVIOUS
  <1>11. OneObjectPerPath'
    <2> SUFFICES ASSUME NEW x \in store', NEW z \in store', PathOf(x)' = PathOf(z)'
                 PROVE  x = z
      BY DEF OneObjectPerPath
    <2> QED BY <1>7, <1>8, <1>10
  <1>12. (\A o \in store : o.parent = Root \/ \E x \in store : x.oid = o.parent /\ x.dir)'
    <2> SUFFICES ASSUME NEW o \in store', o.parent # Root
                 PROVE  \E x \in store' : x.oid = o.parent /\ x.dir
      OBVIOUS
    <2>1. PICK x \in store : x.oid = o.parent /\ x.dir BY DEF StoreFits
    <2>2. x.oid # y.oid BY <2>1
    <2> QED BY <2>1, <2>2
  <1>13. StoreFits' BY <1>3, <1>11, <1>12 DEF StoreFits
  <1>14. DeviceTree' = {x \in DeviceTree : x.path # PathOf(y)}
    <2>1. DeviceTree' = {[path |-> PathOf(o)', dir |-> o.dir] : o \in store'}
      BY DEF DeviceTree
    <2>2. ASSUME NEW e \in DeviceTree' PROVE e \in DeviceTree /\ e.path # PathOf(y)
      <3>1. PICK o \in store' : e = [path |-> PathOf(o)', dir |-> o.dir] BY <2>1
      <3>2. e = [path |-> PathOf(o), dir |-> o.dir] /\ o \in store BY <1>7, <1>10, <3>1
      <3>3. e.path = PathOf(o) BY <3>2
      <3> QED BY <1>9, <3>2, <3>3 DEF DeviceTree
    <2>3. ASSUME NEW e \in DeviceTree, e.path # PathOf(y) PROVE e \in DeviceTree'
      <3>1. PICK o \in store : e = [path |-> PathOf(o), dir |-> o.dir] BY <2>3 DEF DeviceTree
      <3>2. o \in store' BY <1>9, <2>3, <3>1
      <3>3. e = [path |-> PathOf(o)', dir |-> o.dir] BY <1>7, <3>1, <3>2
      <3> QED BY <2>1, <3>2, <3>3
    <2> QED BY <2>2, <2>3
  <1> QED BY <1>7, <1>9, <1>13, <1>14

(***************************************************************************)
(* The steps.                                                              *)
(***************************************************************************)
(* Remove: the object of the plan goes, and no other one has its path or   *)
(* hangs from it.                                                          *)
LEMMA RemoveStep ==
  ASSUME MtpInv, Remove
  PROVE  PP!RunAction /\ StoreFits' /\ IdsFit'
  <1> DEFINE acts == plan.actions
             a == Action
             o == a.object
  <1>1. /\ phase = "run" /\ next <= Len(acts) /\ a.on = "device" /\ a.op = "Remove"
        /\ UNCHANGED <<history, changed, thumbsOn, todo, localBooks, deviceBooks, plan>>
        /\ IF Deletable(OidOf(o))
           THEN /\ store' = {x \in store : x.oid # OidOf(o)}
                /\ ActionDone
                /\ UNCHANGED <<oids, local>>
           ELSE ActionFailed
    BY Zenon DEF Remove, Execute
  <1>2. /\ acts \in Seq(PP!Actions) /\ next \in 1..Len(acts) /\ Len(acts) \in Nat
        /\ a \in PP!Actions /\ PP!Works(a) /\ PP!Fits(local, DeviceTree, a)
        /\ PP!Accounted(plan) /\ a = acts[next]
    BY <1>1, NextOnDevice DEF Action
  <1>3. StoreFits /\ IdsFit /\ ~PP!Planning BY <1>1 DEF MtpInv, PP!Planning
  <1>4. Current(o) BY <1>1, <1>2, <1>3 DEF IdsFit
  <1>5. PICK y \in store : y.oid = OidOf(o) /\ PathOf(y) = o.path BY <1>4 DEF Current
  <1>6. \A x \in DeviceTree : ~PP!IsUnder(x.path, o.path) BY <1>1, <1>2 DEF PP!Fits
  <1> HIDE DEF a
  <1>7. \A x \in store : x.parent # y.oid
    <2> SUFFICES ASSUME NEW x \in store, x.parent = y.oid PROVE FALSE OBVIOUS
    <2> DEFINE w == Ways(store)
               p == PathOf(x)
    <2>1. Rooted(store, w) BY <1>3 DEF StoreFits
    <2>2. x.oid \in Ids(store) BY IdsAre
    <2>3. /\ Names(w[x.oid]) \in PP!Path /\ Names(w[x.oid]) # << >>
          /\ PP!Parent(Names(w[x.oid])) = Names(w[x.parent])
      BY <2>1, <2>2, PathsAre
    <2>4. p = Names(w[x.oid]) /\ PathOf(y) = Names(w[x.parent]) BY DEF PathOf, Way
    <2>5. p \in PP!Path /\ p # << >> /\ PP!Parent(p) = o.path BY <1>5, <2>3, <2>4
    <2> HIDE DEF p
    <2>6. PP!IsUnder(p, o.path) BY <2>5, PathsAreFit, PP!UnderItsParent
    <2>7. [path |-> p, dir |-> x.dir] \in DeviceTree BY DEF DeviceTree, p
    <2> QED BY <1>6, <2>6, <2>7
  <1>8. Deletable(OidOf(o)) BY <1>5, <1>7 DEF Deletable
  <1>9. /\ store' = {x \in store : x.oid # y.oid} /\ next' = next + 1
        /\ UNCHANGED <<oids, local, phase>>
    BY <1>1, <1>5, <1>8 DEF ActionDone
  <1>10. /\ StoreFits'
         /\ \A x \in store' : PathOf(x)' = PathOf(x)
         /\ DeviceTree' = {x \in DeviceTree : x.path # o.path}
         /\ \A x \in store : PathOf(x) # o.path => x \in store'
    BY <1>3, <1>5, <1>7, <1>9, RemoveFromTree
  <1>11. PP!RunAction
    <2>1. DeviceTree' = PP!Effect(DeviceTree, a.op, a.object) BY <1>1, <1>10 DEF PP!Effect
    <2>2. PP!CarryOut(a) BY <1>1, <1>9, <2>1 DEF PP!CarryOut
    <2> QED BY <1>1, <1>2, <2>2 DEF PP!RunAction
  <1>12. ASSUME NEW z, Current(z), z.path # o.path PROVE Current(z)'
    <2>1. PICK x \in store : x.oid = OidOf(z) /\ PathOf(x) = z.path /\ x.dir = z.dir
      BY <1>12 DEF Current
    <2>2. x \in store' BY <1>10, <1>12, <2>1
    <2>3. PathOf(x)' = z.path BY <1>10, <2>1, <2>2
    <2>4. OidOf(z)' = OidOf(z) BY <1>9 DEF OidOf
    <2> QED BY <2>1, <2>2, <2>3, <2>4 DEF Current
  <1>13. IdsFit'
    <2>1. ASSUME NEW z \in plan.dst, z.id < next + 1 PROVE Current(z)'
      <3>1. PP!Orderly(acts) /\ PP!Tracked(acts, plan.dst) BY <1>2 DEF PP!Accounted
      <3>2. z.id \in Nat /\ next \in Nat \ {0}
        BY DEF MtpInv, PP!Inv, PP!PlanIsSound, PP!SoundFrom, PP!Plans, PP!Objects, PP!Types
      <3>3. z.path # o.path
        <4>1. CASE z.id = 0
          <5>1. z.path \notin PP!Removed(acts) BY <1>2, <4>1 DEF PP!Accounted
          <5>2. next \in DOMAIN acts BY <1>2, LenProperties
          <5>3. o.path \in PP!Removed(acts) BY <1>1, <1>2, <5>2 DEF PP!Removed
          <5> QED BY <5>1, <5>3
        <4>2. CASE z.id # 0
          <5>1. PP!MadeBy(acts, z.id, z) BY <3>1, <4>2 DEF PP!Tracked
          <5>2. z.id # next BY <1>1, <1>2, <5>1 DEF PP!MadeBy
          <5>3. next \in (z.id + 1)..Len(acts) BY <1>2, <2>1, <3>2, <5>2
          <5>4. ~PP!Clears(acts[next], z.path) BY <5>1, <5>3 DEF PP!MadeBy
          <5> QED BY <1>1, <1>2, <5>4 DEF PP!Clears
        <4> QED BY <4>1, <4>2
      <3>4. Current(z)
        <4>1. z.id < next
          <5>1. z.id # next
            <6> SUFFICES ASSUME z.id = next PROVE FALSE OBVIOUS
            <6>1. PP!MadeBy(acts, z.id, z) BY <3>1, <3>2 DEF PP!Tracked
            <6> QED BY <1>1, <1>2, <6>1 DEF PP!MadeBy
          <5> QED BY <2>1, <3>2, <5>1
        <4> QED BY <1>3, <4>1 DEF IdsFit
      <3> QED BY <1>12, <3>3, <3>4
    <2>2. ASSUME NEW i \in (next + 1)..Len(acts), acts[i].on = "device", acts[i].op = "Remove"
          PROVE  Current(acts[i].object)'
      <3>1. next \in Nat /\ i \in 1..Len(acts) /\ next \in 1..(i - 1) /\ i \in next..Len(acts)
        BY <1>2
      <3>2. acts[i].object.path # o.path
        BY <1>1, <1>2, <2>2, <3>1 DEF PP!Accounted, PP!Orderly
      <3>3. Current(acts[i].object) BY <1>3, <2>2, <3>1 DEF IdsFit
      <3>4. PICK z : z = acts[i].object OBVIOUS
      <3>5. Current(z)' BY <1>12, <3>2, <3>3, <3>4
      <3>6. (acts[i].object)' = z BY <1>1, <3>4
      <3> QED BY <3>5, <3>6 DEF Current, OidOf
    <2>3. \A z \in DOMAIN oids : oids[z] \in AllIds \ {Root} BY <1>3 DEF IdsFit
    <2>4. (\A z \in DOMAIN oids : oids[z] \in AllIds \ {Root})' BY <1>9, <2>3
    <2>5. (~PP!Planning)' BY <1>1, <1>9 DEF PP!Planning
    <2>6. (\A z \in plan.dst : z.id < next => Current(z))' BY <1>1, <1>9, <2>1
    <2>7. (\A i \in next..Len(plan.actions) :
            plan.actions[i].on = "device" /\ plan.actions[i].op = "Remove" =>
              Current(plan.actions[i].object))'
      BY <1>1, <1>9, <2>2
    <2> QED BY <2>4, <2>5, <2>6, <2>7 DEF IdsFit
  <1> QED BY <1>10, <1>11, <1>13

(* MkDir and Copy: the parent is in the set the plan has left and has its  *)
(* id, and the new object gets the path that was planned for it.           *)
LEMMA MakeStep ==
  ASSUME MtpInv, NEW op \in {"MkDir", "Copy"}, NEW sendable, MakeObject(op, sendable),
         PP!Fits(local, DeviceTree, Action) => sendable
  PROVE  PP!RunAction /\ StoreFits' /\ IdsFit'
  <1> DEFINE acts == plan.actions
             a == Action
             o == a.object
  <1>1. /\ phase = "run" /\ next <= Len(acts) /\ a.on = "device" /\ a.op = op
        /\ UNCHANGED <<history, changed, thumbsOn, todo, localBooks, deviceBooks, plan>>
        /\ IF sendable /\ \E p \in ParentObjects(o) : IsFolder(OidOf(p))
           THEN /\ \E id \in NewIds : Create(o, id)
                /\ ActionDone
                /\ UNCHANGED local
           ELSE ActionFailed
    BY Zenon DEF MakeObject, Execute
  <1>2. /\ acts \in Seq(PP!Actions) /\ next \in 1..Len(acts) /\ Len(acts) \in Nat
        /\ a \in PP!Actions /\ PP!Works(a) /\ PP!Fits(local, DeviceTree, a)
        /\ PP!Accounted(plan) /\ a = acts[next]
    BY <1>1, NextOnDevice DEF Action
  <1>3. StoreFits /\ IdsFit /\ ~PP!Planning BY <1>1 DEF MtpInv, PP!Planning
  <1>4. o.path \in PP!Path /\ o.path # << >> /\ o.dir \in BOOLEAN
    BY <1>2 DEF PP!Actions, PP!Objects
  <1>5. PP!Orderly(acts) /\ PP!Tracked(acts, plan.dst) /\ PP!Keyed(plan.dst)
    BY <1>2 DEF PP!Accounted
  <1> HIDE DEF a
  <1>6. o.id = next /\ Len(o.path) > 1 BY <1>1, <1>2, <1>5 DEF PP!Orderly
  <1>7. o \in plan.dst /\ PP!InOlderDir(plan.dst, o.path, next)
    BY <1>1, <1>2, <1>5, <1>6 DEF PP!Tracked
  <1>8. PICK d \in plan.dst : d.path = PP!Parent(o.path) /\ d.dir /\ d.id < next
    BY <1>7 DEF PP!InOlderDir
  <1>9. ParentObjects(o) = {d}
    <2>1. PP!Find(plan.dst, PP!Parent(o.path)) = {d} BY <1>5, <1>8 DEF PP!Find, PP!Keyed
    <2>2. Paths!Parent(o.path) = PP!Parent(o.path) BY SameParent, Zenon
    <2>3. ParentObjects(o) = PP!Find(plan.dst, PP!Parent(o.path))
      BY <2>2, SameFind, Zenon DEF ParentObjects
    <2> QED BY <2>1, <2>3
  <1>10. Current(d) BY <1>3, <1>8 DEF IdsFit
  <1>11. PICK x \in store : x.oid = OidOf(d) /\ PathOf(x) = d.path /\ x.dir = d.dir
    BY <1>10 DEF Current
  <1>12. IsFolder(OidOf(d)) BY <1>8, <1>11 DEF IsFolder
  <1>13. (\E id \in NewIds : Create(o, id)) /\ ActionDone /\ UNCHANGED local
    BY <1>1, <1>2, <1>9, <1>12 DEF a
  <1>14. PICK id \in NewIds : Create(o, id) BY <1>13
  <1>15. id \in AllIds \ {Root} /\ id \notin Ids(store)
    <2> DEFINE taken == {y.oid : y \in store}
               known == {oids[i] : i \in DOMAIN oids}
               fresh == FreshIds \ (taken \cup known)
    <2>1. id \in (known \ taken) \cup (IF fresh = {} THEN {} ELSE {CHOOSE i \in fresh : TRUE})
      BY Zenon DEF NewIds
    <2>2. known \subseteq AllIds \ {Root} BY <1>3 DEF IdsFit
    <2>3. FreshIds \subseteq AllIds \ {Root} BY MtpAssumption DEF AllIds, Root
    <2>4. fresh \subseteq FreshIds /\ fresh \cap taken = {} OBVIOUS
    <2> HIDE DEF fresh, known, taken
    <2>5. id \in known \ taken \/ id \in fresh BY <2>1
    <2>6. id \in AllIds \ {Root} /\ id \notin taken BY <2>2, <2>3, <2>4, <2>5
    <2> QED BY <2>6 DEF Ids, taken
  <1>0. PICK n : n = [oid |-> id, parent |-> x.oid, name |-> PP!Name(o.path), dir |-> o.dir]
    OBVIOUS
  <1>16. /\ store' = store \cup {n}
         /\ oids' = [i \in DOMAIN oids \cup {o} |-> IF i = o THEN id ELSE oids[i]]
    <2>1. (CHOOSE p \in ParentObjects(o) : TRUE) = d BY <1>9
    <2>2. Paths!Name(o.path) = PP!Name(o.path) BY SameName, Zenon
    <2>3. /\ store' = store \cup
               {[oid |-> id, parent |-> OidOf(CHOOSE p \in ParentObjects(o) : TRUE),
                 name |-> Paths!Name(o.path), dir |-> o.dir]}
          /\ oids' = [i \in DOMAIN oids \cup {o} |-> IF i = o THEN id ELSE oids[i]]
      BY <1>14, Zenon DEF Create
    <2> QED BY <1>0, <1>11, <2>1, <2>2, <2>3, Zenon
  <1>17. Rooted(store, Ways(store)) /\ x \in Things BY <1>3 DEF StoreFits, Rooted
  <1>18. x.oid \in Ids(store) /\ x.oid \in AllIds BY <1>17, IdsAre DEF Things
  <1>19. n \in Things
    <2>1. PP!Name(o.path) \in STRING BY <1>4, PathsAreFit, PP!ParentIs
    <2> QED BY <1>0, <1>4, <1>15, <1>18, <2>1 DEF Things
  <1>20. n.oid = id /\ n.parent = x.oid /\ n.name = PP!Name(o.path) /\ n.dir = o.dir BY <1>0
  <1>21. Names(Append(Way(n.parent), n)) = o.path
    <2> DEFINE way == Way(n.parent)
               q == Names(Append(way, n))
    <2>1. way \in Seq(Things) BY <1>17, <1>18, <1>20 DEF Rooted, Way
    <2>2. Names(way) = d.path BY <1>11, <1>20 DEF PathOf
    <2> HIDE DEF way
    <2>3. q \in PP!Path /\ q # << >> /\ PP!Parent(q) = Names(way) /\ PP!Name(q) = n.name
      BY <1>19, <2>1, NamesAppend
    <2> HIDE DEF q
    <2>4. q = o.path BY <1>4, <1>8, <1>20, <2>2, <2>3, PathsAreFit, PP!SameParts
    <2> QED BY <2>4 DEF q, way
  <1>22. \A y \in store : PathOf(y) # o.path
    <2>1. op # "Remove" /\ op \in {"MkDir", "Copy"} OBVIOUS
    <2>2. \A y \in DeviceTree : y.path # o.path BY <1>1, <1>2, <2>1 DEF PP!Fits
    <2>3. \A y \in store : [path |-> PathOf(y), dir |-> y.dir] \in DeviceTree BY DEF DeviceTree
    <2> QED BY <2>2, <2>3
  <1>23. /\ StoreFits'
         /\ \A y \in store : PathOf(y)' = PathOf(y)
         /\ PathOf(n)' = o.path
         /\ DeviceTree' = DeviceTree \cup {[path |-> o.path, dir |-> o.dir]}
    <2>1. PICK q : q = o.path OBVIOUS
    <2>2. n.parent = Root \/ \E y \in store : y.oid = n.parent /\ y.dir BY <1>8, <1>11, <1>20
    <2>3. n.oid \notin Ids(store) BY <1>15, <1>20
    <2>4. q = Names(Append(Way(n.parent), n)) /\ \A y \in store : PathOf(y) # q
      BY <1>21, <1>22, <2>1
    <2>5. /\ StoreFits'
          /\ \A y \in store : PathOf(y)' = PathOf(y)
          /\ PathOf(n)' = q
          /\ DeviceTree' = DeviceTree \cup {[path |-> q, dir |-> n.dir]}
      BY <1>3, <1>16, <1>19, <2>2, <2>3, <2>4, CreateInTree
    <2> QED BY <1>20, <2>1, <2>5
  <1>24. next' = next + 1 /\ UNCHANGED <<local, phase>> BY <1>13 DEF ActionDone
  <1>25. PP!RunAction
    <2>1. DeviceTree' = PP!Effect(DeviceTree, a.op, a.object) BY <1>1, <1>23 DEF PP!Effect
    <2>2. PP!CarryOut(a) BY <1>1, <1>24, <2>1 DEF PP!CarryOut
    <2> QED BY <1>1, <1>2, <2>2 DEF PP!RunAction
  <1>26. ASSUME NEW z, Current(z), z # o PROVE Current(z)'
    <2>1. PICK y \in store : y.oid = OidOf(z) /\ PathOf(y) = z.path /\ y.dir = z.dir
      BY <1>26 DEF Current
    <2>2. y \in store' /\ PathOf(y)' = z.path BY <1>16, <1>23, <2>1
    <2>3. OidOf(z)' = OidOf(z) BY <1>16, <1>26 DEF OidOf
    <2> QED BY <2>1, <2>2, <2>3 DEF Current
  <1>27. PICK e : e = o OBVIOUS
  <1>28. Current(e)'
    <2>1. OidOf(e)' = id BY <1>16, <1>27 DEF OidOf
    <2>2. n \in store' /\ PathOf(n)' = e.path /\ n.dir = e.dir /\ n.oid = id
      BY <1>16, <1>20, <1>23, <1>27
    <2> QED BY <2>1, <2>2 DEF Current
  <1>29. IdsFit'
    <2>1. ASSUME NEW z \in plan.dst, z.id < next + 1 PROVE Current(z)'
      <3>1. z.id \in Nat /\ next \in Nat \ {0}
        BY DEF MtpInv, PP!Inv, PP!PlanIsSound, PP!SoundFrom, PP!Plans, PP!Objects, PP!Types
      <3>2. CASE z.id = next
        <4>1. PP!MadeBy(acts, next, z) BY <1>5, <3>1, <3>2 DEF PP!Tracked
        <4>2. z = e BY <1>2, <1>27, <4>1 DEF PP!MadeBy
        <4> QED BY <1>28, <4>2
      <3>3. CASE z.id # next
        <4>1. z.id < next BY <2>1, <3>1, <3>3
        <4>2. Current(z) BY <1>3, <4>1 DEF IdsFit
        <4>3. z # o BY <1>6, <3>3
        <4> QED BY <1>26, <4>2, <4>3
      <3> QED BY <3>2, <3>3
    <2>2. ASSUME NEW i \in (next + 1)..Len(acts), acts[i].on = "device", acts[i].op = "Remove"
          PROVE  Current(acts[i].object)'
      <3>1. next \in Nat \ {0} /\ i \in 1..Len(acts) /\ i \in next..Len(acts) BY <1>2
      <3>2. acts[i].object.id = 0 BY <1>5, <2>2, <3>1 DEF PP!Orderly
      <3>3. Current(acts[i].object) BY <1>3, <2>2, <3>1 DEF IdsFit
      <3>4. PICK z : z = acts[i].object OBVIOUS
      <3>5. z # o BY <1>6, <3>1, <3>2, <3>4
      <3>6. Current(z)' BY <1>26, <3>3, <3>4, <3>5
      <3>7. (acts[i].object)' = z BY <1>1, <3>4
      <3> QED BY <3>6, <3>7 DEF Current, OidOf
    <2>3. \A z \in DOMAIN oids : oids[z] \in AllIds \ {Root} BY <1>3 DEF IdsFit
    <2>4. (\A z \in DOMAIN oids : oids[z] \in AllIds \ {Root})' BY <1>15, <1>16, <2>3
    <2>5. (~PP!Planning)' BY <1>1, <1>24 DEF PP!Planning
    <2>6. (\A z \in plan.dst : z.id < next => Current(z))' BY <1>1, <1>24, <2>1
    <2>7. (\A i \in next..Len(plan.actions) :
            plan.actions[i].on = "device" /\ plan.actions[i].op = "Remove" =>
              Current(plan.actions[i].object))'
      BY <1>1, <1>24, <2>2
    <2> QED BY <2>4, <2>5, <2>6, <2>7 DEF IdsFit
  <1> QED BY <1>23, <1>25, <1>29

(* What the device stores and the plan knows stays when neither is touched. *)
LEMMA NothingChanges ==
  ASSUME UNCHANGED <<store, oids>>
  PROVE  /\ DeviceTree' = DeviceTree
         /\ StoreFits => StoreFits'
         /\ \A z : Current(z) => Current(z)'
         /\ \A z \in DOMAIN oids' : z \in DOMAIN oids /\ oids'[z] = oids[z]
  <1>1. \A o : PathOf(o)' = PathOf(o) BY DEF PathOf, Way
  <1>2. DeviceTree' = DeviceTree BY <1>1 DEF DeviceTree
  <1>3. StoreFits => StoreFits' BY <1>1 DEF StoreFits, OneObjectPerPath
  <1>4. \A z : OidOf(z)' = OidOf(z) BY DEF OidOf
  <1>5. \A z : Current(z) => Current(z)' BY <1>1, <1>4 DEF Current
  <1> QED BY <1>2, <1>3, <1>5

(* Planning: when it ends, every object of the plan is one of the listing, *)
(* and so is every object that the plan removes.                           *)
LEMMA PrepareStep ==
  ASSUME MtpInv, Prepare
  PROVE  PP!Next /\ StoreFits' /\ IdsFit'
  <1>1. /\ UNCHANGED <<store, oids>>
        /\ \/ \E b \in BookPaths :
                Paths!PlanCase7(b) \/ Paths!PlanCase6(b) \/ Paths!PlanCase3(b)
           \/ Paths!EndCase7 \/ Paths!EndCase6 \/ Paths!EndCase3
    BY Zenon DEF Prepare
  <1>2. \/ \E b \in BookPaths : PP!PlanCase7(b) \/ PP!PlanCase6(b) \/ PP!PlanCase3(b)
        \/ PP!EndCase7 \/ PP!EndCase6 \/ PP!EndCase3
    BY <1>1, SamePlanCase7, SamePlanCase6, SamePlanCase3, SameEndCase7, SameEndCase6,
       SameEndCase3, Zenon
  <1>3. PP!Next BY <1>2, Zenon DEF PP!Next
  <1>4. /\ DeviceTree' = DeviceTree /\ (StoreFits => StoreFits')
        /\ \A z : Current(z) => Current(z)'
        /\ \A z \in DOMAIN oids' : z \in DOMAIN oids /\ oids'[z] = oids[z]
    BY <1>1, NothingChanges
  <1>5. PP!Inv /\ PP!Ready /\ StoreFits /\ IdsFit BY DEF MtpInv
  <1>6. PP!Planning /\ next' = next
    BY <1>2 DEF PP!PlanCase7, PP!PlanCase6, PP!PlanCase3, PP!PlanBook, PP!PlanKeeps,
                PP!EndCase7, PP!EndCase6, PP!EndCase3, PP!Planning
  <1>7. (\A z \in DOMAIN oids : oids[z] \in AllIds \ {Root})' BY <1>4, <1>5 DEF IdsFit
  <1>8. \A z \in PP!Scan(DeviceTree) : Current(z) BY <1>5, <1>6 DEF IdsFit
  <1>9. (\A z \in PP!Scan(DeviceTree) : Current(z))' BY <1>4, <1>8 DEF PP!Scan
  <1>10. ASSUME (~PP!Planning)'
         PROVE  /\ (\A z \in plan.dst : z.id < next => Current(z))'
                /\ (\A i \in next..Len(plan.actions) :
                      plan.actions[i].on = "device" /\ plan.actions[i].op = "Remove" =>
                        Current(plan.actions[i].object))'
    <2>1. plan' = plan
      BY <1>2, <1>10 DEF PP!PlanCase7, PP!PlanCase6, PP!PlanCase3, PP!PlanBook,
                PP!EndCase7, PP!EndCase6, PP!EndCase3, PP!Planning
    <2>2. next = 1 BY <1>5, <1>6 DEF PP!Inv, PP!Types
    <2>3. PP!Found(plan) /\ PP!Sound(plan) BY <1>5, <1>6 DEF PP!Ready, PP!Fit
    <2>4. ASSUME NEW z \in plan.dst, z.id < 1 PROVE Current(z)'
      <3>1. z.id \in Nat BY <2>3 DEF PP!Sound, PP!Plans, PP!Objects
      <3>2. z.id = 0 BY <2>4, <3>1
      <3>3. z \in PP!Scan(DeviceTree) BY <2>3, <3>2 DEF PP!Found
      <3> QED BY <1>4, <1>8, <3>3
    <2>5. ASSUME NEW i \in 1..Len(plan.actions), plan.actions[i].on = "device",
                 plan.actions[i].op = "Remove"
          PROVE  Current(plan.actions[i].object)'
      <3>1. plan.actions[i].object \in PP!Scan(DeviceTree) BY <2>3, <2>5 DEF PP!Found
      <3>2. PICK z : z = plan.actions[i].object OBVIOUS
      <3>3. Current(z)' BY <1>4, <1>8, <3>1, <3>2
      <3>4. (plan.actions[i].object)' = z BY <2>1, <3>2
      <3> QED BY <3>3, <3>4 DEF Current, OidOf
    <2>6. (\A z \in plan.dst : z.id < next => Current(z))' BY <1>6, <2>1, <2>2, <2>4
    <2>7. (\A i \in next..Len(plan.actions) :
            plan.actions[i].on = "device" /\ plan.actions[i].op = "Remove" =>
              Current(plan.actions[i].object))'
      BY <1>6, <2>1, <2>2, <2>5
    <2> QED BY <2>6, <2>7
  <1>11. IdsFit' BY <1>7, <1>9, <1>10 DEF IdsFit
  <1> QED BY <1>3, <1>4, <1>5, <1>11

(* An action on the source leaves the device as it is. *)
LEMMA LocalStep ==
  ASSUME MtpInv, RunLocalAction
  PROVE  PP!RunAction /\ StoreFits' /\ IdsFit'
  <1> DEFINE acts == plan.actions
  <1>1. /\ phase = "run" /\ next <= Len(acts) /\ acts[next].on = "local"
        /\ UNCHANGED <<store, oids>> /\ PP!RunAction
    BY SameRunAction, Zenon DEF RunLocalAction, Action
  <1>2. /\ DeviceTree' = DeviceTree /\ (StoreFits => StoreFits')
        /\ \A z : Current(z) => Current(z)'
        /\ \A z \in DOMAIN oids' : z \in DOMAIN oids /\ oids'[z] = oids[z]
    BY <1>1, NothingChanges
  <1>3. PP!Inv /\ PP!Ready /\ StoreFits /\ IdsFit BY DEF MtpInv
  <1>4. /\ acts \in Seq(PP!Actions) /\ next \in 1..Len(acts) /\ PP!Works(acts[next])
    BY <1>1, <1>3, PathsAreFit, PP!NextActionFits
  <1>5. plan' = plan /\ next' = next + 1 /\ phase' = phase
    BY <1>1, <1>4 DEF PP!RunAction, PP!CarryOut
  <1>6. ~PP!Planning /\ (~PP!Planning)' BY <1>1, <1>5 DEF PP!Planning
  <1>7. PP!Tracked(acts, plan.dst) BY <1>3, <1>6 DEF PP!Ready, PP!Accounted
  <1>8. (\A z \in DOMAIN oids : oids[z] \in AllIds \ {Root})' BY <1>2, <1>3 DEF IdsFit
  <1>9. ASSUME NEW z \in plan.dst, z.id < next + 1 PROVE Current(z)'
    <2>1. z.id \in Nat /\ next \in Nat \ {0}
      BY <1>3 DEF PP!Inv, PP!PlanIsSound, PP!SoundFrom, PP!Plans, PP!Objects, PP!Types
    <2>2. z.id # next
      <3> SUFFICES ASSUME z.id = next PROVE FALSE OBVIOUS
      <3>1. PP!MadeBy(acts, next, z) BY <1>7, <2>1 DEF PP!Tracked
      <3> QED BY <1>1, <3>1 DEF PP!MadeBy
    <2>3. z.id < next BY <1>9, <2>1, <2>2
    <2>4. Current(z) BY <1>3, <1>6, <2>3 DEF IdsFit
    <2> QED BY <1>2, <2>4
  <1>10. ASSUME NEW i \in (next + 1)..Len(acts), acts[i].on = "device", acts[i].op = "Remove"
         PROVE  Current(acts[i].object)'
    <2>1. Len(acts) \in Nat BY <1>4, LenProperties
    <2>2. i \in next..Len(acts) BY <1>4, <2>1
    <2>3. Current(acts[i].object) BY <1>3, <1>6, <1>10, <2>2 DEF IdsFit
    <2>4. PICK z : z = acts[i].object OBVIOUS
    <2>5. Current(z)' BY <1>2, <2>3, <2>4
    <2>6. (acts[i].object)' = z BY <1>5, <2>4
    <2> QED BY <2>5, <2>6 DEF Current, OidOf
  <1>11. (\A z \in plan.dst : z.id < next => Current(z))' BY <1>5, <1>9
  <1>12. (\A i \in next..Len(plan.actions) :
            plan.actions[i].on = "device" /\ plan.actions[i].op = "Remove" =>
              Current(plan.actions[i].object))'
    BY <1>5, <1>10
  <1>13. IdsFit' BY <1>6, <1>8, <1>11, <1>12 DEF IdsFit
  <1> QED BY <1>1, <1>2, <1>3, <1>13

(* Neither do the end of the run and a step of somebody else.              *)
LEMMA QuietStep ==
  ASSUME MtpInv, UNCHANGED <<store, oids, plan, next>>, PP!Planning' = PP!Planning
  PROVE  StoreFits' /\ IdsFit'
  <1>1. /\ DeviceTree' = DeviceTree /\ (StoreFits => StoreFits')
        /\ \A z : Current(z) => Current(z)'
        /\ \A z \in DOMAIN oids' : z \in DOMAIN oids /\ oids'[z] = oids[z]
    BY NothingChanges
  <1>2. StoreFits /\ IdsFit BY DEF MtpInv
  <1>3. (\A z \in DOMAIN oids : oids[z] \in AllIds \ {Root})' BY <1>1, <1>2 DEF IdsFit
  <1>4. PP!Planning => (\A z \in PP!Scan(DeviceTree) : Current(z))'
    <2>1. PP!Planning => \A z \in PP!Scan(DeviceTree) : Current(z) BY <1>2 DEF IdsFit
    <2> QED BY <1>1, <2>1 DEF PP!Scan
  <1>5. ~PP!Planning =>
          /\ (\A z \in plan.dst : z.id < next => Current(z))'
          /\ (\A i \in next..Len(plan.actions) :
                plan.actions[i].on = "device" /\ plan.actions[i].op = "Remove" =>
                  Current(plan.actions[i].object))'
    <2> SUFFICES ASSUME ~PP!Planning
                 PROVE  /\ (\A z \in plan.dst : z.id < next => Current(z))'
                        /\ (\A i \in next..Len(plan.actions) :
                              plan.actions[i].on = "device" /\ plan.actions[i].op = "Remove" =>
                                Current(plan.actions[i].object))'
      OBVIOUS
    <2>1. (\A z \in plan.dst : z.id < next => Current(z))' BY <1>1, <1>2 DEF IdsFit
    <2>2. ASSUME NEW i \in next..Len(plan.actions), plan.actions[i].on = "device",
                 plan.actions[i].op = "Remove"
          PROVE  Current(plan.actions[i].object)'
      <3>1. PICK z : z = plan.actions[i].object OBVIOUS
      <3>2. Current(plan.actions[i].object) BY <1>2, <2>2 DEF IdsFit
      <3>3. Current(z)' BY <1>1, <3>1, <3>2
      <3>4. (plan.actions[i].object)' = z BY <3>1
      <3> QED BY <3>3, <3>4 DEF Current, OidOf
    <2>3. (\A i \in next..Len(plan.actions) :
            plan.actions[i].on = "device" /\ plan.actions[i].op = "Remove" =>
              Current(plan.actions[i].object))'
      BY <2>2
    <2> QED BY <2>1, <2>3
  <1>6. IdsFit' BY <1>3, <1>4, <1>5 DEF IdsFit
  <1> QED BY <1>1, <1>2, <1>6

(* Every step is one of PathPlan, and keeps the invariant. *)
LEMMA NextMtpInv ==
  ASSUME PP!OwnSideFiles, PP!StandardFolders, MtpInv, [Next]_vars
  PROVE  MtpInv' /\ [PP!Next]_PP!vars
  <1>1. [PP!Next]_PP!vars /\ StoreFits' /\ IdsFit'
    <2>1. CASE Prepare BY <2>1, PrepareStep
    <2>2. CASE MkDir
      <3>1. MakeObject("MkDir", TRUE) BY <2>2 DEF MkDir
      <3>2. PP!RunAction /\ StoreFits' /\ IdsFit' BY <3>1, MakeStep
      <3> QED BY <3>2 DEF PP!Next
    <2>3. CASE Copy
      <3> DEFINE sendable == Paths!File(Action.from) \in local \/ Len(Action.from) = 1
      <3>1. MakeObject("Copy", sendable) BY <2>3, Zenon DEF Copy
      <3>2. Action.op = "Copy" BY <3>1, Zenon DEF MakeObject, Execute
      <3>3. PP!Fits(local, DeviceTree, Action) => sendable
        <4>1. Paths!File(Action.from) = PP!File(Action.from) BY SameFile, Zenon
        <4> QED BY <3>2, <4>1 DEF PP!Fits
      <3> HIDE DEF sendable
      <3>4. PP!RunAction /\ StoreFits' /\ IdsFit' BY <3>1, <3>3, MakeStep
      <3> QED BY <3>4 DEF PP!Next
    <2>4. CASE Remove
      <3>1. PP!RunAction /\ StoreFits' /\ IdsFit' BY <2>4, RemoveStep
      <3> QED BY <3>1 DEF PP!Next
    <2>5. CASE RunLocalAction
      <3>1. PP!RunAction /\ StoreFits' /\ IdsFit' BY <2>5, LocalStep
      <3> QED BY <3>1 DEF PP!Next
    <2>6. CASE Finish
      <3>1. UNCHANGED <<store, oids>> /\ PP!Finish BY <2>6, SameFinish, Zenon DEF Finish
      <3>2. UNCHANGED <<plan, next>> /\ phase = "run" /\ phase' = "done"
        BY <3>1 DEF PP!Finish
      <3>3. PP!Planning' = PP!Planning BY <3>2 DEF PP!Planning
      <3>4. StoreFits' /\ IdsFit' BY <3>1, <3>2, <3>3, QuietStep
      <3> QED BY <3>1, <3>4 DEF PP!Next
    <2>7. CASE UNCHANGED vars
      <3>1. UNCHANGED <<store, oids, local, history, changed, thumbsOn, phase, todo,
                        localBooks, deviceBooks, plan, next>>
        BY <2>7 DEF vars
      <3>2. DeviceTree' = DeviceTree BY <3>1, NothingChanges
      <3>3. UNCHANGED PP!vars BY <3>1, <3>2 DEF PP!vars
      <3>4. PP!Planning' = PP!Planning BY <3>1 DEF PP!Planning
      <3>5. StoreFits' /\ IdsFit' BY <3>1, <3>4, QuietStep
      <3> QED BY <3>3, <3>5
    <2> QED BY <2>1, <2>2, <2>3, <2>4, <2>5, <2>6, <2>7 DEF Next
  <1>2. PP!Inv /\ PP!Ready BY DEF MtpInv
  <1>3. PP!Inv' BY <1>1, <1>2, PathsAreFit, PP!NextInv
  <1>4. PP!Ready' BY <1>1, <1>2, PathsAreFit, PP!NextReady
  <1> QED BY <1>1, <1>3, <1>4 DEF MtpInv

(***************************************************************************)
(* The first state: what is listed without errors is all that is there.    *)
(***************************************************************************)
(* What is on the way to a folder of interest, or in it, is of interest.   *)
LEMMA WayIsOfInterest ==
  ASSUME NEW r \in {Target, ThumbFolder}, NEW p \in PP!Path, p # << >>,
         p = r \/ PP!IsUnder(r, p) \/ PP!IsUnder(p, r)
  PROVE  OfInterest(p)
  <1>1. r \in PP!Path /\ r # << >> BY PathsAreFit, PP!ConstantsArePaths
  <1>2. DOMAIN r = 1..Len(r) /\ Len(r) \in Nat BY <1>1, LenProperties DEF PP!Path
  <1>3. \A i \in 1..Len(r) : StartsWith(r[i], r[i]) BY <1>2, PathsAreFit DEF PP!PathsFit
  <1>4. Len(p) \in Nat \ {0} /\ Len(r) \in Nat \ {0} BY <1>1, PathsAreFit, PP!ParentIs
  <1>5. CASE p = r \/ PP!IsUnder(r, p)
    <2>1. Len(p) \in 1..Len(r) /\ SubSeq(r, 1, Len(p)) = p
      BY <1>1, <1>4, <1>5, PathsAreFit, PP!Whole DEF PP!IsUnder
    <2>2. PP!HasPrefix(r, p) BY <1>1, <1>3, <2>1, PathsAreFit, PP!HasPrefixOfUp
    <2>3. Paths!HasPrefix(r, p) BY <2>2, SameHasPrefix
    <2> QED BY <2>3 DEF OfInterest
  <1>6. CASE PP!IsUnder(p, r)
    <2>1. Len(r) \in 1..Len(p) /\ Len(r) \in 0..Len(p) /\ SubSeq(p, 1, Len(r)) = r
      BY <1>4, <1>6 DEF PP!IsUnder
    <2>2. \A i \in 1..Len(r) : SubSeq(p, 1, Len(r))[i] = p[i]
      BY <2>1, PathsAreFit, PP!UpIs
    <2>3. p[Len(r)] = r[Len(r)] BY <1>4, <2>1, <2>2
    <2>4. StartsWith(p[Len(r)], p[Len(r)]) BY <1>3, <1>4, <2>3
    <2>5. PP!HasPrefix(p, r) BY <2>1, <2>4, PathsAreFit, PP!HasPrefixOfUp
    <2>6. Paths!HasPrefix(p, r) BY <2>5, SameHasPrefix
    <2> QED BY <2>6 DEF OfInterest
  <1> QED BY <1>5, <1>6

(* So is everything that a device begins with. *)
LEMMA DeviceIsOfInterest ==
  ASSUME NEW m \in PP!Mixes, NEW x \in PP!DeviceTree(m)
  PROVE  OfInterest(x.path)
  <1> DEFINE books == {Target \o p : p \in m.bookCopies \cup m.indexCopies \cup m.own}
             thumbs == {Append(ThumbFolder, t) : t \in m.thumbs}
  <1>1. /\ Target \in PP!Path /\ Target # << >> /\ ThumbFolder \in PP!Path
        /\ ThumbFolder # << >>
        /\ \A q \in PP!Files : q \in PP!Path /\ q # << >>
    BY PathsAreFit, PP!ConstantsArePaths
  <1>2. books \in SUBSET PP!Path /\ \A f \in books : PP!IsUnder(f, Target)
    <2>1. m.bookCopies \subseteq BookPaths /\ m.indexCopies \subseteq Indexes
          /\ m.own \subseteq DeviceOwn
      BY DEF PP!Mixes
    <2>2. ASSUME NEW q \in PP!Files
          PROVE  Target \o q \in PP!Path /\ PP!IsUnder(Target \o q, Target)
      BY <1>1, PathsAreFit, PP!ConcatIs, PP!UnderRoot
    <2> QED BY <2>1, <2>2 DEF PP!Files
  <1>3. thumbs \in SUBSET PP!Path /\ \A f \in thumbs : PP!IsUnder(f, ThumbFolder)
    <2>1. \A t \in m.thumbs : \E b \in BookPaths : t = ThumbOf[PP!Name(b)] BY DEF PP!Mixes
    <2>2. \A b \in BookPaths : Append(ThumbFolder, ThumbOf[PP!Name(b)]) = PP!ThumbPath(b)
      BY DEF PP!ThumbPath
    <2>3. \A f \in thumbs : \E b \in BookPaths : f = PP!ThumbPath(b) BY <2>1, <2>2
    <2> QED BY <2>3, PathsAreFit, PP!ThumbPathIs
  <1>4. PP!DeviceTree(m) = {PP!Dir(p) : p \in Stock}
          \cup (IF books = {} THEN {} ELSE PP!Tree(Target, books))
          \cup (IF m.folder THEN PP!Tree(ThumbFolder, thumbs) ELSE {})
    BY DEF PP!DeviceTree
  <1> HIDE DEF books, thumbs
  <1>5. CASE x \in {PP!Dir(p) : p \in Stock}
    <2>1. x.path \in Stock BY <1>5 DEF PP!Dir
    <2> QED BY <2>1, StockAssumption
  <1>6. ASSUME NEW r \in {Target, ThumbFolder}, NEW files \in SUBSET PP!Path,
               \A f \in files : PP!IsUnder(f, r), x \in PP!Tree(r, files)
        PROVE  OfInterest(x.path)
    <2>1. r \in PP!Path /\ r # << >> BY <1>1
    <2>2. /\ x.path \in PP!Path /\ x.path # << >>
          /\ \/ x.path \in files
             \/ x.path = r \/ PP!IsUnder(r, x.path)
             \/ \E f \in files : PP!IsUnder(f, x.path)
      BY <1>6, <2>1, PathsAreFit, PP!TreeIs
    <2>3. x.path = r \/ PP!IsUnder(r, x.path) \/ PP!IsUnder(x.path, r)
      <3>1. CASE \E f \in files : PP!IsUnder(f, x.path)
        <4>1. PICK f \in files : PP!IsUnder(f, x.path) BY <3>1
        <4> QED BY <1>6, <2>1, <2>2, <4>1, PathsAreFit, PP!AboveOne
      <3> QED BY <1>6, <2>2, <3>1
    <2> QED BY <2>2, <2>3, WayIsOfInterest
  <1>7. CASE books # {} /\ x \in PP!Tree(Target, books) BY <1>2, <1>6, <1>7
  <1>8. CASE m.folder /\ x \in PP!Tree(ThumbFolder, thumbs) BY <1>3, <1>6, <1>8
  <1> QED BY <1>4, <1>5, <1>7, <1>8

(* The store for a tree has the path of an object as its id, and the ways  *)
(* that these tell.                                                        *)
LEMMA StoreOfTree ==
  ASSUME NEW tree, PP!Standing(tree),
         \A x \in tree : \A n \in 1..(Len(x.path) - 1) : PP!Dir(SubSeq(x.path, 1, n)) \in tree,
         NEW objects, objects = StoreOf(tree)
  PROVE  /\ Rooted(objects, Ways(objects))
         /\ \A o \in objects : /\ Names(Ways(objects)[o.oid]) = o.oid
                               /\ [path |-> o.oid, dir |-> o.dir] \in tree
                               /\ o.parent = Root
                                  \/ \E x \in objects : x.oid = o.parent /\ x.dir
         /\ \A x \in tree : \E o \in objects : o.oid = x.path /\ o.dir = x.dir
  <1> DEFINE thing(x) == [oid |-> x.path, parent |-> PP!Parent(x.path),
                          name |-> PP!Name(x.path), dir |-> x.dir]
  <1>1. objects = {thing(x) : x \in tree}
    BY SameParent, SameName, Zenon DEF StoreOf
  <1>2. /\ \A x \in tree : /\ x = [path |-> x.path, dir |-> x.dir] /\ x.dir \in BOOLEAN
                           /\ x.path \in PP!Path /\ x.path # << >>
        /\ \A x, y \in tree : x.path = y.path => x = y
        /\ \A x \in tree : PP!Parent(x.path) = << >> \/ PP!Dir(PP!Parent(x.path)) \in tree
    BY DEF PP!Standing, PP!HasParent
  <1>3. \A x \in tree : /\ Len(x.path) \in Nat \ {0} /\ PP!Parent(x.path) \in PP!Path
                        /\ Len(PP!Parent(x.path)) = Len(x.path) - 1
                        /\ PP!Name(x.path) \in STRING
    BY <1>2, PathsAreFit, PP!ParentIs
  <1>4. \A o \in objects : /\ o.oid \in PP!Path /\ o.oid # << >> /\ o.dir \in BOOLEAN
                           /\ [path |-> o.oid, dir |-> o.dir] \in tree
                           /\ o.parent = PP!Parent(o.oid) /\ o.name = PP!Name(o.oid)
                           /\ o = thing([path |-> o.oid, dir |-> o.dir])
    BY <1>1, <1>2
  <1>5. \A x \in tree : thing(x) \in objects BY <1>1
  <1>6. objects \subseteq Things
    <2> SUFFICES ASSUME NEW o \in objects PROVE o \in Things OBVIOUS
    <2>1. PICK x \in tree : o = thing(x) BY <1>1
    <2>2. x.path \in AllIds /\ PP!Parent(x.path) \in AllIds BY <1>2, <1>3 DEF AllIds
    <2> QED BY <1>2, <1>3, <2>1, <2>2 DEF Things
  <1>7. \A o, x \in objects : o.oid = x.oid => o = x
    <2> SUFFICES ASSUME NEW o \in objects, NEW x \in objects, o.oid = x.oid PROVE o = x
      OBVIOUS
    <2>1. PICK a \in tree : o = thing(a) BY <1>1
    <2>2. PICK b \in tree : x = thing(b) BY <1>1
    <2>3. a.path = b.path BY <2>1, <2>2
    <2>4. a = b BY <1>2, <2>3
    <2> QED BY <2>1, <2>2, <2>4
  <1> DEFINE at(q) == CHOOSE o \in objects : o.oid = q
             w == [id \in Ids(objects) |-> [i \in 1..Len(id) |-> at(SubSeq(id, 1, i))]]
  <1>8. \A o \in objects : at(o.oid) = o BY <1>7
  <1>9. \A x \in tree : at(x.path) \in objects /\ at(x.path).oid = x.path
    <2> TAKE x \in tree
    <2>1. PICK o : o = thing(x) OBVIOUS
    <2>2. o \in objects /\ o.oid = x.path BY <1>5, <2>1
    <2>3. at(o.oid) = o BY <1>8, <2>2
    <2> QED BY <2>2, <2>3
  <1>10. ASSUME NEW id \in Ids(objects)
         PROVE  /\ id \in PP!Path /\ Len(id) \in Nat
                /\ \A i \in 1..Len(id) : /\ at(SubSeq(id, 1, i)) \in objects
                                         /\ at(SubSeq(id, 1, i)).oid = SubSeq(id, 1, i)
    <2>1. CASE id = Root
      BY <2>1, EmptySeq DEF Root, PP!Path
    <2>2. CASE id # Root
      <3>1. PICK o \in objects : id = o.oid BY <2>2 DEF Ids
      <3>2. PICK x \in tree : x.path = id /\ o = thing(x) BY <1>1, <3>1
      <3>3. id \in PP!Path /\ Len(id) \in Nat \ {0} BY <1>2, <1>3, <3>2
      <3>4. ASSUME NEW i \in 1..Len(id)
            PROVE  \E y \in tree : y.path = SubSeq(id, 1, i)
        <4>1. CASE i = Len(id)
          <5>1. SubSeq(id, 1, i) = id BY <3>3, <4>1, PathsAreFit, PP!Whole
          <5> QED BY <3>2, <5>1
        <4>2. CASE i # Len(id)
          <5>1. i \in 1..(Len(x.path) - 1) BY <3>2, <3>3, <4>2
          <5>2. PP!Dir(SubSeq(id, 1, i)) \in tree BY <3>2, <5>1
          <5> QED BY <5>2 DEF PP!Dir
        <4> QED BY <4>1, <4>2
      <3> HIDE DEF at
      <3> QED BY <1>9, <3>3, <3>4
    <2> QED BY <2>1, <2>2
  <1> HIDE DEF at
  <1>11. \A id \in Ids(objects) : w[id] = [i \in 1..Len(id) |-> at(SubSeq(id, 1, i))]
    OBVIOUS
  <1>12. \A id \in Ids(objects) : /\ w[id] \in Seq(Things) /\ Len(w[id]) = Len(id)
                                  /\ \A i \in 1..Len(id) : w[id][i] = at(SubSeq(id, 1, i))
    <2> SUFFICES ASSUME NEW id \in Ids(objects)
                 PROVE  /\ w[id] \in Seq(Things) /\ Len(w[id]) = Len(id)
                        /\ \A i \in 1..Len(id) : w[id][i] = at(SubSeq(id, 1, i))
      BY Zenon
    <2>1. \A i \in 1..Len(id) : at(SubSeq(id, 1, i)) \in Things BY <1>6, <1>10
    <2>2. Len(id) \in Nat BY <1>10
    <2>3. w[id] = [i \in 1..Len(id) |-> at(SubSeq(id, 1, i))] BY <1>11
    <2> HIDE DEF w
    <2>4. w[id] \in [1..Len(id) -> Things] BY <2>1, <2>3
    <2> QED BY <2>2, <2>3, <2>4
  <1>13. w \in [Ids(objects) -> Seq(Things)]
    <2>1. w = [id \in Ids(objects) |-> w[id]] OBVIOUS
    <2> HIDE DEF w
    <2> QED BY <1>12, <2>1
  <1> HIDE DEF w
  <1>14. Root \in Ids(objects) /\ \A o \in objects : o.oid \in Ids(objects) BY IdsAre
  <1>15. w[Root] = << >>
    <2>1. w[Root] \in Seq(Things) /\ Len(w[Root]) = 0 BY <1>12, <1>14 DEF Root
    <2> QED BY <2>1, EmptySeq
  <1>16. ASSUME NEW o \in objects
         PROVE  o.parent = Root \/ \E x \in objects : x.oid = o.parent /\ x.dir
    <2>1. PICK y \in tree : o = thing(y) BY <1>1
    <2>2. CASE PP!Parent(y.path) = << >> BY <2>1, <2>2 DEF Root
    <2>3. CASE PP!Dir(PP!Parent(y.path)) \in tree
      <3>1. thing(PP!Dir(PP!Parent(y.path))) \in objects BY <1>5, <2>3
      <3>2. /\ thing(PP!Dir(PP!Parent(y.path))).oid = PP!Parent(y.path)
            /\ thing(PP!Dir(PP!Parent(y.path))).dir
        BY DEF PP!Dir
      <3> QED BY <2>1, <3>1, <3>2
    <2> QED BY <1>2, <2>2, <2>3
  <1>17. ASSUME NEW o \in objects
         PROVE  /\ o.oid # Root /\ o.parent \in Ids(objects)
                /\ w[o.oid] = Append(w[o.parent], o)
    <2>1. o.oid # Root /\ o.parent \in Ids(objects) BY <1>4, <1>14, <1>16 DEF Root
    <2> DEFINE p == o.oid
               s == w[o.parent]
    <2>2. p \in PP!Path /\ Len(p) \in Nat \ {0} /\ o.parent = PP!Parent(p)
          /\ Len(o.parent) = Len(p) - 1
      BY <1>4, PathsAreFit, PP!ParentIs
    <2>3. s \in Seq(Things) /\ Len(s) = Len(p) - 1
          /\ \A i \in 1..(Len(p) - 1) : s[i] = at(SubSeq(o.parent, 1, i))
      BY <1>12, <2>1, <2>2
    <2>4. \A i \in 1..(Len(p) - 1) : SubSeq(o.parent, 1, i) = SubSeq(p, 1, i)
      <3> TAKE i \in 1..(Len(p) - 1)
      <3>1. Len(p) - 1 \in 0..Len(p) /\ i \in 0..(Len(p) - 1) BY <2>2
      <3>2. SubSeq(SubSeq(p, 1, Len(p) - 1), 1, i) = SubSeq(p, 1, i)
        BY <2>2, <3>1, PathsAreFit, PP!UpOfUp
      <3> QED BY <2>2, <3>2 DEF PP!Parent
    <2>5. at(SubSeq(p, 1, Len(p))) = o
      <3>1. SubSeq(p, 1, Len(p)) = p BY <2>2, PathsAreFit, PP!Whole
      <3> QED BY <1>8, <3>1
    <2>6. o \in Things BY <1>6
    <2>7. w[p] \in Seq(Things) /\ Len(w[p]) = Len(p)
          /\ \A i \in 1..Len(p) : w[p][i] = at(SubSeq(p, 1, i))
      BY <1>12, <1>14
    <2> HIDE DEF p, s
    <2>8. (\A i \in 1..Len(s) : Append(s, o)[i] = s[i]) /\ Append(s, o)[Len(s) + 1] = o
      BY <2>3, <2>6, AppendPlaces
    <2>9. Append(s, o) \in Seq(Things) /\ Len(Append(s, o)) = Len(p)
      BY <2>2, <2>3, <2>6, AppendProperties
    <2>10. \A i \in 1..Len(p) : w[p][i] = Append(s, o)[i]
      <3> TAKE i \in 1..Len(p)
      <3>1. CASE i = Len(p) BY <2>2, <2>3, <2>5, <2>7, <2>8, <3>1
      <3>2. CASE i # Len(p)
        <4>1. i \in 1..(Len(p) - 1) BY <2>2, <3>2
        <4> QED BY <2>3, <2>4, <2>7, <2>8, <4>1
      <3> QED BY <3>1, <3>2
    <2>11. w[p] = Append(s, o) BY <2>7, <2>9, <2>10, SeqEqual
    <2> QED BY <2>1, <2>11 DEF p, s
  <1>18. Rooted(objects, w) BY <1>6, <1>7, <1>13, <1>15, <1>17 DEF Rooted
  <1>19. Ways(objects) = w BY <1>18, WaysAre
  <1>20. ASSUME NEW o \in objects PROVE Names(w[o.oid]) = o.oid
    <2> DEFINE p == o.oid
    <2>1. p \in PP!Path /\ p \in Ids(objects) BY <1>4, <1>14
    <2>2. w[p] \in Seq(Things) /\ Len(w[p]) = Len(p)
          /\ \A i \in 1..Len(p) : w[p][i] = at(SubSeq(p, 1, i))
      BY <1>12, <2>1
    <2>3. \A i \in 1..Len(p) : /\ at(SubSeq(p, 1, i)) \in objects
                               /\ at(SubSeq(p, 1, i)).oid = SubSeq(p, 1, i)
      BY <1>10, <2>1
    <2>4. \A i \in 1..Len(p) : PP!Name(SubSeq(p, 1, i)) = p[i]
      <3> TAKE i \in 1..Len(p)
      <3>1. Len(p) \in Nat BY <1>10, <2>1
      <3>2. i \in 0..Len(p) /\ i \in 1..i BY <3>1
      <3>3. Len(SubSeq(p, 1, i)) = i /\ \A k \in 1..i : SubSeq(p, 1, i)[k] = p[k]
        BY <2>1, <3>2, PathsAreFit, PP!UpIs
      <3> QED BY <3>2, <3>3 DEF PP!Name
    <2> HIDE DEF p
    <2>5. \A i \in 1..Len(p) : w[p][i].name = p[i]
      <3> TAKE i \in 1..Len(p)
      <3>1. w[p][i] = at(SubSeq(p, 1, i)) BY <2>2
      <3> HIDE DEF at
      <3>2. w[p][i] \in objects /\ w[p][i].oid = SubSeq(p, 1, i) BY <2>3, <3>1
      <3>3. w[p][i].name = PP!Name(SubSeq(p, 1, i)) BY <1>4, <3>2
      <3> QED BY <2>4, <3>3
    <2>6. Names(w[p]) \in PP!Path /\ Len(Names(w[p])) = Len(p)
          /\ \A i \in 1..Len(p) : Names(w[p])[i] = p[i]
      BY <2>2, <2>5, NamesAre
    <2>7. Names(w[p]) = p BY <2>1, <2>6, PathsAreFit, PP!SamePath
    <2> QED BY <2>7 DEF p
  <1>21. \A x \in tree : \E o \in objects : o.oid = x.path /\ o.dir = x.dir
    <2> SUFFICES ASSUME NEW x \in tree PROVE \E o \in objects : o.oid = x.path /\ o.dir = x.dir
      OBVIOUS
    <2>1. thing(x) \in objects BY <1>5
    <2>2. thing(x).oid = x.path /\ thing(x).dir = x.dir OBVIOUS
    <2> QED BY <2>1, <2>2
  <1> QED BY <1>4, <1>16, <1>18, <1>19, <1>20, <1>21

(* Without errors the listing has every object, under its path. *)
LEMMA AllIsListed ==
  ASSUME NEW unread \in Unread, NEW nameless \in Nameless, ~ListingsFail, ~NamesFail,
         \A o \in store : OfInterest(PathOf(o)),
         OneObjectPerPath,
         NEW kept \in Indexed(Listed(unread, nameless))
  PROVE  kept = {[path |-> PathOf(o), object |-> o] : o \in store}
  <1> DEFINE all == {[path |-> PathOf(o), object |-> o] : o \in store}
  <1>1. unread = {} /\ nameless = {} BY DEF Unread, Nameless
  <1>2. {o \in store : Reached(o, unread)} = store BY <1>1, Zenon DEF Reached
  <1>3. {[path |-> ListedPath(o, nameless), object |-> o] : o \in store} = all
    BY <1>1, Zenon DEF ListedPath
  <1>4. \A e \in all : OfInterest(e.path) OBVIOUS
  <1> HIDE DEF all
  <1>5. Listed(unread, nameless) = all
    <2>1. Listed(unread, nameless) = {e \in all : OfInterest(e.path)}
      BY <1>2, <1>3, Zenon DEF Listed, Entries
    <2> QED BY <1>4, <2>1
  <1>6. \A e, x \in all : e.path = x.path => e = x
    <2> SUFFICES ASSUME NEW e \in all, NEW x \in all, e.path = x.path PROVE e = x OBVIOUS
    <2>1. PICK o \in store : e = [path |-> PathOf(o), object |-> o] BY DEF all
    <2>2. PICK y \in store : x = [path |-> PathOf(y), object |-> y] BY DEF all
    <2>3. PathOf(o) = PathOf(y) BY <2>1, <2>2
    <2>4. o = y BY <2>3 DEF OneObjectPerPath
    <2> QED BY <2>1, <2>2, <2>4
  <1>7. {e \in all : {x \in all \ {e} : x.path = e.path} # {}} = {}
    BY <1>6
  <1>8. kept \in {all \ lost : lost \in SUBSET {e \in all : {x \in all \ {e} : x.path = e.path} # {}}}
    BY <1>5, Zenon DEF Indexed
  <1>9. kept = all BY <1>7, <1>8
  <1> QED BY <1>9 DEF all

(* A run without errors while listing begins like one of PathPlan, with    *)
(* the id of every object it has listed.                                   *)
LEMMA InitMtpInv ==
  ASSUME PP!StandardFolders, ~ListingsFail, ~NamesFail, Init
  PROVE  PP!Init /\ MtpInv
  <1>1. PICK m \in Paths!Mixes :
          /\ local = Paths!LocalTree(m)
          /\ store = StoreOf(Paths!DeviceTree(m))
          /\ history \in SUBSET BookPaths
          /\ changed \in SUBSET (m.books \cap history)
          /\ \E unread \in Unread, nameless \in Nameless :
               \E kept \in Indexed(Listed(unread, nameless)) :
                  /\ Paths!Begin(Paths!Scan(local), Infos(kept))
                  /\ oids = OidsOf(kept)
    BY Zenon DEF Init
  <1>2. PICK unread \in Unread, nameless \in Nameless :
          \E kept \in Indexed(Listed(unread, nameless)) :
             /\ Paths!Begin(Paths!Scan(local), Infos(kept))
             /\ oids = OidsOf(kept)
    BY <1>1, Zenon
  <1>3. PICK kept \in Indexed(Listed(unread, nameless)) :
          /\ Paths!Begin(Paths!Scan(local), Infos(kept))
          /\ oids = OidsOf(kept)
    BY <1>2, Zenon
  <1>4. m \in PP!Mixes /\ local = PP!LocalTree(m) BY <1>1, SameMixes, SameLocalTree
  <1>5. PICK tree : tree = PP!DeviceTree(m) OBVIOUS
  <1>6. store = StoreOf(tree) BY <1>1, <1>5, SameDeviceTree
  <1>7. PP!Standing(tree) BY <1>4, <1>5, PathsAreFit, PP!DeviceStands
  <1>8. \A x \in tree : \A n \in 1..(Len(x.path) - 1) : PP!Dir(SubSeq(x.path, 1, n)) \in tree
    BY <1>4, <1>5, PathsAreFit, PP!DeviceIsClosed
  <1>9. \A x \in tree : OfInterest(x.path) BY <1>4, <1>5, DeviceIsOfInterest
  <1>10. /\ Rooted(store, Ways(store))
         /\ \A o \in store : /\ Names(Ways(store)[o.oid]) = o.oid
                             /\ [path |-> o.oid, dir |-> o.dir] \in tree
                             /\ o.parent = Root \/ \E x \in store : x.oid = o.parent /\ x.dir
         /\ \A x \in tree : \E o \in store : o.oid = x.path /\ o.dir = x.dir
    BY <1>6, <1>7, <1>8, StoreOfTree
  <1>11. \A o \in store : PathOf(o) = o.oid BY <1>10 DEF PathOf, Way
  <1>12. \A x, y \in store : x.oid = y.oid => x = y BY <1>10 DEF Rooted
  <1>13. OneObjectPerPath BY <1>11, <1>12 DEF OneObjectPerPath
  <1>14. StoreFits BY <1>10, <1>13 DEF StoreFits
  <1>15. \A x \in tree : x = [path |-> x.path, dir |-> x.dir] BY <1>7 DEF PP!Standing
  <1>16. DeviceTree = tree
    <2>1. ASSUME NEW z \in DeviceTree PROVE z \in tree
      <3>1. PICK o \in store : z = [path |-> PathOf(o), dir |-> o.dir] BY DEF DeviceTree
      <3> QED BY <1>10, <1>11, <3>1
    <2>2. ASSUME NEW x \in tree PROVE x \in DeviceTree
      <3>1. PICK o \in store : o.oid = x.path /\ o.dir = x.dir BY <1>10
      <3>2. x = [path |-> PathOf(o), dir |-> o.dir] BY <1>11, <1>15, <3>1
      <3> QED BY <3>2 DEF DeviceTree
    <2> QED BY <2>1, <2>2
  <1>17. \A o \in store : OfInterest(PathOf(o))
    <2> SUFFICES ASSUME NEW o \in store PROVE OfInterest(o.oid) BY <1>11
    <2> DEFINE x == [path |-> o.oid, dir |-> o.dir]
    <2>1. x \in tree BY <1>10
    <2>2. x.path = o.oid OBVIOUS
    <2> HIDE DEF x
    <2> QED BY <1>9, <2>1, <2>2
  <1>18. kept = {[path |-> PathOf(o), object |-> o] : o \in store}
    BY <1>13, <1>17, AllIsListed
  <1>19. Infos(kept) = PP!Scan(DeviceTree)
    <2> DEFINE info(o) == [path |-> PathOf(o), dir |-> o.dir, id |-> 0]
    <2>1. ASSUME NEW z \in Infos(kept) PROVE z \in PP!Scan(DeviceTree)
      <3>1. PICK e \in kept : z = [path |-> e.path, dir |-> e.object.dir, id |-> 0]
        BY DEF Infos
      <3>2. PICK o \in store : e = [path |-> PathOf(o), object |-> o] BY <1>18
      <3>3. z = info(o) BY <3>1, <3>2
      <3> DEFINE x == [path |-> PathOf(o), dir |-> o.dir]
      <3>4. x \in DeviceTree BY DEF DeviceTree
      <3>5. z = [path |-> x.path, dir |-> x.dir, id |-> 0] BY <3>3
      <3> HIDE DEF x
      <3> QED BY <3>4, <3>5 DEF PP!Scan
    <2>2. ASSUME NEW z \in PP!Scan(DeviceTree) PROVE z \in Infos(kept)
      <3>1. PICK x \in DeviceTree : z = [path |-> x.path, dir |-> x.dir, id |-> 0]
        BY DEF PP!Scan
      <3>2. PICK o \in store : x = [path |-> PathOf(o), dir |-> o.dir] BY DEF DeviceTree
      <3> DEFINE e == [path |-> PathOf(o), object |-> o]
      <3>3. e \in kept BY <1>18
      <3>4. z = [path |-> e.path, dir |-> e.object.dir, id |-> 0] BY <3>1, <3>2
      <3> HIDE DEF e
      <3> QED BY <3>3, <3>4 DEF Infos
    <2> QED BY <2>1, <2>2
  <1>20. PP!Begin(PP!Scan(local), PP!Scan(DeviceTree))
    BY <1>3, <1>19, SameScan, SameBegin, Zenon
  <1>21. PP!Init BY <1>1, <1>4, <1>5, <1>16, <1>20, Zenon DEF PP!Init
  <1>22. PP!Inv BY <1>21, PathsAreFit, PP!InitInv
  <1>23. PP!Ready BY <1>21, PathsAreFit, PP!InitReady
  <1>24. PP!Planning BY <1>20 DEF PP!Begin, PP!Planning
  <1>25. \A z \in Infos(kept) : \E o \in store :
           oids[z] = o.oid /\ PathOf(o) = z.path /\ o.dir = z.dir
    <2> SUFFICES ASSUME NEW z \in Infos(kept)
                 PROVE  \E o \in store : oids[z] = o.oid /\ PathOf(o) = z.path /\ o.dir = z.dir
      OBVIOUS
    <2>1. PICK e \in kept : z = [path |-> e.path, dir |-> e.object.dir, id |-> 0]
      BY DEF Infos
    <2>2. PICK o \in store : e = [path |-> PathOf(o), object |-> o] BY <1>18
    <2> DEFINE chosen == CHOOSE x \in kept : x.path = z.path
    <2>3. chosen \in kept /\ chosen.path = z.path
      <3>1. e.path = z.path BY <2>1
      <3> QED BY <3>1
    <2> HIDE DEF chosen
    <2>4. PICK y \in store : chosen = [path |-> PathOf(y), object |-> y] BY <1>18, <2>3
    <2>5. PathOf(y) = PathOf(o) BY <2>1, <2>2, <2>3, <2>4
    <2>6. y = o BY <1>13, <2>5 DEF OneObjectPerPath
    <2>7. oids[z] = chosen.object.oid
      <3>1. oids = [i \in Infos(kept) |-> (CHOOSE x \in kept : x.path = i.path).object.oid]
        BY <1>3, Zenon DEF OidsOf
      <3> QED BY <3>1 DEF chosen
    <2>8. oids[z] = o.oid BY <2>4, <2>6, <2>7
    <2> QED BY <2>1, <2>2, <2>8
  <1>26. DOMAIN oids = Infos(kept) BY <1>3, Zenon DEF OidsOf
  <1>27. \A z \in DOMAIN oids : oids[z] \in AllIds \ {Root}
    <2>1. \A o \in store : o.oid \in AllIds \ {Root} BY <1>10 DEF Rooted, Things
    <2> QED BY <1>25, <1>26, <2>1
  <1>28. \A z \in PP!Scan(DeviceTree) : Current(z)
    <2> SUFFICES ASSUME NEW z \in Infos(kept) PROVE Current(z) BY <1>19
    <2>1. OidOf(z) = oids[z] BY <1>26 DEF OidOf
    <2> QED BY <1>25, <2>1 DEF Current
  <1>29. IdsFit BY <1>24, <1>27, <1>28 DEF IdsFit
  <1> QED BY <1>14, <1>21, <1>22, <1>23, <1>29 DEF MtpInv

(***************************************************************************)
(* What holds, without errors while listing, when no two books have the    *)
(* same side files and the folders are as they should be.                  *)
(***************************************************************************)
(* MtpInv is an invariant. *)
LEMMA MtpInvariance ==
  ASSUME PP!OwnSideFiles, PP!StandardFolders, ~ListingsFail, ~NamesFail
  PROVE  Spec => []MtpInv /\ PP!Init /\ [][PP!Next]_PP!vars
  <1>1. Init => PP!Init /\ MtpInv BY InitMtpInv
  <1>2. MtpInv /\ [Next]_vars => MtpInv' /\ [PP!Next]_PP!vars BY NextMtpInv
  <1> QED BY <1>1, <1>2, PTL DEF Spec

(* No two objects come to lie under one path: what has the name of a copy  *)
(* is deleted before (makeCopyActions, prevObj).                           *)
THEOREM NoTwins ==
  ASSUME PP!OwnSideFiles, PP!StandardFolders, ~ListingsFail, ~NamesFail
  PROVE  Spec => []OneObjectPerPath
  <1>1. MtpInv => OneObjectPerPath BY DEF MtpInv, StoreFits
  <1> QED BY <1>1, MtpInvariance, PTL

(* Whatever an action of the plan meets by id is what it was planned for:  *)
(* the Oid fields are those of the objects under the planned paths.        *)
THEOREM NoStaleIds ==
  ASSUME PP!OwnSideFiles, PP!StandardFolders, ~ListingsFail, ~NamesFail
  PROVE  Spec => []IdsAreCurrent
  <1>1. MtpInv => IdsAreCurrent
    <2> SUFFICES ASSUME MtpInv, NEW o \in plan.dst, o.id < next, phase \in {"run", "done"}
                 PROVE  \E x \in store : x.oid = OidOf(o) /\ PathOf(x) = o.path /\ x.dir = o.dir
      BY DEF IdsAreCurrent
    <2>1. ~PP!Planning BY DEF PP!Planning
    <2>2. Current(o) BY <2>1 DEF MtpInv, IdsFit
    <2> QED BY <2>2 DEF Current
  <1> QED BY <1>1, MtpInvariance, PTL

(* Ids stay unique, and every object stays in a directory of the device.   *)
THEOREM ObjectsAreATree ==
  ASSUME PP!OwnSideFiles, PP!StandardFolders, ~ListingsFail, ~NamesFail
  PROVE  Spec => []TypeOK
  <1>1. MtpInv => TypeOK
    <2> SUFFICES ASSUME MtpInv PROVE TypeOK OBVIOUS
    <2>1. phase \in {"case7", "case6", "case3", "run", "done", "failed"}
      BY DEF MtpInv, PP!Inv, PP!Types
    <2>2. \A o, x \in store : o.oid = x.oid => o = x BY DEF MtpInv, StoreFits, Rooted
    <2> QED BY <2>1, <2>2 DEF TypeOK, MtpInv, StoreFits
  <1> QED BY <1>1, MtpInvariance, PTL

(* The drivers do by ids what the planner means by paths.                  *)
THEOREM DriversFollowThePlan ==
  ASSUME PP!OwnSideFiles, PP!StandardFolders, ~ListingsFail, ~NamesFail
  PROVE  Spec => ImplementsPathPlan
  <1>1. PP!Init => Paths!Init BY SameInit
  <1>2. [PP!Next]_PP!vars => [Paths!Next]_Paths!vars
    BY SameNext, Zenon DEF PP!vars, Paths!vars
  <1> QED BY <1>1, <1>2, MtpInvariance, PTL DEF ImplementsPathPlan, Paths!Spec

(* A book goes from the source only when it is not on the device: what is  *)
(* planned for one book never changes what the next one is judged by, and  *)
(* nothing comes to the device under its path before it is dropped.        *)
THEOREM OnlyAbsentBooksGo ==
  ASSUME PP!OwnSideFiles, PP!StandardFolders, ~ListingsFail, ~NamesFail
  PROVE  Spec => OnlyAbsentBooksAreDropped
  <1>1. Init => MtpInv /\ PP!DropsAreAbsent
    BY InitMtpInv, PathsAreFit, PP!InitDropsAreAbsent
  <1>2. MtpInv /\ PP!DropsAreAbsent /\ [Next]_vars => MtpInv' /\ PP!DropsAreAbsent'
    BY NextMtpInv, PathsAreFit, PP!NextDropsAreAbsent DEF MtpInv
  <1>3. MtpInv /\ PP!DropsAreAbsent /\ [Next]_vars =>
          [\A b \in BookPaths :
             Paths!File(Source \o b) \in local \ local' =>
               Paths!File(Target \o b) \notin DeviceTree]_vars
    <2> SUFFICES ASSUME MtpInv, PP!DropsAreAbsent, [Next]_vars, NEW b \in BookPaths,
                        Paths!File(Source \o b) \in local \ local'
                 PROVE  Paths!File(Target \o b) \notin DeviceTree
      OBVIOUS
    <2>1. PP!File(Source \o b) \in local \ local' BY SameFile
    <2>2. [PP!Next]_PP!vars BY NextMtpInv
    <2>3. PP!Inv BY DEF MtpInv
    <2>4. PP!File(Target \o b) \notin DeviceTree
      BY <2>1, <2>2, <2>3, PathsAreFit, PP!DroppedIsAbsent
    <2> QED BY <2>4, SameFile
  <1> QED BY <1>1, <1>2, <1>3, PTL DEF Spec, OnlyAbsentBooksAreDropped
=============================================================================
