------------------------------ MODULE PathPlan ------------------------------
(***************************************************************************)
(* One run of s2k on directories: PrepareActions of sync/prepare.go with   *)
(* the page indexes, the thumbnails and the directories that go with a     *)
(* book, and the plan carried out on the file systems by files/device.go.  *)
(*                                                                         *)
(* The books of a case are planned in any order, which is how Go ranges    *)
(* over a map, and each one changes the object sets that the next one is   *)
(* planned with.  Nobody else touches the files: what goes wrong here goes *)
(* wrong by itself.                                                        *)
(***************************************************************************)
EXTENDS ObjectSets

CONSTANTS
  Source, Target, ThumbFolder,  \* the three roots, as paths
  BookPaths,    \* books, relative to Source and to Target
  Indexes,      \* page indexes that may exist, relative as well
  IndexOf,      \* IndexOf[n]: the name of the page index of a book named n
  SdrOf,        \* SdrOf[n]: the name of its .sdr directory
  ThumbOf,      \* ThumbOf[n]: the name of its thumbnail, or NoThumb
  NoThumb,
  DeviceOwn,    \* other files of the device under Target
  Stock,        \* directories that every device has, as paths
  Mounted       \* TRUE for USBMS, FALSE for MTP

VARIABLES
  local, device,  \* the file systems: sets of [path, dir]
  history,        \* books in the history
  changed,        \* local books in the history with another hash
  thumbsOn,       \* the device has a folder for thumbnails
  phase,          \* "case7", "case6", "case3", "run", "done" or "failed"
  todo,           \* books of the case that are still to be planned
  localBooks, deviceBooks,
  plan,           \* [actions, src, dst, thumbs]: the plan, srcOIS, dstOIS
                  \* and deviceThumbs, a set of [key, object]
  next            \* the next action to carry out

vars == <<local, device, history, changed, thumbsOn, phase, todo, localBooks,
          deviceBooks, plan, next>>

-----------------------------------------------------------------------------
File(p) == [path |-> p, dir |-> FALSE]
Dir(p)  == [path |-> p, dir |-> TRUE]

(* Files under root with the directories above them. *)
Tree(root, files) ==
  {File(p) : p \in files} \cup {Dir(SubSeq(root, 1, n)) : n \in 1..Len(root)} \cup
    UNION {{Dir(SubSeq(p, 1, n)) : n \in Len(root)..(Len(p) - 1)} : p \in files}

(* GetObjectInfos: the objects of a scan.  Objects made by the plan get    *)
(* the number of their action as id.                                       *)
Scan(disk) == {[path |-> x.path, dir |-> x.dir, id |-> 0] : x \in disk}

(* Books of an object set, by their paths relative to root. *)
BooksUnder(ois, root) ==
  {b \in BookPaths : \E o \in SubsetByPath(ois, root) : ~o.dir /\ o.path = root \o b}

WrongIndexPaths(p) ==
  LET n == Name(p)
  IN  << Append(Parent(p), IndexOf[n]), Append(p, IndexOf[n]) >>

(* getSupplementalArtifactsPaths. *)
IndexPaths(p) ==
  LET n == Name(p)
  IN  << Append(Parent(p), IndexOf[n]), Parent(p) \o <<SdrOf[n], IndexOf[n]>> >>

Path == Seq(STRING)

Files == BookPaths \cup Indexes \cup DeviceOwn

(* Paths are not empty; every book has the names of its side files, also   *)
(* when it has none of them.                                               *)
PathsFit ==
  /\ {Source, Target, ThumbFolder} \cup Files \cup Stock \subseteq Path \ {<< >>}
  /\ \A b \in BookPaths :
       {IndexOf[Name(b)], SdrOf[Name(b)], ThumbOf[Name(b)]} \subseteq STRING
  /\ \A p \in {Source, Target, ThumbFolder} \cup Files :
       \A i \in DOMAIN p : StartsWith(p[i], p[i])

(* What has a name tells books, page indexes and directories apart (their  *)
(* extensions do), and books and thumbnails are kept in folders of their   *)
(* own.                                                                    *)
NamesFit ==
  /\ \A p, q \in Files : ~IsUnder(q, p)
  /\ \A b \in BookPaths, n \in {1, 2} :
       LET i == IndexPaths(b)[n]
       IN  i \notin BookPaths \cup DeviceOwn /\ \A q \in Files : ~IsUnder(q, i)
  /\ Target # ThumbFolder /\ ~IsUnder(Target, ThumbFolder) /\ ~IsUnder(ThumbFolder, Target)
  /\ \A s \in Stock : ~IsUnder(s, Target) /\ ~IsUnder(s, ThumbFolder)

ASSUME PathsAssumption == PathsFit

ASSUME NamesAssumption == NamesFit

-----------------------------------------------------------------------------
(* Adding actions to a plan.  As in SyncPlan, definitions named Wrong...   *)
(* are faulty variants that nothing uses.                                  *)

Act(pl, on, op, o, from) ==
  [pl EXCEPT !.actions =
     Append(@, [on |-> on, op |-> op, object |-> o, from |-> from])]

RemoveFromDevice(pl, o) ==
  [Act(pl, "device", "Remove", o, <<>>) EXCEPT !.dst = Delete(@, o.path)]

(* An action that makes a new object on the device. *)
Make(pl, op, p, isDir, from) ==
  LET o == [path |-> p, dir |-> isDir, id |-> Len(pl.actions) + 1]
  IN  [Act(pl, "device", op, o, from) EXCEPT !.dst = Add(@, o)]

WrongMakeRemoveDirActions(pl, dir) ==
  IF dir = Source \/ SubsetByPath(pl.src, dir) # {} \/ Find(pl.src, dir) = {} THEN pl
  ELSE [Act(pl, "local", "Remove", CHOOSE o \in Find(pl.src, dir) : TRUE, <<>>)
          EXCEPT !.src = Delete(@, dir)]

(* Removes dir, its parent and so on up to the source itself, each when    *)
(* nothing is left in it but those below it that go as well.  One that is  *)
(* not in the set is passed over: it has nothing below it.                 *)
MakeRemoveDirActions(pl, dir) ==
  LET up(n)     == SubSeq(dir, 1, n)
      below(n)  == {up(k) : k \in (n + 1)..Len(dir)}
      inUse     == {n \in Len(Source)..Len(dir) :
                      \/ n = Len(Source)
                      \/ SubsetByPath({o \in pl.src : o.path \notin below(n)}, up(n)) # {}}
      stop      == CHOOSE n \in inUse : \A k \in inUse : k <= n
      there     == {n \in stop..Len(dir) : n = stop \/ Find(pl.src, up(n)) # {}}
      deepest   == CHOOSE n \in there : \A k \in there : k <= n
      emptied   == [i \in 1..(deepest - stop) |->
                      CHOOSE o \in Find(pl.src, up(deepest + 1 - i)) : TRUE]
  IN  [pl EXCEPT !.actions = @ \o [i \in DOMAIN emptied |->
                   [on |-> "local", op |-> "Remove", object |-> emptied[i], from |-> <<>>]],
                 !.src = {o \in @ : o.path \notin below(stop)}]

MakeRemoveActions(pl, o) ==
  MakeRemoveDirActions(
    [Act(pl, "local", "Remove", o, <<>>) EXCEPT !.src = Delete(@, o.path)],
    Parent(o.path))

WrongMakeCreateDirActions(pl, p) ==
  IF Find(pl.dst, p) # {} THEN pl ELSE Make(pl, "MkDir", p, TRUE, <<>>)

(* Makes Target and the directories from there to p, where missing: below  *)
(* a missing one all are missing.                                          *)
MakeCreateDirActions(pl, p) ==
  LET missing == {n \in Len(Target)..Len(p) : Find(pl.dst, SubSeq(p, 1, n)) = {}}
      first   == CHOOSE n \in missing : \A k \in missing : n <= k
      made    == [i \in 1..(Len(p) + 1 - first) |->
                    [path |-> SubSeq(p, 1, first + i - 1), dir |-> TRUE,
                     id |-> Len(pl.actions) + i]]
  IN  IF missing = {} THEN pl
      ELSE [pl EXCEPT !.actions = @ \o [i \in DOMAIN made |->
                        [on |-> "device", op |-> "MkDir", object |-> made[i], from |-> <<>>]],
                      !.dst = @ \cup {made[i] : i \in DOMAIN made}]

(* WrongMakeCopyActions leaves the previous copy where it is. *)
WrongMakeCopyActions(pl, p) ==
  LET to == Reroot(p, Source, Target)
  IN  Make(MakeCreateDirActions(pl, Parent(to)), "Copy", to, FALSE, p)

MakeCopyActions(pl, p) ==
  LET to   == Reroot(p, Source, Target)
      dirs == MakeCreateDirActions(pl, Parent(to))
      prev == {o \in Find(dirs.dst, to) : ~o.dir}
      free == IF prev = {} THEN dirs
              ELSE RemoveFromDevice(dirs, CHOOSE o \in prev : TRUE)
  IN  Make(free, "Copy", to, FALSE, p)

(* WrongRemoveDeviceIndex takes the directory of the index along. *)
WrongRemoveDeviceIndex(pl, p) ==
  IF Find(pl.dst, p) = {} THEN pl
  ELSE LET one == RemoveFromDevice(pl, CHOOSE o \in Find(pl.dst, p) : TRUE)
       IN  IF SubsetByPath(one.dst, Parent(p)) # {} THEN one
           ELSE RemoveFromDevice(one, CHOOSE o \in Find(one.dst, Parent(p)) : TRUE)

(* The steps for one page index, if it is there. *)
RemoveLocalIndex(pl, p) ==
  IF Find(pl.src, p) = {} THEN pl
  ELSE MakeRemoveActions(pl, CHOOSE o \in Find(pl.src, p) : TRUE)

RemoveDeviceIndex(pl, p) ==
  IF Find(pl.dst, p) = {} THEN pl
  ELSE RemoveFromDevice(pl, CHOOSE o \in Find(pl.dst, p) : TRUE)

CopyIndex(pl, p) ==
  IF Find(pl.src, p) = {} THEN pl ELSE MakeCopyActions(pl, p)

(* The entries of deviceThumbs for the thumbnail of b. *)
ThumbEntries(pl, b) ==
  {e \in pl.thumbs : thumbsOn /\ e.key = <<ThumbOf[Name(b)]>>}

WrongRemoveThumb(pl, b) == [pl EXCEPT !.thumbs = @ \ ThumbEntries(pl, b)]

RemoveThumb(pl, b) ==
  IF ThumbEntries(pl, b) = {} THEN pl
  ELSE LET e == CHOOSE e \in ThumbEntries(pl, b) : TRUE
       IN  [RemoveFromDevice(pl, e.object) EXCEPT !.thumbs = @ \ {e}]

(* The old thumbnail is looked up by its name but not deleted from         *)
(* deviceThumbs (its own ThumbName is empty), and the new one is added     *)
(* under its full path, where no lookup will find it.                      *)
CopyThumb(pl, b) ==
  LET t    == ThumbOf[Name(b)]
      to   == Append(ThumbFolder, t)
      old  == ThumbEntries(pl, b)
      free == IF old = {} THEN pl
              ELSE RemoveFromDevice(pl, (CHOOSE e \in old : TRUE).object)
      new  == Make(free, "Copy", to, FALSE, <<t>>)
  IN  IF ~thumbsOn \/ t = NoThumb THEN pl
      ELSE [new EXCEPT !.thumbs =
              @ \cup {[key |-> to, object |-> CHOOSE o \in Find(new.dst, to) : TRUE]}]

-----------------------------------------------------------------------------
Case7 == (history \ deviceBooks) \cap localBooks

Case6 == (deviceBooks \ localBooks) \cap history

WrongCase3 == (localBooks \cap deviceBooks) \cup (localBooks \cap changed)

Case3 == (localBooks \ deviceBooks) \cup (localBooks \cap changed)

(* Every mix of books, page indexes and thumbnails on both sides.          *)
Mixes ==
  {m \in [books : (SUBSET BookPaths) \ {{}}, bookCopies : SUBSET BookPaths,
          indexes : SUBSET Indexes, indexCopies : SUBSET Indexes,
          own : SUBSET DeviceOwn, folder : BOOLEAN,
          thumbs : SUBSET ({ThumbOf[Name(b)] : b \in BookPaths} \ {NoThumb})] :
     m.thumbs # {} => m.folder}

LocalTree(m) == Tree(Source, {Source \o p : p \in m.books \cup m.indexes})

DeviceTree(m) ==
  LET files == {Target \o p : p \in m.bookCopies \cup m.indexCopies \cup m.own}
  IN  {Dir(p) : p \in Stock}
      \cup (IF files = {} THEN {} ELSE Tree(Target, files))
      \cup (IF m.folder THEN Tree(ThumbFolder, {Append(ThumbFolder, t) : t \in m.thumbs})
            ELSE {})

(* The files of the thumbnail folder, by their names; what lies deeper is  *)
(* left out.                                                               *)
ThumbsAmong(ois) ==
  {[key |-> <<Name(o.path)>>, object |-> o] :
     o \in {x \in ois : ~x.dir /\ Parent(x.path) = ThumbFolder}}

(* A run that has read its three sets and plans nothing yet. *)
Begin(src, dst) ==
  /\ phase = "case7"
  /\ thumbsOn = (Find(dst, ThumbFolder) # {})
  /\ plan = [actions |-> << >>, src |-> src, dst |-> dst, thumbs |-> ThumbsAmong(dst)]
  /\ localBooks = BooksUnder(plan.src, Source)
  /\ deviceBooks = BooksUnder(plan.dst, Target)
  /\ todo = Case7
  /\ next = 1

Init ==
  \E m \in Mixes :
    /\ local = LocalTree(m)
    /\ device = DeviceTree(m)
    /\ history \in SUBSET BookPaths
    /\ changed \in SUBSET (m.books \cap history)
    /\ Begin(Scan(local), Scan(device))

-----------------------------------------------------------------------------
(* Planning. *)

PlanKeeps ==
  UNCHANGED <<local, device, history, changed, thumbsOn, next>>

PlanBook(b, result) ==
  /\ b \in todo
  /\ plan' = result
  /\ todo' = todo \ {b}
  /\ UNCHANGED <<phase, localBooks, deviceBooks>>
  /\ PlanKeeps

(* The book goes from the source with its page indexes; the object removed *)
(* comes from the history.                                                 *)
PlanCase7(b) ==
  LET p   == Source \o b
      idx == IndexPaths(p)
      one == MakeRemoveActions(plan, [path |-> p, dir |-> FALSE, id |-> 0])
      two == RemoveLocalIndex(RemoveLocalIndex(one, idx[1]), idx[2])
  IN  phase = "case7" /\ PlanBook(b, RemoveThumb(two, b))

PlanCase6(b) ==
  LET p   == Target \o b
      idx == IndexPaths(p)
      one == RemoveFromDevice(plan, CHOOSE o \in Find(plan.dst, p) : TRUE)
      two == RemoveDeviceIndex(RemoveDeviceIndex(one, idx[1]), idx[2])
  IN  phase = "case6" /\ PlanBook(b, RemoveThumb(two, b))

PlanCase3(b) ==
  LET p   == Source \o b
      idx == IndexPaths(p)
      one == MakeCopyActions(plan, p)
      two == CopyIndex(CopyIndex(one, idx[1]), idx[2])
  IN  phase = "case3" /\ PlanBook(b, CopyThumb(two, b))

EndCase7 ==
  /\ phase = "case7" /\ todo = {}
  /\ phase' = "case6"
  /\ localBooks' = localBooks \ Case7
  /\ UNCHANGED <<deviceBooks, plan>>
  /\ PlanKeeps
  /\ todo' = Case6'

EndCase6 ==
  /\ phase = "case6" /\ todo = {}
  /\ phase' = "case3"
  /\ deviceBooks' = deviceBooks \ Case6
  /\ UNCHANGED <<localBooks, plan>>
  /\ PlanKeeps
  /\ todo' = Case3'

EndCase3 ==
  /\ phase = "case3" /\ todo = {}
  /\ phase' = "run"
  /\ UNCHANGED <<localBooks, deviceBooks, plan, todo>>
  /\ PlanKeeps

-----------------------------------------------------------------------------
(* Carrying the plan out. *)

HasParent(disk, p) == Parent(p) = << >> \/ Dir(Parent(p)) \in disk

Succeeds(disk, op, o, from) ==
  CASE op = "Remove" -> /\ \E x \in disk : x.path = o.path
                        /\ \A x \in disk : ~IsUnder(x.path, o.path)
    [] op = "MkDir"  -> /\ \A x \in disk : x.path # o.path
                        /\ HasParent(disk, o.path)
    [] op = "Copy"   -> /\ File(from) \in local \/ Len(from) = 1
                        /\ HasParent(disk, o.path)
                        /\ Dir(o.path) \notin disk

Effect(disk, op, o) ==
  IF op = "Remove" THEN {x \in disk : x.path # o.path}
  ELSE disk \cup {[path |-> o.path, dir |-> o.dir]}

(* The objects that actions have been carried out with on the device. *)
Used ==
  {[op |-> plan.actions[i].op, object |-> plan.actions[i].object] :
     i \in {j \in 1..(next - 1) : plan.actions[j].on = "device"}}

(* The mounted driver joins the mount point to obj.FullPath in place, so   *)
(* that a second action with the same object looks in the wrong place.     *)
(* Over MTP an object can be deleted once, and a new object needs a parent *)
(* among the objects of the device, which its root is not.                 *)
StillGood(op, o) ==
  IF Mounted THEN \A u \in Used : u.object # o
  ELSE /\ [op |-> "Remove", object |-> o] \notin Used
       /\ op # "Remove" => Len(o.path) > 1

Works(a) ==
  IF a.on = "local" THEN Succeeds(local, a.op, a.object, a.from)
  ELSE StillGood(a.op, a.object) /\ Succeeds(device, a.op, a.object, a.from)

CarryOut(a) ==
  /\ IF a.on = "local"
     THEN local' = Effect(local, a.op, a.object) /\ UNCHANGED device
     ELSE device' = Effect(device, a.op, a.object) /\ UNCHANGED local
  /\ next' = next + 1
  /\ phase' = phase

(* The next action; the first one that fails ends the run. *)
RunAction ==
  /\ phase = "run"
  /\ next <= Len(plan.actions)
  /\ IF Works(plan.actions[next])
     THEN CarryOut(plan.actions[next])
     ELSE phase' = "failed" /\ UNCHANGED <<local, device, next>>
  /\ UNCHANGED <<history, changed, thumbsOn, todo, localBooks, deviceBooks, plan>>

Finish ==
  /\ phase = "run"
  /\ next > Len(plan.actions)
  /\ phase' = "done"
  /\ UNCHANGED <<local, device, history, changed, thumbsOn, todo, localBooks,
                 deviceBooks, plan, next>>

Next ==
  \/ \E b \in BookPaths : PlanCase7(b) \/ PlanCase6(b) \/ PlanCase3(b)
  \/ EndCase7 \/ EndCase6 \/ EndCase3
  \/ RunAction
  \/ Finish

Spec == Init /\ [][Next]_vars

-----------------------------------------------------------------------------
Sides == <<Source, Target>>

Copied  == {b \in localBooks : \E i \in DOMAIN plan.actions :
              plan.actions[i].op = "Copy" /\ plan.actions[i].from = Source \o b}

(* Books that are removed from the source (1) and from the device (2).     *)
DroppedOn(n) == {b \in BookPaths \ localBooks : \E i \in DOMAIN plan.actions :
                   /\ plan.actions[i].op = "Remove"
                   /\ plan.actions[i].on = <<"local", "device">>[n]
                   /\ plan.actions[i].object.path = Sides[n] \o b}

Dropped == UNION {DroppedOn(n) : n \in DOMAIN Sides}

(* The page indexes of b on the side that starts at root. *)
IndexesOf(b, root) ==
  {root \o i : i \in {j \in Indexes :
     /\ Name(j) = IndexOf[Name(b)]
     /\ Parent(j) \in {Parent(b), Append(Parent(b), SdrOf[Name(b)])}}}

(* All that may be on the device because of b. *)
FilesOf(b) ==
  {Target \o b, Append(ThumbFolder, ThumbOf[Name(b)])} \cup IndexesOf(b, Target)

Done == phase = "done"

(* Both file systems stay trees: one object under a path, and a directory  *)
(* above every object, whatever the order of the actions.                  *)
TypeOK ==
  /\ phase \in {"case7", "case6", "case3", "run", "done", "failed"}
  /\ todo \in SUBSET BookPaths
  /\ localBooks \in SUBSET BookPaths
  /\ deviceBooks \in SUBSET BookPaths
  /\ next \in 1..(Len(plan.actions) + 1)
  /\ \A disk \in {local, device} : \A x \in disk :
        /\ \A y \in disk : x.path = y.path => x = y
        /\ HasParent(disk, x.path)

(* When nobody else touches the files, a plan runs to its end: every       *)
(* directory it writes to has been made, every directory it removes has    *)
(* been emptied, nothing is removed twice (order of the actions in         *)
(* PrepareActions).                                                        *)
NothingFails == phase # "failed"

(* After the run every local book is on the device and every recorded book *)
(* of the device is local: the two directions of the sync agree.           *)
BothSidesAgree ==
  Done =>
    \A b \in BookPaths :
      /\ File(Source \o b) \in local => File(Target \o b) \in device
      /\ b \in history /\ File(Target \o b) \in device => File(Source \o b) \in local

(* The page indexes and the thumbnail of a copied book are on the device   *)
(* with it, wherever of the two places its index is.                       *)
SideFilesAreCopied ==
  Done =>
    \A b \in Copied :
      /\ \A p \in IndexesOf(b, Source) :
            File(p) \in local => File(Reroot(p, Source, Target)) \in device
      /\ thumbsOn /\ ThumbOf[Name(b)] # NoThumb =>
            File(Append(ThumbFolder, ThumbOf[Name(b)])) \in device

(* A book removed by the tool leaves no thumbnail and no page index on the *)
(* side it was removed from.                                               *)
SideFilesAreRemoved ==
  Done =>
    \A b \in Dropped :
      /\ Append(ThumbFolder, ThumbOf[Name(b)]) \notin {x.path : x \in device}
      /\ \A n \in DOMAIN Sides : b \in DroppedOn(n) =>
            \A p \in IndexesOf(b, Sides[n]) : File(p) \notin <<local, device>>[n]

(* makeRemoveActions removes "all empty directories above it": removing    *)
(* books leaves no empty directory in the source.                          *)
NoEmptyDirectory ==
  Done =>
    \A x \in local : x.dir /\ x.path # Source => \E y \in local : IsUnder(y.path, x.path)

(* "Only remove files we are aware of": on the device the tool removes no  *)
(* directory and no file but those of a book it copies or removes; in the  *)
(* source, none but those of a book it removes, and never the source       *)
(* itself.                                                                 *)
OthersUntouched ==
  [][/\ \A x \in device \ device' :
          ~x.dir /\ \E b \in Copied \cup Dropped : x.path \in FilesOf(b)
     /\ \A x \in local \ local' :
          /\ x.path # Source
          /\ x.dir \/ \E b \in Dropped : x.path \in {Source \o b} \cup IndexesOf(b, Source)]_vars
=============================================================================
