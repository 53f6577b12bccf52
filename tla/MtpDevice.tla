----------------------------- MODULE MtpDevice -----------------------------
(***************************************************************************)
(* The MTP drivers, mtp/device_linux.go and mtp/device_windows.go, under   *)
(* the plans of PathPlan.  An MTP device has no paths: it stores objects   *)
(* under ids of its own choice, each with the id of its parent and a name  *)
(* that need not be unique.  The driver makes paths of them when it lists  *)
(* the device, and later finds the id that an action needs through the     *)
(* objects of the plan: Remove uses the id that was listed, MkDir and Copy *)
(* look the parent up in the set the plan has left (obj.OIS), where it may *)
(* be a directory that has got its id from a MkDir of the same run.        *)
(*                                                                         *)
(* Without errors the drivers implement PathPlan: the refinement forgets   *)
(* the ids.  Errors while listing are logged or ignored by the drivers,    *)
(* and the run goes on with what it has got.                               *)
(***************************************************************************)
EXTENDS Sequences, Integers

CONSTANTS
  Source, Target, ThumbFolder, BookPaths, Indexes, IndexOf, SdrOf, ThumbOf,
  NoThumb, DeviceOwn, Stock,    \* as in PathPlan
  StartsWith(_, _),             \* as in ObjectSets
  FreshIds,                     \* ids the device has not given yet (bound)
  ListingsFail,                 \* listing a directory may fail
  NamesFail                     \* reading the name of an object may fail

ASSUME MtpAssumption ==
  /\ << >> \notin FreshIds
  /\ ListingsFail \in BOOLEAN
  /\ NamesFail \in BOOLEAN

VARIABLES
  store,    \* the objects on the device: [oid, parent, name, dir]
  oids,     \* the Oid fields: the ids of the objects of the plan
  local, history, changed, thumbsOn, phase, todo, localBooks, deviceBooks,
  plan, next                    \* as in PathPlan

vars == <<store, oids, local, history, changed, thumbsOn, phase, todo, localBooks,
          deviceBooks, plan, next>>

Root == << >>                   \* LIBMTP_FILES_AND_FOLDERS_ROOT

-----------------------------------------------------------------------------
(* The device by its ids. *)

Stored(id) == CHOOSE o \in store : o.oid = id

(* The ways from the root to these objects, by id: the objects passed.     *)
Ways(objects) ==
  LET way[id \in {Root} \cup {o.oid : o \in objects}] ==
        IF id = Root THEN << >>
        ELSE LET o == CHOOSE x \in objects : x.oid = id IN Append(way[o.parent], o)
  IN  way

Way(id) == Ways(store)[id]

Names(way) == [i \in DOMAIN way |-> way[i].name]

PathOf(o) == Names(Way(o.oid))

(* The path the driver gives an object, when the objects in nameless do    *)
(* not tell it their names: path.Join leaves an empty name out.            *)
ListedPath(o, nameless) ==
  IF nameless = {} THEN PathOf(o)
  ELSE Names(SelectSeq(Way(o.oid), LAMBDA x : x.oid \notin nameless))

(* What PathPlan sees of the device. *)
DeviceTree == {[path |-> PathOf(o), dir |-> o.dir] : o \in store}

Paths == INSTANCE PathPlan WITH device <- DeviceTree, Mounted <- FALSE

ASSUME PathsAssumption == Paths!PathsFit /\ Paths!NamesFit

(* A store for a tree of paths.  Any ids will do as long as they differ.   *)
StoreOf(tree) ==
  {[oid |-> x.path, parent |-> Paths!Parent(x.path),
    name |-> Paths!Name(x.path), dir |-> x.dir] : x \in tree}

-----------------------------------------------------------------------------
(* GetObjectInfos. *)

(* Only what lies on the way to the two folders or in them is kept.        *)
(* Definitions named Wrong... are faulty variants that nothing uses.       *)
OfInterest(p) ==
  /\ p # << >>
  /\ \E r \in {Target, ThumbFolder} : Paths!HasPrefix(p, r) \/ Paths!HasPrefix(r, p)

(* Other directories of the device do not matter. *)
ASSUME StockAssumption == \A s \in Stock : OfInterest(s)

(* The enumeration comes to the object: no directory above it fails. *)
Reached(o, unread) ==
  LET way == Way(o.parent) IN \A i \in DOMAIN way : way[i].oid \notin unread

(* An object under the path the driver has made for it. *)
Entries(seen, nameless) ==
  {e \in {[path |-> ListedPath(o, nameless), object |-> o] : o \in seen} : OfInterest(e.path)}

(* WrongListed does not go down into the directories. *)
WrongListed(unread, nameless) ==
  {e \in Entries(store, nameless) : Len(e.path) <= Len(Target) + 1}

(* The objects returned when the listings of the directories in unread     *)
(* fail: what is below them is missing, and nothing tells the planner.     *)
Listed(unread, nameless) == Entries({o \in store : Reached(o, unread)}, nameless)

(* The set is indexed by path: of objects under one path the last one      *)
(* stays, and a directory comes before what is in it.                      *)
Indexed(listed) ==
  LET twins(e) == {x \in listed \ {e} : x.path = e.path}
      isAbove(e, x) == \E i \in DOMAIN Way(x.object.parent) :
                          Way(x.object.parent)[i] = e.object
      rivals == {e \in listed : twins(e) # {}}
  IN  {kept \in {listed \ lost : lost \in SUBSET rivals} :
         /\ {e.path : e \in kept} = {e.path : e \in listed}
         /\ \A e \in kept : \A x \in twins(e) : x \notin kept /\ ~isAbove(e, x)}

Infos(kept) == {[path |-> e.path, dir |-> e.object.dir, id |-> 0] : e \in kept}

OidsOf(kept) ==
  [i \in Infos(kept) |-> (CHOOSE e \in kept : e.path = i.path).object.oid]

Directories == {o.oid : o \in {x \in store : x.dir}}

(* What may go wrong in a listing: directories that cannot be listed, and, *)
(* on Windows, where every property of an object is asked for by itself,   *)
(* objects without a name.  (Without a content type the program ends on a  *)
(* nil pointer, before anything is planned.)                               *)
Unread == IF ListingsFail THEN SUBSET Directories ELSE {{}}

Nameless == IF NamesFail THEN SUBSET {o.oid : o \in store} ELSE {{}}

Init ==
  \E m \in Paths!Mixes :
    /\ local = Paths!LocalTree(m)
    /\ store = StoreOf(Paths!DeviceTree(m))
    /\ history \in SUBSET BookPaths
    /\ changed \in SUBSET (m.books \cap history)
    /\ \E unread \in Unread, nameless \in Nameless :
         \E kept \in Indexed(Listed(unread, nameless)) :
            /\ Paths!Begin(Paths!Scan(local), Infos(kept))
            /\ oids = OidsOf(kept)

-----------------------------------------------------------------------------
(* Planning does not touch the device. *)
Prepare ==
  /\ UNCHANGED <<store, oids>>
  /\ \/ \E b \in BookPaths :
          Paths!PlanCase7(b) \/ Paths!PlanCase6(b) \/ Paths!PlanCase3(b)
     \/ Paths!EndCase7 \/ Paths!EndCase6 \/ Paths!EndCase3

Action == plan.actions[next]

(* The end of an action, and of a run that could not carry it out. *)
ActionDone == next' = next + 1 /\ UNCHANGED phase
ActionFailed == phase' = "failed" /\ UNCHANGED <<store, oids, local, next>>

Execute(op) ==
  /\ phase = "run"
  /\ next <= Len(plan.actions)
  /\ Action.on = "device" /\ Action.op = op
  /\ UNCHANGED <<history, changed, thumbsOn, todo, localBooks, deviceBooks, plan>>

(* The object under the path of the parent, in the set the plan has left.  *)
ParentObjects(o) == Paths!Find(plan.dst, Paths!Parent(o.path))

OidOf(o) == IF o \in DOMAIN oids THEN oids[o] ELSE Root

(* An id that is new (one of them, as long as there are any), or that of   *)
(* an object which has been removed: what matters is only whether somebody *)
(* still holds it.                                                         *)
NewIds ==
  LET taken == {o.oid : o \in store}
      known == {oids[i] : i \in DOMAIN oids}
      fresh == FreshIds \ (taken \cup known)
  IN  (known \ taken) \cup (IF fresh = {} THEN {} ELSE {CHOOSE id \in fresh : TRUE})

(* WrongCreate takes the parent of the parent, WrongCreateUnknown forgets  *)
(* the id.                                                                 *)
WrongCreate(o, id) ==
  LET parent == Stored(OidOf(CHOOSE p \in ParentObjects(o) : TRUE)).parent
  IN  /\ store' = store \cup {[oid |-> id, parent |-> parent,
                               name |-> Paths!Name(o.path), dir |-> o.dir]}
      /\ oids' = [i \in DOMAIN oids \cup {o} |-> IF i = o THEN id ELSE oids[i]]

WrongCreateUnknown(o, id) ==
  LET parent == OidOf(CHOOSE p \in ParentObjects(o) : TRUE)
  IN  /\ store' = store \cup {[oid |-> id, parent |-> parent,
                               name |-> Paths!Name(o.path), dir |-> o.dir]}
      /\ UNCHANGED oids

(* The device makes the object under an id of its choice, obj.Oid gets it. *)
Create(o, id) ==
  LET parent == OidOf(CHOOSE p \in ParentObjects(o) : TRUE)
  IN  /\ store' = store \cup {[oid |-> id, parent |-> parent,
                               name |-> Paths!Name(o.path), dir |-> o.dir]}
      /\ oids' = [i \in DOMAIN oids \cup {o} |-> IF i = o THEN id ELSE oids[i]]

(* A device makes objects only in a folder it has. *)
IsFolder(id) == id = Root \/ \E x \in store : x.oid = id /\ x.dir

MakeObject(op, sendable) ==
  /\ Execute(op)
  /\ IF sendable /\ \E p \in ParentObjects(Action.object) : IsFolder(OidOf(p))
     THEN /\ \E id \in NewIds : Create(Action.object, id)
          /\ ActionDone
          /\ UNCHANGED local
     ELSE ActionFailed

MkDir == MakeObject("MkDir", TRUE)

Copy == MakeObject("Copy", Paths!File(Action.from) \in local \/ Len(Action.from) = 1)

(* A directory only when it is empty (DeviceDeleteNoRecursion on Windows). *)
Deletable(id) ==
  /\ \E o \in store : o.oid = id
  /\ \A o \in store : o.parent # id

(* The object goes that has the id of the listed one. *)
Remove ==
  /\ Execute("Remove")
  /\ LET id == OidOf(Action.object)
     IN  IF Deletable(id)
         THEN /\ store' = {o \in store : o.oid # id}
              /\ ActionDone
              /\ UNCHANGED <<oids, local>>
         ELSE ActionFailed

(* An action on the source, and the end of the run, as in PathPlan. *)
RunLocalAction ==
  /\ phase = "run"
  /\ next <= Len(plan.actions)
  /\ Action.on = "local"
  /\ UNCHANGED <<store, oids>>
  /\ Paths!RunAction

Finish == UNCHANGED <<store, oids>> /\ Paths!Finish

Next == Prepare \/ MkDir \/ Copy \/ Remove \/ RunLocalAction \/ Finish

Spec == Init /\ [][Next]_vars

-----------------------------------------------------------------------------
(* Ids are unique and every object hangs, over directories, from the root  *)
(* (CreateFolder, SendFile and DeleteObject as the drivers call them).     *)
TypeOK ==
  /\ phase \in {"case7", "case6", "case3", "run", "done", "failed"}
  /\ \A o \in store :
       /\ \A x \in store : x.oid = o.oid => x = o
       /\ o.parent = Root \/ \E x \in store : x.oid = o.parent /\ x.dir

(* MTP lets two objects in a folder have one name, and then the driver     *)
(* sees one of them only.  The plan never makes such twins: what has the   *)
(* name of a copy is removed before (makeCopyActions, prevObj).            *)
OneObjectPerPath == \A x, y \in store : PathOf(x) = PathOf(y) => x = y

(* What the plan has listed or made so far and not removed is on the       *)
(* device under its path and has the id it is known by (obj.Oid), so that  *)
(* a later action of the plan meets the object it was planned for.         *)
IdsAreCurrent ==
  \A o \in plan.dst :
    o.id < next /\ phase \in {"run", "done"} =>
      \E x \in store : x.oid = OidOf(o) /\ PathOf(x) = o.path /\ x.dir = o.dir

(* MkDir, Copy and Remove by ids do to the tree of paths what the plan     *)
(* meant, in the order of the plan, and fail only where a file system      *)
(* would: every parent has its id when it is asked for, no id is stale.    *)
ImplementsPathPlan == Paths!Spec

(* Row 7 of the table in sync/prepare.go: a book is removed from the       *)
(* source because it is not on the device any more.                        *)
OnlyAbsentBooksAreDropped ==
  [][\A b \in BookPaths :
       Paths!File(Source \o b) \in local \ local' =>
         Paths!File(Target \o b) \notin DeviceTree]_vars
=============================================================================
