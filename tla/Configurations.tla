--------------------------- MODULE Configurations ---------------------------
(***************************************************************************)
(* Several configurations of s2k used side by side: a directory of books   *)
(* synchronised with several devices, a device that takes different books  *)
(* in different target directories.  Each configuration finds its history  *)
(* by the name that history/name.go makes of the device and the target.    *)
(*                                                                         *)
(* A run is one step here; BookSync takes it apart.  It goes well but for  *)
(* one thing that several configurations can bring about: the file of a    *)
(* book to be removed is not where the history says.  Nobody but the tool  *)
(* puts books on a device, and no source lies inside another one.          *)
(***************************************************************************)
EXTENDS SyncPlan, Naturals

CONSTANTS
  Profiles,   \* configurations: records of a source, a device and a target
  Contents,   \* versions of a book, told apart by their SHA-256
  Nobody,     \* no source
  MaxEdits    \* bound on the edits of the user

ASSUME ContentsAssumption == Absent \notin Contents
ASSUME EditsAssumption == MaxEdits \in Nat

Sources == {p.source : p \in Profiles}

ASSUME NobodyAssumption == Nobody \notin Sources

(* Where the books of a configuration go: of all that the driver lists,    *)
(* PrepareActions keeps what lies under the target path.                   *)
Place(p) == <<p.device, p.target>>
Places == {Place(p) : p \in Profiles}

(* No other source has books in this place. *)
OwnPlace(p) == \A q \in Profiles : Place(q) = Place(p) => q.source = p.source

WrongHistoryOf(p) == <<p.device>>

(* history.GetName: the database of a configuration, made of the serial    *)
(* number and of the target path, not of the source path.                  *)
HistoryOf(p) == <<p.device, p.target>>
Histories == {HistoryOf(p) : p \in Profiles}

VARIABLES
  local,     \* local[s]: files under the source directory s
  device,    \* device[t]: files in the place t
  history,   \* history[h]: objects of the last step of the database h
  recorder,  \* recorder[h]: the source whose files these objects are, as
             \* their full paths say, or Nobody when h has no step yet
  edits,     \* edits made so far
  taken,     \* taken[t]: books gone from the place t by the hand of the user
  gone       \* gone[s]: books that were in the source s and no longer are

vars == <<local, device, history, recorder, edits, taken, gone>>

Init ==
  /\ local \in [Sources -> [Books -> Contents \cup {Absent}]]
  /\ device = [t \in Places |-> NoFiles]
  /\ history = [h \in Histories |-> NoFiles]
  /\ recorder = [h \in Histories |-> Nobody]
  /\ edits = 0
  /\ taken = [t \in Places |-> {}]
  /\ gone = [s \in Sources |-> {}]

-----------------------------------------------------------------------------
PutLocal(s, b, c) ==
  /\ edits < MaxEdits
  /\ local[s][b] # c
  /\ local' = [local EXCEPT ![s][b] = c]
  /\ gone' = [gone EXCEPT ![s] = @ \ {b}]
  /\ edits' = edits + 1
  /\ UNCHANGED <<device, history, recorder, taken>>

DropLocal(s, b) ==
  /\ edits < MaxEdits
  /\ local[s][b] # Absent
  /\ local' = [local EXCEPT ![s][b] = Absent]
  /\ gone' = [gone EXCEPT ![s] = @ \cup {b}]
  /\ edits' = edits + 1
  /\ UNCHANGED <<device, history, recorder, taken>>

DropFromDevice(t, b) ==
  /\ edits < MaxEdits
  /\ device[t][b] # Absent
  /\ device' = [device EXCEPT ![t][b] = Absent]
  /\ taken' = [taken EXCEPT ![t] = @ \cup {b}]
  /\ edits' = edits + 1
  /\ UNCHANGED <<local, history, recorder, gone>>

(* SaveObjectInfos, when there were actions or when it is the first step. *)
Save(p, ois, anyAction) ==
  IF anyAction \/ recorder[HistoryOf(p)] = Nobody
  THEN /\ history' = [history EXCEPT ![HistoryOf(p)] = ois]
       /\ recorder' = [recorder EXCEPT ![HistoryOf(p)] = p.source]
  ELSE UNCHANGED <<history, recorder>>

Without(ois, books) == [b \in Books |-> IF b \in books THEN Absent ELSE ois[b]]

(* The books of case 7 for a run with the configuration p. *)
ToRemove(p, ignore) ==
  Case7Books(ignore, Keys(local[p.source]), Keys(history[HistoryOf(p)]),
             Keys(device[Place(p)]))

(* The objects of case 7 are those of the history (Intersect keeps the     *)
(* values of the set it is called for), so that Remove goes to the files   *)
(* of the source that has recorded them.                                   *)
RemoveBooks(p, books) ==
  LET owner == recorder[HistoryOf(p)]
  IN  /\ local' = [s \in Sources |->
                     IF s = owner THEN Without(local[s], books) ELSE local[s]]
      /\ gone' = [s \in Sources |-> IF s = owner THEN gone[s] \cup books ELSE gone[s]]

(* Sync with the configuration p, from the scan to the save.  The books of *)
(* case 7 no longer count as local.  srcOIS, which is saved, loses them    *)
(* only if it has them under the paths that the history gives.             *)
RunWith(p, ignore) ==
  LET src == local[p.source]
      dst == device[Place(p)]
      hst == history[HistoryOf(p)]
      case7 == ToRemove(p, ignore)
      case6 == Case6Books(ignore, Keys(src), Keys(hst), Keys(dst))
      case3 == Case3Books(ignore, src, hst, Keys(src), Keys(dst))
      ois == IF recorder[HistoryOf(p)] = p.source THEN Without(src, case7) ELSE src
  IN  /\ edits' = edits
      /\ Keys(src) # {}
      /\ \A b \in case7 : local[recorder[HistoryOf(p)]][b] # Absent
      /\ RemoveBooks(p, case7)
      /\ device' = [device EXCEPT ![Place(p)] =
                      [b \in Books |-> CASE b \in case3 -> src[b]
                                         [] b \in case6 -> Absent
                                         [] OTHER -> dst[b]]]
      /\ Save(p, ois, case7 \cup case6 \cup case3 # {})
      /\ taken' = [taken EXCEPT ![Place(p)] = @ \ case3]

Run(p) == \E ignore \in BOOLEAN : RunWith(p, ignore)

(* A book of case 7 is not in the source that has recorded it: its Remove  *)
(* fails and ends the run.  The removals before it, in the order of a Go   *)
(* map, have been done; nothing is saved.                                  *)
RunFails(p) ==
  LET case7 == ToRemove(p, FALSE)
      there == {b \in case7 : local[recorder[HistoryOf(p)]][b] # Absent}
  IN  /\ edits' = edits
      /\ Keys(local[p.source]) # {}
      /\ there # case7
      /\ \E done \in SUBSET there : RemoveBooks(p, done)
      /\ UNCHANGED <<device, history, recorder, taken>>

(* "no books in the source path" ends the run before it does anything. *)
RefuseToRun(p) ==
  /\ Keys(local[p.source]) = {}
  /\ UNCHANGED vars

UserNext ==
  \/ \E s \in Sources, b \in Books :
        DropLocal(s, b) \/ \E c \in Contents : PutLocal(s, b, c)
  \/ \E t \in Places, b \in Books : DropFromDevice(t, b)

Next == UserNext \/ \E p \in Profiles : Run(p) \/ RunFails(p) \/ RefuseToRun(p)

Spec == Init /\ [][Next]_vars

(* The user runs the tool with every configuration again and again, as far *)
(* as it has its place for itself.                                         *)
Fairness == \A p \in {q \in Profiles : OwnPlace(q)} : WF_vars(Run(p))

FairSpec == Spec /\ Fairness

-----------------------------------------------------------------------------
Files == [Books -> Contents \cup {Absent}]

(* Types; and a database without a step holds no objects. *)
TypeOK ==
  /\ local \in [Sources -> Files]
  /\ device \in [Places -> Files]
  /\ history \in [Histories -> Files]
  /\ recorder \in [Histories -> Sources \cup {Nobody}]
  /\ edits \in 0..MaxEdits
  /\ taken \in [Places -> SUBSET Books]
  /\ gone \in [Sources -> SUBSET Books]
  /\ \A h \in Histories : recorder[h] = Nobody => history[h] = NoFiles

(* A run, also one that fails, takes a book out of any source only if the  *)
(* user took it off the very place the run is for: a book missing on one   *)
(* device, or in one of its directories, because it was never sent there   *)
(* does not get it deleted.  This is so even where two sources share a     *)
(* place, and case 7 removes books from the source of another run.         *)
LocalLossIsRequested ==
  [][\A p \in Profiles : Run(p) \/ RunFails(p) =>
       \A s \in Sources : Keys(local[s]) \ Keys(local'[s]) \subseteq taken[Place(p)]]_vars

DeviceLoss(p) == Keys(device[Place(p)]) \ Keys(device'[Place(p)])

(* A run takes a book off the device only if it has gone from the source   *)
(* of the configuration that is run: the history is kept for each pair of  *)
(* a source and a target (config.yaml.tmpl).  In places that sources share *)
(* it does not hold.                                                       *)
DeviceLossIsRequested ==
  [][\A p \in Profiles : Run(p) => DeviceLoss(p) \subseteq gone[p.source]]_vars

(* It holds for a configuration that has its place for itself, whatever    *)
(* others do: they may share another place on the same device, and they    *)
(* may remove books from its source.                                       *)
OwnDeviceLossIsRequested ==
  [][\A p \in Profiles : OwnPlace(p) /\ Run(p) => DeviceLoss(p) \subseteq gone[p.source]]_vars

(* Whatever runs with other configurations came before, after a run its    *)
(* source and its place hold the same books in the same versions, if the   *)
(* place is no other source's.  Else case 7 takes the books from that one  *)
(* and leaves them in the source of the run.                               *)
RunsMirror ==
  [][\A p \in Profiles : OwnPlace(p) /\ Run(p) => device'[Place(p)] = local'[p.source]]_vars

(* When the edits are over, runs bring each source and the places that are *)
(* its own into agreement: a book finished on one device goes from the     *)
(* source and then from the other devices.  Sources that fight for another *)
(* place do not keep it from that.                                         *)
Agreed ==
  \A p \in Profiles :
    \/ ~OwnPlace(p)
    \/ Keys(local[p.source]) = {}
    \/ device[Place(p)] = local[p.source]

EventuallyAgreed == <>[]Agreed
=============================================================================
