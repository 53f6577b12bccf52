--------------------------- MODULE MailSyncProofs ---------------------------
(***************************************************************************)
(* What is recorded was mailed, and what is mailed twice is limited, for   *)
(* any books, versions and bounds.                                         *)
(***************************************************************************)
EXTENDS MailSync, FiniteSetTheorems, TLAPS

(* The end of a run leaves nothing to be mailed. *)
LEMMA EndRunTypes ==
  ASSUME EndRun
  PROVE  /\ pc' = "idle" /\ dryRun' = FALSE /\ anyAction' = FALSE
         /\ snap' \in [Books -> Files] /\ outbox' = {}
  BY DEF EndRun, NoFiles, Files

LEMMA TypingStep == TypeOK /\ [Next]_vars => TypeOK'
<1> SUFFICES ASSUME TypeOK, [Next]_vars PROVE TypeOK'
  OBVIOUS
<1> USE BoundsAssumption DEF TypeOK, Keys, Files
<1>1. CASE UNCHANGED vars \/ NoLocalBooks
  BY <1>1 DEF vars, run, mail, NoLocalBooks
<1>2. ASSUME NEW b \in Books, NEW c \in Contents \cup {Absent}, Edit(b, c)
      PROVE  TypeOK'
  <2>1. local' \in [Books -> Files] /\ mailed' \in [Books -> Files]
    BY <1>2 DEF Edit
  <2>2. edits' \in 0..MaxEdits
    BY <1>2 DEF Edit
  <2>3. apart' \in BOOLEAN
    BY <1>2 DEF Edit
  <2> QED
    BY <1>2, <2>1, <2>2, <2>3 DEF Edit, run
<1>3. ASSUME NEW dry \in BOOLEAN, PrepareActions(dry) PROVE TypeOK'
  <2>1. outbox' \in SUBSET Keys(snap')
    BY <1>3 DEF PrepareActions, NewOrChanged
  <2> QED
    BY <1>3, <2>1 DEF PrepareActions, mail
<1>4. ASSUME NEW b \in Books, local[b] # Absent, Delivered(b)
      PROVE  /\ mailed' \in [Books -> Files]
             /\ delivered' \in SUBSET (Books \X Contents)
             /\ repeats' \in Nat
  BY <1>4 DEF Delivered
<1>5. ASSUME NEW b \in Books, Send(b) PROVE TypeOK'
  <2>1. /\ mailed' \in [Books -> Files]
        /\ delivered' \in SUBSET (Books \X Contents)
        /\ repeats' \in Nat
    BY <1>4, <1>5 DEF Send, mail
  <2> QED
    BY <1>5, <2>1 DEF Send
<1>6. CASE NothingToAttach
  BY <1>6, EndRunTypes DEF NothingToAttach, mail
<1>7. CASE Finish
  BY <1>7, EndRunTypes DEF Finish, mail
<1>8. ASSUME NEW b \in Books, SendFails(b) PROVE TypeOK'
  <2>1. /\ mailed' \in [Books -> Files]
        /\ delivered' \in SUBSET (Books \X Contents)
        /\ repeats' \in Nat
    BY <1>4, <1>8 DEF SendFails, mail
  <2>2. faults' \in 0..MaxFaults
    BY <1>8 DEF SendFails
  <2> QED
    BY <1>8, <2>1, <2>2, EndRunTypes DEF SendFails
<1>9. CASE Interrupt
  <2>1. faults' \in 0..MaxFaults
    BY <1>9 DEF Interrupt
  <2> QED
    BY <1>9, <2>1, EndRunTypes DEF Interrupt, mail
<1> HIDE DEF TypeOK, Keys, Files
<1> QED
  BY <1>1, <1>2, <1>3, <1>5, <1>6, <1>7, <1>8, <1>9 DEF Next, UserNext, RunGoesOn

(* For any books, versions and bounds; in particular what is left to be    *)
(* mailed was found by the scan of the same run.                           *)
THEOREM TypeCorrect == Spec => []TypeOK
<1>1. Init => TypeOK
  <2> SUFFICES ASSUME Init PROVE TypeOK
    OBVIOUS
  <2>1. NoFiles \in [Books -> Files] /\ local \in [Books -> Files]
    BY DEF Init, NoFiles, Files
  <2>2. edits \in 0..MaxEdits /\ faults \in 0..MaxFaults /\ repeats \in Nat
    BY BoundsAssumption DEF Init
  <2>3. outbox = {} /\ delivered = {}
    BY DEF Init
  <2> QED
    BY <2>1, <2>2, <2>3 DEF Init, TypeOK
<1> QED
  BY <1>1, TypingStep, PTL DEF Spec

-----------------------------------------------------------------------------
(* The recorded version is the mailed one because, as long as no edit      *)
(* falls into a run, the source is what the run has scanned.               *)
ScanIsFresh == pc = "send" /\ apart => snap = local

Recorded == RecordedWasMailed /\ MailedOrPending /\ ScanIsFresh

(* Mails are not forgotten. *)
LEMMA DeliveredGrows == TypeOK /\ [Next]_vars => delivered \subseteq delivered'
  BY DEF Next, UserNext, RunGoesOn, Edit, NoLocalBooks, PrepareActions, Send,
     NothingToAttach, SendFails, Interrupt, Finish, Delivered, vars, mail

(* Every step keeps Recorded.  A run that ends records nothing, except in  *)
(* Finish, when every book it records has been mailed or was recorded      *)
(* before.                                                                 *)
LEMMA RecordedStep == TypeOK /\ TypeOK' /\ Recorded /\ [Next]_vars => Recorded'
<1> SUFFICES ASSUME TypeOK, TypeOK', Recorded, [Next]_vars PROVE Recorded'
  OBVIOUS
<1> USE DEF Recorded, RecordedWasMailed, MailedOrPending, ScanIsFresh
<1>0. delivered \subseteq delivered'
  BY DeliveredGrows
<1>1. CASE UNCHANGED vars \/ NoLocalBooks
  BY <1>1 DEF vars, run, mail, NoLocalBooks, Keys
<1>2. ASSUME NEW b \in Books, NEW c \in Contents \cup {Absent}, Edit(b, c)
      PROVE  Recorded'
  BY <1>2 DEF Edit, run, Keys
<1>3. ASSUME NEW dry \in BOOLEAN, PrepareActions(dry) PROVE Recorded'
  <2>1. \A b \in Keys(snap') \ outbox' : b \in Keys(history) /\ snap'[b] = history[b]
    BY <1>3 DEF PrepareActions, NewOrChanged, Keys
  <2> QED
    BY <1>3, <2>1 DEF PrepareActions, mail, Keys
<1>4. ASSUME NEW b \in Books, Send(b) PROVE Recorded'
  <2>1. CASE dryRun
    BY <1>4, <2>1 DEF Send, mail, Keys
  <2>2. CASE ~dryRun
    <3>1. local[b] \in Contents /\ <<b, local[b]>> \in delivered'
      BY <1>4, <2>2 DEF Send, Delivered, TypeOK, Files
    <3>2. apart => local[b] = snap[b]
      BY <1>4 DEF Send
    <3> QED
      BY <1>0, <1>4, <2>2, <3>1, <3>2 DEF Send, Keys
  <2> QED
    BY <2>1, <2>2
<1>5. ASSUME EndRun, UNCHANGED <<history, apart>> PROVE Recorded'
  BY <1>0, <1>5 DEF EndRun, Keys
<1>6. CASE Finish
  <2>1. CASE history' = snap /\ ~dryRun
    BY <1>0, <1>6, <2>1 DEF Finish, EndRun, mail, Keys
  <2>2. CASE UNCHANGED history
    BY <1>5, <1>6, <2>2 DEF Finish
  <2> QED
    BY <1>6, <2>1, <2>2 DEF Finish
<1> HIDE DEF Recorded, RecordedWasMailed, MailedOrPending, ScanIsFresh
<1> QED
  BY <1>1, <1>2, <1>3, <1>4, <1>5, <1>6 DEF Next, UserNext, RunGoesOn,
     NothingToAttach, SendFails, Interrupt

(* For any books, versions and bounds: a book is recorded only after it    *)
(* was mailed, and in the version mailed if no edit fell into a run (the   *)
(* save after the loop in sync/run.go).                                    *)
THEOREM OnlyMailedIsRecorded == Spec => []RecordedWasMailed
<1>1. Init => Recorded
  BY DEF Init, Recorded, RecordedWasMailed, MailedOrPending, ScanIsFresh, Keys,
     NoFiles
<1>2. Recorded => RecordedWasMailed
  BY DEF Recorded
<1> QED
  BY <1>1, <1>2, RecordedStep, TypeCorrect, PTL DEF Spec

-----------------------------------------------------------------------------
(* What will be recorded of b if the run goes well, and is recorded        *)
(* otherwise.                                                              *)
ToRecord(b) ==
  IF pc = "send" /\ ~dryRun /\ b \notin outbox THEN snap[b] ELSE history[b]

(* The local books that have been mailed in a version that is not to be    *)
(* recorded: each of them may be mailed once more for nothing.             *)
Owed == {b \in Books : mailed[b] # Absent /\ mailed[b] # ToRecord(b)}

(* Repeated mails.  What bounds them is the number of the books that are   *)
(* Owed: only a mail of an owed book can be a repetition, which settles    *)
(* it, and only a run that is broken off makes new ones.                   *)
OwedIsPaid == apart => repeats + Cardinality(Owed) <= faults * Cardinality(Books)

(* What is in the outbox differs from the record, a run without an action  *)
(* has nothing to record that is not recorded, and a book that has gone    *)
(* from the source counts as never mailed.                                 *)
OutboxIsNews ==
  /\ \A b \in Books : local[b] = Absent => mailed[b] = Absent
  /\ pc = "send" => \A b \in outbox : history[b] # snap[b]
  /\ pc = "send" /\ ~anyAction => \A b \in Keys(snap) : history[b] = snap[b]
  /\ ScanIsFresh

LEMMA NewsStep == TypeOK /\ TypeOK' /\ OutboxIsNews /\ [Next]_vars => OutboxIsNews'
<1> SUFFICES ASSUME TypeOK, TypeOK', OutboxIsNews, [Next]_vars PROVE OutboxIsNews'
  OBVIOUS
<1> USE DEF OutboxIsNews, ScanIsFresh
<1>1. CASE UNCHANGED vars \/ NoLocalBooks
  BY <1>1 DEF vars, run, mail, NoLocalBooks, Keys
<1>2. ASSUME NEW b \in Books, NEW c \in Contents \cup {Absent}, Edit(b, c)
      PROVE  OutboxIsNews'
  BY <1>2 DEF Edit, run, Keys, TypeOK
<1>3. ASSUME NEW dry \in BOOLEAN, PrepareActions(dry) PROVE OutboxIsNews'
  <2>1. \A b \in outbox' : history'[b] # snap'[b]
    BY <1>3, AbsentAssumption DEF PrepareActions, NewOrChanged, Keys
  <2>2. \A b \in Keys(snap') \ outbox' : history'[b] = snap'[b]
    BY <1>3 DEF PrepareActions, NewOrChanged, Keys
  <2>3. ~anyAction' => outbox' = {}
    BY <1>3 DEF PrepareActions
  <2> QED
    BY <1>3, <2>1, <2>2, <2>3 DEF PrepareActions, mail, Keys
<1>4. ASSUME NEW b \in Books, Delivered(b), local[b] # Absent, UNCHANGED local
      PROVE  \A d \in Books : local'[d] = Absent => mailed'[d] = Absent
  BY <1>4 DEF Delivered, TypeOK
<1>5. ASSUME NEW b \in Books, Send(b) PROVE OutboxIsNews'
  <2>1. \A d \in Books : local'[d] = Absent => mailed'[d] = Absent
    BY <1>4, <1>5 DEF Send, mail
  <2> QED
    BY <1>5, <2>1 DEF Send, Keys
<1>6. ASSUME EndRun, UNCHANGED local,
             \A d \in Books : local'[d] = Absent => mailed'[d] = Absent
      PROVE  OutboxIsNews'
  BY <1>6 DEF EndRun
<1>7. ASSUME NEW b \in Books, SendFails(b) PROVE OutboxIsNews'
  <2>1. \A d \in Books : local'[d] = Absent => mailed'[d] = Absent
    BY <1>4, <1>7 DEF SendFails, mail
  <2> QED
    BY <1>6, <1>7, <2>1 DEF SendFails
<1>8. CASE NothingToAttach \/ Interrupt \/ Finish
  BY <1>6, <1>8 DEF NothingToAttach, Interrupt, Finish, mail
<1> HIDE DEF OutboxIsNews, ScanIsFresh
<1> QED
  BY <1>1, <1>2, <1>3, <1>5, <1>7, <1>8 DEF Next, UserNext, RunGoesOn

(* A set of books has a number of members, at most that of all books.      *)
LEMMA BooksCounted ==
  ASSUME NEW S \in SUBSET Books
  PROVE  /\ IsFiniteSet(S)
         /\ Cardinality(S) \in Nat /\ Cardinality(Books) \in Nat
         /\ Cardinality(S) <= Cardinality(Books)
         /\ \A T \in SUBSET S : Cardinality(T) <= Cardinality(S)
         /\ \A b \in S : Cardinality(S \ {b}) = Cardinality(S) - 1
  BY BooksAssumption, FS_Subset, FS_CardinalityType, FS_RemoveElement

(* After a step that sends nothing, the books that were owed are enough.   *)
LEMMA OwedShrinks ==
  ASSUME TypeOK, OwedIsPaid, apart' => apart, UNCHANGED <<repeats, faults>>,
         apart' => Owed' \subseteq Owed
  PROVE  OwedIsPaid'
<1> SUFFICES ASSUME apart'
             PROVE  repeats' + Cardinality(Owed') <= faults' * Cardinality(Books)
  BY DEF OwedIsPaid
<1>1. Owed' \subseteq Owed /\ Owed \in SUBSET Books
  BY DEF Owed
<1>2. Cardinality(Owed') <= Cardinality(Owed) /\ Cardinality(Owed') \in Nat
  BY <1>1, BooksCounted
<1>3. Cardinality(Owed) \in Nat /\ Cardinality(Books) \in Nat /\ faults \in Nat /\ repeats \in Nat
  BY <1>1, BooksCounted, BoundsAssumption DEF TypeOK
<1> DEFINE most == faults * Cardinality(Books)
<1>4. most \in Int
  BY <1>3
<1>5. repeats + Cardinality(Owed) <= most
  BY DEF OwedIsPaid
<1> HIDE DEF most
<1>6. repeats + Cardinality(Owed') <= most
  BY <1>2, <1>3, <1>4, <1>5
<1> QED
  BY <1>6 DEF most

(* A mail repeats only what is owed, because the version to be recorded    *)
(* differs from the one in the history and is the one sent.                *)
LEMMA RepeatIsOwed ==
  ASSUME TypeOK, OutboxIsNews, apart, pc = "send", ~dryRun,
         NEW b \in outbox, local[b] # Absent, Delivered(b)
  PROVE  /\ repeats' \in {repeats, repeats + 1}
         /\ repeats' # repeats => b \in Owed
<1>1. b \in Books /\ history[b] # local[b]
  BY DEF TypeOK, Keys, OutboxIsNews, ScanIsFresh
<1> QED
  BY <1>1 DEF Delivered, Owed, ToRecord, TypeOK

(* A mail that is sent pays for its repetition.                            *)
LEMMA SendPays ==
  ASSUME TypeOK, OutboxIsNews, OwedIsPaid, NEW b \in Books, Send(b), ~dryRun
  PROVE  OwedIsPaid'
<1> SUFFICES ASSUME apart
             PROVE  repeats' + Cardinality(Owed') <= faults' * Cardinality(Books)
  BY DEF OwedIsPaid, Send
<1>0. b \in outbox /\ pc = "send" /\ local[b] # Absent /\ Delivered(b)
  BY DEF Send
<1>1. repeats' \in {repeats, repeats + 1} /\ (repeats' # repeats => b \in Owed)
  BY <1>0, RepeatIsOwed
<1>2. Owed' \subseteq Owed \ {b}
  <2>1. mailed'[b] = snap[b] /\ \A d \in Books \ {b} : mailed'[d] = mailed[d]
    BY <1>0 DEF Delivered, TypeOK, OutboxIsNews, ScanIsFresh
  <2>2. ToRecord(b)' = snap[b]
    BY <1>0 DEF Send, ToRecord
  <2>3. ASSUME NEW d \in Books, d # b PROVE ToRecord(d)' = ToRecord(d)
    BY <2>3 DEF Send, ToRecord
  <2> QED
    BY <2>1, <2>2, <2>3 DEF Owed
<1>3. /\ Cardinality(Owed') \in Nat /\ Cardinality(Owed) \in Nat /\ Cardinality(Books) \in Nat
      /\ Cardinality(Owed') <= Cardinality(Owed)
      /\ b \in Owed => Cardinality(Owed') <= Cardinality(Owed) - 1
  <2>1. Owed \in SUBSET Books /\ Owed \ {b} \in SUBSET Books
    BY DEF Owed
  <2>2. Owed' \in SUBSET Books /\ Owed' \in SUBSET Owed /\ Owed' \in SUBSET (Owed \ {b})
    BY <1>2, <2>1
  <2> QED
    BY <2>1, <2>2, BooksCounted
<1>4. faults' = faults /\ faults \in Nat /\ repeats \in Nat
  BY BoundsAssumption DEF Send, TypeOK
<1> DEFINE most == faults * Cardinality(Books)
<1>5. most \in Int
  BY <1>3, <1>4
<1>6. repeats + Cardinality(Owed) <= most
  BY DEF OwedIsPaid
<1> HIDE DEF most
<1>7. repeats' + Cardinality(Owed') <= most
  BY <1>1, <1>3, <1>4, <1>5, <1>6
<1> QED
  BY <1>4, <1>7 DEF most

(* A run that is broken off may leave every book owed.                     *)
LEMMA BreakPays ==
  ASSUME TypeOK, OwedIsPaid, faults' = faults + 1, apart' => apart,
         apart' => repeats' \in {repeats, repeats + 1} /\ (repeats' # repeats => Owed # {})
  PROVE  OwedIsPaid'
<1> SUFFICES ASSUME apart'
             PROVE  repeats' + Cardinality(Owed') <= faults' * Cardinality(Books)
  BY DEF OwedIsPaid
<1>1. Owed \in SUBSET Books /\ Owed' \in SUBSET Books
  BY DEF Owed
<1>2. /\ Cardinality(Owed) \in Nat /\ Cardinality(Owed') \in Nat /\ Cardinality(Books) \in Nat
      /\ Cardinality(Owed') <= Cardinality(Books)
      /\ Owed # {} => Cardinality(Owed) # 0
  BY <1>1, BooksCounted, FS_EmptySet
<1>3. faults \in Nat /\ repeats \in Nat
  BY BoundsAssumption DEF TypeOK
<1> DEFINE most == faults * Cardinality(Books)
<1>4. most \in Int
  BY <1>2, <1>3
<1>5. repeats + Cardinality(Owed) <= most
  BY DEF OwedIsPaid
<1>6. faults' * Cardinality(Books) = most + Cardinality(Books)
  BY <1>2, <1>3
<1> HIDE DEF most
<1> QED
  BY <1>2, <1>3, <1>4, <1>5, <1>6

LEMMA OwedStep == TypeOK /\ OutboxIsNews /\ OwedIsPaid /\ [Next]_vars => OwedIsPaid'
<1> SUFFICES ASSUME TypeOK, OutboxIsNews, OwedIsPaid, [Next]_vars PROVE OwedIsPaid'
  OBVIOUS
<1>1. CASE UNCHANGED vars \/ NoLocalBooks
  <2>1. Owed' = Owed
    BY <1>1 DEF Owed, ToRecord, vars, run, mail, NoLocalBooks
  <2> QED
    BY <1>1, <2>1, OwedShrinks DEF vars, run, mail, NoLocalBooks
<1>2. ASSUME NEW b \in Books, NEW c \in Contents \cup {Absent}, Edit(b, c)
      PROVE  OwedIsPaid'
  <2>1. Owed' \subseteq Owed
    BY <1>2 DEF Edit, run, Owed, ToRecord, TypeOK
  <2> QED
    BY <1>2, <2>1, OwedShrinks DEF Edit
<1>3. ASSUME NEW dry \in BOOLEAN, PrepareActions(dry) PROVE OwedIsPaid'
  <2>1. Owed' \subseteq Owed
    BY <1>3 DEF PrepareActions, NewOrChanged, Keys, mail, Owed, ToRecord, OutboxIsNews
  <2> QED
    BY <1>3, <2>1, OwedShrinks DEF PrepareActions, mail
<1>4. ASSUME NEW b \in Books, Send(b) PROVE OwedIsPaid'
  <2>1. CASE dryRun
    <3>1. Owed' = Owed
      BY <1>4, <2>1 DEF Send, mail, Owed, ToRecord
    <3> QED
      BY <1>4, <2>1, <3>1, OwedShrinks DEF Send, mail
  <2> QED
    BY <1>4, <2>1, SendPays
<1>5. CASE NothingToAttach
  <2>1. ~apart'
    BY <1>5 DEF NothingToAttach, OutboxIsNews, ScanIsFresh, TypeOK, Keys
  <2> QED
    BY <2>1 DEF OwedIsPaid
<1>6. ASSUME NEW b \in Books, SendFails(b) PROVE OwedIsPaid'
  <2>1. apart => repeats' \in {repeats, repeats + 1} /\ (repeats' # repeats => b \in Owed)
    BY <1>6, RepeatIsOwed DEF SendFails, mail
  <2> QED
    BY <1>6, <2>1, BreakPays DEF SendFails
<1>7. CASE Interrupt
  BY <1>7, BreakPays DEF Interrupt, mail
<1>8. CASE Finish
  <2>1. ASSUME apart, NEW b \in Books, b \in Owed' PROVE b \in Owed
    <3>1. mailed'[b] = mailed[b] /\ mailed[b] # Absent /\ mailed[b] # history'[b]
      BY <1>8, <2>1 DEF Finish, EndRun, Owed, ToRecord, mail
    <3>2. b \in Keys(snap)
      BY <1>8, <2>1, <3>1 DEF Finish, OutboxIsNews, ScanIsFresh, Keys
    <3>3. CASE dryRun
      BY <1>8, <3>1, <3>3 DEF Finish, Owed, ToRecord
    <3>4. CASE ~dryRun
      <4>1. history'[b] = snap[b]
        BY <1>8, <3>2, <3>4 DEF Finish, OutboxIsNews
      <4> QED
        BY <1>8, <3>1, <3>4, <4>1 DEF Finish, Owed, ToRecord
    <3> QED
      BY <3>3, <3>4
  <2>2. apart' = apart /\ UNCHANGED <<repeats, faults>>
    BY <1>8 DEF Finish, mail
  <2>3. apart' => Owed' \subseteq Owed
    BY <2>1, <2>2 DEF Owed
  <2> QED
    BY <2>2, <2>3, OwedShrinks
<1> QED
  BY <1>1, <1>2, <1>3, <1>4, <1>5, <1>6, <1>7, <1>8 DEF Next, UserNext, RunGoesOn

(* For any number of books, edits and faults: a version is mailed twice    *)
(* only by reason of a run that was broken off, and each such run repeats  *)
(* at most every book once (the loop of mails before the save in           *)
(* sync/run.go).                                                           *)
THEOREM RepeatsHaveReasons == Spec => []RepeatsAreBounded
<1>1. Init => OutboxIsNews /\ OwedIsPaid
  <2> SUFFICES ASSUME Init PROVE OutboxIsNews /\ OwedIsPaid
    OBVIOUS
  <2>1. OutboxIsNews
    BY DEF Init, OutboxIsNews, ScanIsFresh, NoFiles
  <2>2. Owed = {}
    BY DEF Init, Owed, NoFiles
  <2>3. repeats = 0 /\ faults = 0 /\ Cardinality(Books) \in Nat
    BY BooksAssumption, FS_CardinalityType DEF Init
  <2>4. OwedIsPaid
    BY <2>2, <2>3, FS_EmptySet DEF OwedIsPaid
  <2> QED
    BY <2>1, <2>4
<1>2. TypeOK /\ TypeOK' /\ OutboxIsNews /\ OwedIsPaid /\ [Next]_vars
        => OutboxIsNews' /\ OwedIsPaid'
  BY NewsStep, OwedStep
<1>3. TypeOK /\ OwedIsPaid => RepeatsAreBounded
  <2> SUFFICES ASSUME TypeOK, OwedIsPaid, apart PROVE repeats <= faults * Cardinality(Books)
    BY DEF RepeatsAreBounded
  <2>1. Owed \in SUBSET Books
    BY DEF Owed
  <2>2. Cardinality(Owed) \in Nat /\ Cardinality(Books) \in Nat
    BY <2>1, BooksCounted
  <2>3. repeats \in Nat /\ faults \in Nat
    BY BoundsAssumption DEF TypeOK
  <2>4. faults * Cardinality(Books) \in Int
    BY <2>2, <2>3
  <2> QED
    BY <2>2, <2>3, <2>4 DEF OwedIsPaid
<1> QED
  BY <1>1, <1>2, <1>3, TypeCorrect, PTL DEF Spec

=============================================================================
