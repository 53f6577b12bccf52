-------------------------- MODULE ThumbnailsProofs --------------------------
(***************************************************************************)
(* Proofs about KfxReader and Thumbnails: that a roomy book is read as it  *)
(* is stored, for every book, and that the walk reads KFX books as         *)
(* KfxReader does and returns only names of pictures that are there.       *)
(***************************************************************************)
EXTENDS Thumbnails, TLAPS

(* Cells that decoding a fragment of n cells may have overwritten.         *)
Behind(b, n) == b.symbolsEnd .. (b.symbolsEnd + n - 2)

InfoTails(b) == UNION {Behind(b, b.entries[j].info) : j \in DOMAIN b.entries}
DataTails(b, t) == UNION {Behind(b, b.entries[j].data) : j \in OfType(b, t)}

(* All entries before the i-th have been taken.                            *)
Taken(b, i) == \A j \in DOMAIN b.entries : j < i => b.entries[j].bad \in {"nothing", "data"}

(* The one metadata fragment, that of a store book; the resource it leads  *)
(* to.                                                                     *)
HasMetadata(b, m) == MetadataOf(b) = {m} /\ Readable(b) /\ ~Personal(b, m)

HasCover(b, m, c) ==
  c \in GetByName(b, b.entries[m].link, ExternalResource) /\ b.entries[c].bad # "data"

KfxInv ==
  /\ pc \in {"idle", "header", "index", "cover", "image", "done"}
  /\ pc # "idle" => book \in KfxBooks
  /\ next \in Nat \ {0}
  /\ pc # "done" => result = "pending"
  /\ result = "thumb" => book.asin \in Names
  /\ pc \in {"idle", "header"} => overwritten = {} /\ next = 1
  /\ pc = "index" => book.sound /\ Taken(book, next) /\ overwritten \subseteq InfoTails(book)
  /\ pc = "cover" => \E m \in DOMAIN book.entries :
       /\ HasMetadata(book, m)
       /\ want = book.entries[m].link
       /\ overwritten \subseteq InfoTails(book) \cup DataTails(book, BookMetadata)
  /\ pc = "image" => \E m, c \in DOMAIN book.entries :
       /\ HasMetadata(book, m)
       /\ HasCover(book, m, c)
       /\ want = book.entries[c].link
       /\ overwritten \subseteq InfoTails(book) \cup DataTails(book, BookMetadata)
                                  \cup DataTails(book, ExternalResource)
  /\ RoomyBooksAreReadAsStored

-----------------------------------------------------------------------------
(* The entries of a book are what they should be.                          *)
LEMMA EntryTypes ==
  ASSUME NEW b \in Containers, NEW i \in DOMAIN b.entries
  PROVE  i \in Nat \ {0} /\ b.entries[i].info \in Nat /\ b.entries[i].data \in Nat
  <1>1. b.entries \in Seq(Entries)
    BY DEF Containers
  <1>2. i \in Nat \ {0} /\ b.entries[i] \in Entries
    <2> DEFINE s == b.entries
    <2> HIDE DEF s
    <2>1. s \in Seq(Entries) /\ i \in DOMAIN s
      BY <1>1 DEF s
    <2>2. i \in Nat \ {0} /\ s[i] \in Entries
      BY <2>1
    <2> QED BY <2>2 DEF s
  <1> QED BY <1>2 DEF Entries

(* What is appended lies in the tail of the fragment.                      *)
LEMMA AppendedInTail ==
  ASSUME NEW b \in Containers, NEW n \in Nat
  PROVE  Appended(b, n) \subseteq Behind(b, n)
  BY DEF Appended, Behind

(* Clear cells keep out of a tail.                                         *)
LEMMA ClearOfOneTail ==
  ASSUME NEW b \in Containers, NEW n \in Nat, NEW cells, Clear(b, cells, n)
  PROVE  cells \cap Behind(b, n) = {}
  BY DEF Clear, Behind, Containers

(* A roomy book's entries and bodies keep clear of the infos.              *)
LEMMA RoomyOfInfos ==
  ASSUME NEW b \in Containers, Roomy(b), NEW i \in DOMAIN b.entries
  PROVE  (EntryCells(b, i) \cup Body(b.entries[i])) \cap InfoTails(b) = {}
  <1>1. ASSUME NEW j \in DOMAIN b.entries
        PROVE  (EntryCells(b, i) \cup Body(b.entries[i])) \cap Behind(b, b.entries[j].info) = {}
    <2>1. Clear(b, EntryCells(b, i) \cup Body(b.entries[i]), b.entries[j].info)
      BY DEF Roomy
    <2>2. b.entries[j].info \in Nat
      BY EntryTypes
    <2> QED BY <2>1, <2>2, ClearOfOneTail
  <1> QED BY <1>1, Zenon DEF InfoTails

LEMMA ClearOfTails ==
  ASSUME NEW b \in Containers, NEW t, NEW cells, ClearOf(b, cells, t)
  PROVE  cells \cap DataTails(b, t) = {}
  <1>1. ASSUME NEW j \in OfType(b, t)
        PROVE  cells \cap Behind(b, b.entries[j].data) = {}
    <2>1. b.entries[j].data \in Nat
      BY EntryTypes DEF OfType
    <2>2. Clear(b, cells, b.entries[j].data)
      BY DEF ClearOf
    <2> QED BY <2>1, <2>2, ClearOfOneTail
  <1> QED BY <1>1, Zenon DEF DataTails

(* There is at most one fragment that is found by a name.                  *)
LEMMA OneIsFound ==
  ASSUME NEW b \in Containers, NEW name, NEW t,
         NEW i \in GetByName(b, name, t)
  PROVE  /\ i \in DOMAIN b.entries
         /\ b.entries[i].type = t
         /\ GetByName(b, name, t) = {i}
  <1>1. DOMAIN b.entries \subseteq Nat
    BY EntryTypes
  <1>2. /\ GetByName(b, name, t) \subseteq Named(b, name, t)
        /\ Named(b, name, t) \subseteq OfType(b, t)
    BY DEF GetByName, Named
  <1>3. ASSUME NEW j \in GetByName(b, name, t) PROVE j = i
    <2>1. i <= j /\ j <= i
      BY <1>2 DEF GetByName
    <2>2. i \in Nat /\ j \in Nat
      BY <1>1, <1>2 DEF OfType
    <2> QED BY <2>1, <2>2
  <1> QED BY <1>2, <1>3 DEF OfType

-----------------------------------------------------------------------------
LEMMA OpenContainerStep == KfxInv /\ OpenContainer => KfxInv'
  <1> SUFFICES ASSUME KfxInv, OpenContainer PROVE KfxInv'
    OBVIOUS
  <1>1. book \in Containers
    BY KfxAssumption DEF KfxInv, OpenContainer
  <1>2. CASE ~book.sound /\ Finish("failed")
    BY <1>2 DEF KfxInv, Finish, RoomyBooksAreReadAsStored, StoredResult, Readable, OpenContainer
  <1>3. CASE book.sound /\ pc' = "index" /\ UNCHANGED <<book, next, want, overwritten, result, shown>>
    <2>1. Taken(book, 1)
      BY <1>1, EntryTypes DEF Taken
    <2> QED BY <1>3, <2>1 DEF KfxInv, OpenContainer, RoomyBooksAreReadAsStored
  <1> QED BY <1>2, <1>3 DEF OpenContainer

LEMMA ReadEntryStep == KfxInv /\ ReadEntry => KfxInv'
  <1> SUFFICES ASSUME KfxInv, ReadEntry PROVE KfxInv'
    OBVIOUS
  <1> DEFINE e == book.entries[next]
  <1>1. book \in Containers /\ pc = "index" /\ next \in DOMAIN book.entries
    BY KfxAssumption DEF KfxInv, ReadEntry
  <1>2. Roomy(book) => Intact(EntryCells(book, next))
    BY <1>1, RoomyOfInfos DEF KfxInv, Intact
  <1>3. CASE ~Intact(EntryCells(book, next)) /\ Finish("garbled")
    BY <1>2, <1>3, <1>1 DEF KfxInv, Finish, RoomyBooksAreReadAsStored
  <1>4. CASE e.bad \in {"entry", "header", "info"} /\ Finish("failed")
    <2>1. ~Readable(book)
      BY <1>1, <1>4 DEF Readable
    <2> QED BY <1>1, <1>4, <2>1 DEF KfxInv, Finish, RoomyBooksAreReadAsStored, StoredResult
  <1>5. CASE /\ e.bad \in {"nothing", "data"} /\ next' = next + 1
             /\ Decode(e.info) /\ UNCHANGED <<book, pc, want, result, shown>>
    <2>1. e.info \in Nat
      BY <1>1, EntryTypes
    <2>2. Behind(book, e.info) \subseteq InfoTails(book)
      BY <1>1 DEF InfoTails
    <2>3. overwritten' \subseteq InfoTails(book)
      BY <1>1, <1>5, <2>1, <2>2, AppendedInTail DEF Decode, KfxInv
    <2>4. Taken(book, next + 1)
      <3>1. DOMAIN book.entries \subseteq Nat /\ next \in Nat
        BY <1>1, EntryTypes DEF KfxInv
      <3> QED BY <1>1, <1>5, <3>1 DEF Taken, KfxInv
    <2>5. next' \in Nat \ {0}
      BY <1>5 DEF KfxInv
    <2> QED BY <1>1, <1>5, <2>3, <2>4, <2>5 DEF KfxInv, RoomyBooksAreReadAsStored
  <1> QED BY <1>3, <1>4, <1>5 DEF ReadEntry

(* What the metadata lead to, through the one resource of their name.      *)
LEMMA PicturesFound ==
  ASSUME NEW b \in Containers, NEW m, HasMetadata(b, m),
         NEW c \in GetByName(b, b.entries[m].link, ExternalResource)
  PROVE  PicturesOf(b) = {p \in DOMAIN b.entries :
            /\ b.entries[p].bad # "data" /\ b.entries[c].bad # "data"
            /\ p \in GetByName(b, b.entries[c].link, RawMedia)}
  <1>1. MetadataOf(b) = {m}
    BY DEF HasMetadata
  <1>2. c \in DOMAIN b.entries /\ GetByName(b, b.entries[m].link, ExternalResource) = {c}
    BY OneIsFound
  <1> QED BY <1>1, <1>2 DEF PicturesOf

LEMMA ReadMetadataStep == KfxInv /\ ReadMetadata => KfxInv'
  <1> SUFFICES ASSUME KfxInv, ReadMetadata PROVE KfxInv'
    OBVIOUS
  <1>1. book \in Containers /\ pc = "index" /\ next \notin DOMAIN book.entries
    BY KfxAssumption DEF KfxInv, ReadMetadata
  <1>2. Readable(book)
    <2>1. book.entries \in Seq(Entries)
      BY <1>1 DEF Containers
    <2>2. DOMAIN book.entries = 1 .. Len(book.entries) /\ Len(book.entries) \in Nat
      BY <2>1
    <2>3. \A j \in DOMAIN book.entries : j < next
      BY <1>1, <2>2 DEF KfxInv
    <2> QED BY <1>1, <2>3 DEF Readable, Taken, KfxInv
  <1>3. CASE /\ \A m \in OfType(book, BookMetadata) : OfType(book, BookMetadata) # {m}
             /\ Finish("failed")
    <2>1. MetadataOf(book) = {}
      BY <1>3 DEF MetadataOf
    <2> QED BY <1>1, <1>3, <2>1 DEF KfxInv, Finish, RoomyBooksAreReadAsStored, StoredResult
  <1>4. ASSUME NEW m \in OfType(book, BookMetadata), OfType(book, BookMetadata) = {m}
        PROVE  /\ m \in DOMAIN book.entries
               /\ MetadataOf(book) = IF book.entries[m].bad = "data" THEN {} ELSE {m}
    BY <1>4 DEF OfType, MetadataOf
  <1>5. ASSUME NEW m \in OfType(book, BookMetadata), OfType(book, BookMetadata) = {m},
               ~Intact(Body(book.entries[m])) /\ Finish("garbled")
        PROVE  KfxInv'
    <2>1. ~Roomy(book)
      BY <1>1, <1>4, <1>5, RoomyOfInfos DEF KfxInv, Intact
    <2> QED BY <1>1, <1>5, <2>1 DEF KfxInv, Finish, RoomyBooksAreReadAsStored
  <1>6. ASSUME NEW m \in OfType(book, BookMetadata), OfType(book, BookMetadata) = {m},
               book.entries[m].bad = "data" /\ Finish("failed")
        PROVE  KfxInv'
    <2>1. MetadataOf(book) = {}
      BY <1>4, <1>6
    <2> QED BY <1>1, <1>6, <2>1 DEF KfxInv, Finish, RoomyBooksAreReadAsStored, StoredResult
  <1>7. ASSUME NEW m \in OfType(book, BookMetadata), OfType(book, BookMetadata) = {m},
               book.entries[m].bad # "data" /\ Personal(book, m) /\ Finish("none")
        PROVE  KfxInv'
    <2>1. MetadataOf(book) = {m}
      BY <1>4, <1>7
    <2>2. StoredResult(book) = "none"
      BY <1>2, <1>7, <2>1 DEF StoredResult
    <2> QED BY <1>1, <1>7, <2>2 DEF KfxInv, Finish, RoomyBooksAreReadAsStored
  <1>8. ASSUME NEW m \in OfType(book, BookMetadata), OfType(book, BookMetadata) = {m},
               /\ book.entries[m].bad # "data" /\ ~Personal(book, m)
               /\ want' = book.entries[m].link
               /\ Decode(book.entries[m].data)
               /\ pc' = "cover"
               /\ UNCHANGED <<book, next, result, shown>>
        PROVE  KfxInv'
    <2>1. HasMetadata(book, m) /\ m \in DOMAIN book.entries
      BY <1>2, <1>4, <1>8 DEF HasMetadata
    <2>2. Behind(book, book.entries[m].data) \subseteq DataTails(book, BookMetadata)
      BY DEF DataTails
    <2>3. overwritten' \subseteq InfoTails(book) \cup DataTails(book, BookMetadata)
      BY <1>1, <1>8, <2>1, <2>2, AppendedInTail, EntryTypes DEF Decode, KfxInv
    <2> QED BY <1>1, <1>8, <2>1, <2>3 DEF KfxInv, RoomyBooksAreReadAsStored
  <1> QED BY <1>3, <1>5, <1>6, <1>7, <1>8 DEF ReadMetadata

LEMMA ReadCoverStep == KfxInv /\ ReadCover => KfxInv'
  <1> SUFFICES ASSUME KfxInv, ReadCover PROVE KfxInv'
    OBVIOUS
  <1>1. book \in Containers /\ pc = "cover"
    BY KfxAssumption DEF KfxInv, ReadCover
  <1>2. PICK m \in DOMAIN book.entries :
          /\ HasMetadata(book, m)
          /\ want = book.entries[m].link
          /\ overwritten \subseteq InfoTails(book) \cup DataTails(book, BookMetadata)
    BY <1>1 DEF KfxInv
  <1>3. PicturesOf(book) = {} => StoredResult(book) = "failed"
    BY <1>2 DEF StoredResult, HasMetadata
  <1>4. CASE Named(book, want, ExternalResource) = {} /\ Finish("failed")
    <2>1. GetByName(book, want, ExternalResource) = {}
      BY <1>4 DEF GetByName
    <2>2. PicturesOf(book) = {}
      BY <1>2, <2>1 DEF PicturesOf, HasMetadata
    <2> QED BY <1>1, <1>3, <1>4, <2>2 DEF KfxInv, Finish, RoomyBooksAreReadAsStored
  <1>5. ASSUME NEW i \in GetByName(book, want, ExternalResource),
               ~Intact(Body(book.entries[i])) /\ Finish("garbled")
        PROVE  KfxInv'
    <2>1. i \in DOMAIN book.entries /\ book.entries[i].type = ExternalResource
      BY <1>1, OneIsFound
    <2>2. ASSUME Roomy(book) PROVE Body(book.entries[i]) \cap overwritten = {}
      <3>. ExternalResource # BookMetadata
        BY DEF BookMetadata, ExternalResource
      <3>1. ClearOf(book, Body(book.entries[i]), BookMetadata)
        BY <2>1, <2>2 DEF Roomy
      <3>2. Body(book.entries[i]) \cap DataTails(book, BookMetadata) = {}
        BY <1>1, <3>1, ClearOfTails
      <3> QED BY <1>1, <1>2, <2>1, <2>2, <3>2, RoomyOfInfos
    <2> QED BY <1>1, <1>5, <2>2 DEF KfxInv, Finish, RoomyBooksAreReadAsStored, Intact
  <1>6. ASSUME NEW i \in GetByName(book, want, ExternalResource),
               book.entries[i].bad = "data" /\ Finish("failed")
        PROVE  KfxInv'
    <2>1. PicturesOf(book) = {}
      BY <1>1, <1>2, <1>6, PicturesFound
    <2> QED BY <1>1, <1>3, <1>6, <2>1 DEF KfxInv, Finish, RoomyBooksAreReadAsStored
  <1>7. ASSUME NEW i \in GetByName(book, want, ExternalResource),
               /\ book.entries[i].bad # "data"
               /\ want' = book.entries[i].link
               /\ Decode(book.entries[i].data)
               /\ pc' = "image"
               /\ UNCHANGED <<book, next, result, shown>>
        PROVE  KfxInv'
    <2>1. i \in OfType(book, ExternalResource) /\ i \in DOMAIN book.entries
      BY <1>1, OneIsFound DEF OfType
    <2>2. HasCover(book, m, i)
      BY <1>2, <1>7 DEF HasCover
    <2>3. Behind(book, book.entries[i].data) \subseteq DataTails(book, ExternalResource)
      BY <2>1 DEF DataTails
    <2>4. overwritten' \subseteq InfoTails(book) \cup DataTails(book, BookMetadata)
                                  \cup DataTails(book, ExternalResource)
      BY <1>1, <1>2, <1>7, <2>1, <2>3, AppendedInTail, EntryTypes DEF Decode
    <2> QED BY <1>1, <1>2, <1>7, <2>1, <2>2, <2>4 DEF KfxInv, RoomyBooksAreReadAsStored
  <1> QED BY <1>4, <1>5, <1>6, <1>7 DEF ReadCover

LEMMA ReadImageStep == KfxInv /\ ReadImage => KfxInv'
  <1> SUFFICES ASSUME KfxInv, ReadImage PROVE KfxInv'
    OBVIOUS
  <1>1. book \in Containers /\ pc = "image"
    BY KfxAssumption DEF KfxInv, ReadImage
  <1>2. PICK m \in DOMAIN book.entries, c \in DOMAIN book.entries :
          /\ HasMetadata(book, m)
          /\ HasCover(book, m, c)
          /\ want = book.entries[c].link
          /\ overwritten \subseteq InfoTails(book) \cup DataTails(book, BookMetadata)
                                     \cup DataTails(book, ExternalResource)
    BY <1>1 DEF KfxInv
  <1>3. PicturesOf(book) = {p \in DOMAIN book.entries :
            book.entries[p].bad # "data" /\ p \in GetByName(book, want, RawMedia)}
    BY <1>1, <1>2, PicturesFound DEF HasCover
  <1>4. StoredResult(book) = IF PicturesOf(book) = {} THEN "failed" ELSE "thumb"
    BY <1>2 DEF StoredResult, HasMetadata
  <1>5. CASE Named(book, want, RawMedia) = {} /\ Finish("failed")
    <2>1. PicturesOf(book) = {}
      BY <1>3, <1>5 DEF GetByName
    <2> QED BY <1>1, <1>4, <1>5, <2>1 DEF KfxInv, Finish, RoomyBooksAreReadAsStored
  <1>6. ASSUME NEW i \in GetByName(book, want, RawMedia),
               ~Intact(Body(book.entries[i])) /\ Finish("garbled")
        PROVE  KfxInv'
    <2>1. i \in DOMAIN book.entries /\ book.entries[i].type = RawMedia
      BY <1>1, OneIsFound
    <2>2. ASSUME Roomy(book) PROVE Body(book.entries[i]) \cap overwritten = {}
      <3>. RawMedia # BookMetadata
        BY DEF BookMetadata, RawMedia
      <3>1. /\ ClearOf(book, Body(book.entries[i]), BookMetadata)
            /\ ClearOf(book, Body(book.entries[i]), ExternalResource)
        BY <2>1, <2>2 DEF Roomy
      <3>2. /\ Body(book.entries[i]) \cap DataTails(book, BookMetadata) = {}
            /\ Body(book.entries[i]) \cap DataTails(book, ExternalResource) = {}
        BY <1>1, <3>1, ClearOfTails
      <3> QED BY <1>1, <1>2, <2>1, <2>2, <3>2, RoomyOfInfos
    <2> QED BY <1>1, <1>6, <2>2 DEF KfxInv, Finish, RoomyBooksAreReadAsStored, Intact
  <1>7. ASSUME NEW i \in GetByName(book, want, RawMedia), book.entries[i].bad = "data" /\ Finish("failed")
        PROVE  KfxInv'
    <2>1. GetByName(book, want, RawMedia) = {i}
      BY <1>1, OneIsFound
    <2>2. PicturesOf(book) = {}
      BY <1>3, <1>7, <2>1
    <2> QED BY <1>1, <1>4, <1>7, <2>2 DEF KfxInv, Finish, RoomyBooksAreReadAsStored
  <1>8. ASSUME NEW i \in GetByName(book, want, RawMedia),
               /\ book.entries[i].bad # "data"
               /\ shown' = i /\ result' = "thumb" /\ pc' = "done"
               /\ UNCHANGED <<book, next, want, overwritten>>
        PROVE  KfxInv'
    <2>1. i \in PicturesOf(book)
      BY <1>1, <1>3, <1>8, OneIsFound
    <2>2. book.asin \in Names
      BY <1>1, <1>2 DEF HasMetadata, Personal, Containers
    <2> QED BY <1>1, <1>4, <1>8, <2>1, <2>2 DEF KfxInv, RoomyBooksAreReadAsStored
  <1> QED BY <1>5, <1>6, <1>7, <1>8 DEF ReadImage

-----------------------------------------------------------------------------
LEMMA KfxStarts == KfxInit => KfxInv
  BY DEF KfxInit, KfxInv, RoomyBooksAreReadAsStored

LEMMA KfxStep == KfxInv /\ [KfxNext]_kfxVars => KfxInv'
  <1>1. ASSUME KfxInv, NEW b \in KfxBooks, NewReader(b) PROVE KfxInv'
    BY <1>1 DEF NewReader, KfxInv, RoomyBooksAreReadAsStored
  <1>2. ASSUME KfxInv, CloseReader PROVE KfxInv'
    BY <1>2 DEF CloseReader, KfxInv, RoomyBooksAreReadAsStored
  <1>3. ASSUME KfxInv, UNCHANGED kfxVars PROVE KfxInv'
    BY <1>3 DEF kfxVars, KfxInv, RoomyBooksAreReadAsStored
  <1> QED BY <1>1, <1>2, <1>3, OpenContainerStep, ReadEntryStep, ReadMetadataStep,
             ReadCoverStep, ReadImageStep DEF KfxNext, ExtractThumbnail

LEMMA KfxInvHolds == KfxSpec => []KfxInv
  BY KfxStarts, KfxStep, PTL DEF KfxSpec

(* For every KFX book, however large and in whatever order: when what is   *)
(* to be read keeps clear of what decodeIon appends to the symbols, the    *)
(* reader gives what the book has.                                         *)
THEOREM RoomyBooksAreReadRight == KfxSpec => []RoomyBooksAreReadAsStored
  <1>1. KfxInv => RoomyBooksAreReadAsStored
    BY DEF KfxInv
  <1> QED BY <1>1, KfxInvHolds, PTL

-----------------------------------------------------------------------------
(* Where the walk is, and that nothing is known of the files behind.       *)
ScanInv ==
  /\ shelf \in Shelves
  /\ at \in Nat \ {0}
  /\ outcome \in [DOMAIN shelf -> {"pending", "none", "failed", "saved", "unsaved"}]
  /\ names \in [DOMAIN shelf -> Names \cup {NoName}]
  /\ DOMAIN pictures = Names
  /\ \A f \in DOMAIN shelf : f >= at => outcome[f] = "pending"
  /\ \A f \in DOMAIN shelf : outcome[f] = "saved" => names[f] \in Names
  /\ NamesLeadToPictures

LEMMA FileTypes ==
  ASSUME shelf \in Shelves, at \in DOMAIN shelf
  PROVE  /\ File.ext = ".kfx" => File.book \in KfxBooks
         /\ File.ext \in {".mobi", ".azw3"} => File.book \in MobiBooks
         /\ Len(shelf) \in Nat /\ DOMAIN shelf = 1 .. Len(shelf)
  <1>1. shelf \in Seq(Files)
    BY ShelvesAssumption
  <1>2. shelf[at] \in Files /\ Len(shelf) \in Nat /\ DOMAIN shelf = 1 .. Len(shelf)
    BY <1>1
  <1> QED BY <1>2 DEF File, Files

(* A step of the walk is one of the reader, or leaves it alone.            *)
LEMMA StepReads == shelf \in Shelves /\ [Next]_vars => [KfxNext]_kfxVars
  <1>1. ASSUME shelf \in Shelves, OpenKfx PROVE \E b \in KfxBooks : NewReader(b)
    BY <1>1, FileTypes DEF OpenKfx, Looking
  <1> QED BY <1>1 DEF Next, ReadKfx, CloseKfx, ReadMobi, SkipFile, KfxNext, vars

LEMMA ReturnKeepsTypes ==
  ASSUME ScanInv, at \in DOMAIN shelf, NEW name \in Names \cup {NoName},
         NEW o \in {"none", "failed", "saved", "unsaved"}, Return(o, name)
  PROVE  /\ shelf' = shelf /\ at' \in Nat \ {0} /\ at' > at
         /\ outcome' \in [DOMAIN shelf -> {"pending", "none", "failed", "saved", "unsaved"}]
         /\ names' \in [DOMAIN shelf -> Names \cup {NoName}]
         /\ outcome'[at] = o /\ names'[at] = name
         /\ \A f \in DOMAIN shelf : f # at => outcome'[f] = outcome[f] /\ names'[f] = names[f]
         /\ \A f \in DOMAIN shelf : f >= at' => outcome'[f] = "pending"
         /\ \A f \in DOMAIN shelf : outcome[f] # "pending" => f < at
  <1>1. Len(shelf) \in Nat /\ DOMAIN shelf = 1 .. Len(shelf)
    BY FileTypes DEF ScanInv
  <1>2. /\ shelf' = shelf /\ at' = at + 1
        /\ outcome' = [outcome EXCEPT ![at] = o]
        /\ names' = [names EXCEPT ![at] = name]
    BY DEF Return
  <1>3. outcome' \in [DOMAIN shelf -> {"pending", "none", "failed", "saved", "unsaved"}]
    BY <1>2 DEF ScanInv
  <1>4. names' \in [DOMAIN shelf -> Names \cup {NoName}]
    BY <1>2 DEF ScanInv
  <1>5. \A f \in DOMAIN shelf : f # at => outcome'[f] = outcome[f] /\ names'[f] = names[f]
    BY <1>2 DEF ScanInv
  <1>6. outcome'[at] = o /\ names'[at] = name
    BY <1>2 DEF ScanInv
  <1>7. \A f \in DOMAIN shelf : outcome[f] # "pending" => f < at
    BY <1>1 DEF ScanInv
  <1>8. \A f \in DOMAIN shelf : f >= at' => outcome'[f] = "pending"
    BY <1>1, <1>2, <1>5 DEF ScanInv
  <1>9. at' \in Nat \ {0} /\ at' > at
    BY <1>2 DEF ScanInv
  <1> QED BY <1>2, <1>3, <1>4, <1>5, <1>6, <1>7, <1>8, <1>9

LEMMA NoThumbnailStep ==
  ASSUME ScanInv, at \in DOMAIN shelf, NEW o \in {"none", "failed"}, WithoutThumbnail(o)
  PROVE  ScanInv'
  <1>1. Return(o, NoName) /\ pictures' = pictures
    BY DEF WithoutThumbnail
  <1>2. Len(shelf) \in Nat /\ DOMAIN shelf = 1 .. Len(shelf)
    BY FileTypes DEF ScanInv
  <1>3. NamesLeadToPictures'
    <2> SUFFICES ASSUME NEW f \in DOMAIN shelf, outcome'[f] = "saved"
                 PROVE  \E g \in f .. Len(shelf) :
                          /\ names'[g] = names'[f]
                          /\ \/ outcome'[g] = "saved" /\ pictures[names'[f]].of = g
                             \/ outcome'[g] = "unsaved" /\ g # f /\ pictures[names'[f]] = Partial
      BY <1>1, ReturnKeepsTypes DEF NamesLeadToPictures
    <2>1. f # at /\ outcome[f] = "saved" /\ names'[f] = names[f]
      BY <1>1, ReturnKeepsTypes
    <2>2. PICK g \in f .. Len(shelf) :
            /\ names[g] = names[f]
            /\ \/ outcome[g] = "saved" /\ pictures[names[f]].of = g
               \/ outcome[g] = "unsaved" /\ g # f /\ pictures[names[f]] = Partial
      BY <2>1 DEF ScanInv, NamesLeadToPictures
    <2>3. g \in DOMAIN shelf /\ g # at
      BY <1>1, <1>2, <2>2, ReturnKeepsTypes DEF ScanInv
    <2> QED BY <1>1, <2>1, <2>2, <2>3, ReturnKeepsTypes
  <1>4. \A f \in DOMAIN shelf : outcome'[f] = "saved" => names'[f] \in Names
    BY <1>1, ReturnKeepsTypes DEF ScanInv
  <1> QED BY <1>1, <1>3, <1>4, ReturnKeepsTypes DEF ScanInv

LEMMA SaveResultStep ==
  ASSUME ScanInv, at \in DOMAIN shelf, NEW name \in Names, NEW part,
         SaveResult(name, Picture(part))
  PROVE  ScanInv'
  <1>1. PICK o \in {"saved", "unsaved"} :
          /\ Return(o, name)
          /\ \/ o = "saved" /\ pictures' = [pictures EXCEPT ![name] = Picture(part)]
             \/ o = "unsaved" /\ pictures' \in {pictures, [pictures EXCEPT ![name] = Partial]}
    BY DEF SaveResult
  <1>2. Len(shelf) \in Nat /\ DOMAIN shelf = 1 .. Len(shelf)
    BY FileTypes DEF ScanInv
  <1>3. /\ DOMAIN pictures' = Names
        /\ \A n \in Names \ {name} : pictures'[n] = pictures[n]
        /\ o = "saved" => pictures'[name].of = at
        /\ o = "unsaved" => pictures'[name] = pictures[name] \/ pictures'[name] = Partial
    BY <1>1 DEF ScanInv, Picture
  <1>4. NamesLeadToPictures'
    <2> SUFFICES ASSUME NEW f \in DOMAIN shelf, outcome'[f] = "saved"
                 PROVE  \E g \in f .. Len(shelf) :
                          /\ names'[g] = names'[f]
                          /\ \/ outcome'[g] = "saved" /\ pictures'[names'[f]].of = g
                             \/ outcome'[g] = "unsaved" /\ g # f /\ pictures'[names'[f]] = Partial
      BY <1>1, ReturnKeepsTypes DEF NamesLeadToPictures
    <2>1. CASE f = at
      <3>1. o = "saved" /\ names'[at] = name
        BY <1>1, <2>1, ReturnKeepsTypes
      <3> QED BY <1>2, <1>3, <2>1, <3>1 DEF ScanInv
    <2>2. CASE f # at
      <3>1. outcome[f] = "saved" /\ names'[f] = names[f] /\ f < at
        BY <1>1, <2>2, ReturnKeepsTypes
      <3>2. PICK g \in f .. Len(shelf) :
              /\ names[g] = names[f]
              /\ \/ outcome[g] = "saved" /\ pictures[names[f]].of = g
                 \/ outcome[g] = "unsaved" /\ g # f /\ pictures[names[f]] = Partial
        BY <3>1 DEF ScanInv, NamesLeadToPictures
      <3>3. g \in DOMAIN shelf /\ g # at
        BY <1>1, <1>2, <3>2, ReturnKeepsTypes DEF ScanInv
      <3>4. names'[g] = names[g] /\ outcome'[g] = outcome[g]
        BY <1>1, <3>3, ReturnKeepsTypes
      <3>5. CASE pictures'[names[f]] = pictures[names[f]]
        BY <3>1, <3>2, <3>4, <3>5
      <3>6. CASE pictures'[names[f]] # pictures[names[f]]
        <4>1. names[f] = name
          <5>1. names[f] \in Names
            BY <3>1 DEF ScanInv
          <5> QED BY <1>3, <3>6, <5>1
        <4>2. names'[at] = name /\ outcome'[at] = o /\ at \in f .. Len(shelf)
          BY <1>1, <1>2, <3>1, ReturnKeepsTypes DEF ScanInv
        <4> QED BY <1>3, <3>1, <3>6, <4>1, <4>2, <2>2
      <3> QED BY <3>5, <3>6
    <2> QED BY <2>1, <2>2
  <1>5. \A f \in DOMAIN shelf : outcome'[f] = "saved" => names'[f] \in Names
    BY <1>1, ReturnKeepsTypes DEF ScanInv
  <1> QED BY <1>1, <1>3, <1>4, <1>5, ReturnKeepsTypes DEF ScanInv

LEMMA ScanStarts == Init => ScanInv
  BY DEF Init, ScanInv, NamesLeadToPictures

LEMMA ScanStep == KfxInv /\ ScanInv /\ [Next]_vars => ScanInv'
  <1> SUFFICES ASSUME KfxInv, ScanInv, [Next]_vars PROVE ScanInv'
    OBVIOUS
  <1>1. CASE UNCHANGED scanVars
    BY <1>1 DEF scanVars, ScanInv, NamesLeadToPictures, Partial
  <1>2. CASE CloseKfx
    <2>1. at \in DOMAIN shelf
      BY <1>2 DEF CloseKfx, Looking
    <2>2. CASE \E o \in {"none", "failed"} : WithoutThumbnail(o)
      BY <2>1, <2>2, NoThumbnailStep
    <2>3. CASE \E n \in Names : SaveResult(n, Picture(0))
      BY <2>1, <2>3, SaveResultStep
    <2>4. CASE result = "thumb" /\ SaveResult(book.asin, Picture(shown))
      <3>1. book.asin \in Names
        BY <2>4 DEF KfxInv
      <3> QED BY <2>1, <2>4, <3>1, SaveResultStep
    <2> QED BY <1>2, <2>2, <2>3, <2>4 DEF CloseKfx
  <1>3. CASE ReadMobi
    <2>1. at \in DOMAIN shelf /\ File.book \in MobiBooks
      BY <1>3, FileTypes DEF ReadMobi, Looking, ScanInv
    <2> DEFINE t == MobiThumbnail(File.book)
               name == MobiName(File.book)
    <2>2. CASE t.result # "thumb" /\ WithoutThumbnail(t.result)
      <3>1. t.result \in {"none", "failed", "thumb"}
        BY DEF MobiThumbnail, Failure, Nothing, MadeFrom
      <3> QED BY <2>1, <2>2, <3>1, NoThumbnailStep
    <2>3. CASE WithoutThumbnail("none")
      BY <2>1, <2>3, NoThumbnailStep
    <2>4. CASE ~Blank(name) /\ SaveResult(Head(name), Picture(t.section))
      <3>1. Head(name) \in Names
        BY <2>1, <2>4, NamesAssumption
      <3> QED BY <2>1, <2>4, <3>1, SaveResultStep
    <2> QED BY <1>3, <2>2, <2>3, <2>4, Zenon DEF ReadMobi
  <1>4. CASE SkipFile
    BY <1>4, NoThumbnailStep DEF SkipFile, Looking
  <1> QED BY <1>1, <1>2, <1>3, <1>4 DEF Next, OpenKfx, ReadKfx, vars

(* The walk reads each KFX book as KfxReader says.                         *)
THEOREM ScanReads == Spec => KfxSpec
  <1>1. Init => KfxInit /\ shelf \in Shelves
    BY DEF Init
  <1>2. shelf \in Shelves /\ [Next]_vars => (shelf \in Shelves)'
    BY DEF Next, OpenKfx, ReadKfx, CloseKfx, ReadMobi, SkipFile, WithoutThumbnail,
           SaveResult, Return, scanVars, vars
  <1> QED BY <1>1, <1>2, StepReads, PTL DEF Spec, KfxSpec

(* Whatever books there are, in any order, and however many writes fail: a *)
(* name that ExtractThumbnail returns leads to a picture.                  *)
THEOREM NamesAreGood == Spec => []NamesLeadToPictures
  <1>1. Spec => []KfxInv
    BY ScanReads, KfxInvHolds, PTL
  <1>2. Spec => []ScanInv
    BY <1>1, ScanStarts, ScanStep, PTL DEF Spec
  <1>3. ScanInv => NamesLeadToPictures
    BY DEF ScanInv
  <1> QED BY <1>2, <1>3, PTL
-----------------------------------------------------------------------------
(* A number that is the index of a section is not read as a negative one.  *)
LEMMA NumberTypes ==
  ASSUME NEW b \in MobiBooks
  PROVE  /\ SignBit \in Nat \ {0}
         /\ b.firstImage \in 0 .. (2 * SignBit - 1)
         /\ Len(b.sections) \in 1 .. SignBit
         /\ \A exth \in {b.kf8, b.coverOffset, b.thumbOffset} :
              exth # <<>> => Head(exth) \in 0 .. (2 * SignBit - 1)
  <1>1. WellFormed(b) /\ SignBit \in Nat \ {0}
    BY MobiBooksAssumption, MobiAssumption
  <1>2. ASSUME NEW exth \in Seq(Numbers), exth # <<>> PROVE Head(exth) \in Numbers
    BY <1>2
  <1> QED BY <1>1, <1>2 DEF WellFormed, Numbers, Unset

(* An index that is made of an offset is where the book says, unless it    *)
(* lies in front of the resources.                                         *)
LEMMA IndexIsDeclared ==
  ASSUME NEW b \in MobiBooks, NEW exth \in {b.coverOffset, b.thumbOffset},
         IsPicture(b, IndexOf(b, exth)), PicturesInPlace(b)
  PROVE  SaysWhere(b, exth, IndexOf(b, exth))
  <1> DEFINE i == IndexOf(b, exth)
  <1>1. i \in 0 .. (Len(b.sections) - 1)
    BY DEF IsPicture, HasSection
  <1>2. b.firstImage <= i
    BY <1>1, NumberTypes DEF PicturesInPlace
  <1>3. exth # <<>>
    BY <1>1 DEF IndexOf
  <1>4. i = Signed(Head(exth)) + Signed(b.firstImage)
    BY <1>3 DEF IndexOf
  <1> HIDE DEF i
  <1>5. Head(exth) \in 0 .. (2 * SignBit - 1) /\ i < SignBit
    BY <1>1, <1>3, NumberTypes
  <1>6. b.firstImage < SignBit
    BY <1>1, <1>2, <1>5, NumberTypes
  <1>7. Signed(b.firstImage) = b.firstImage
    BY <1>6, NumberTypes DEF Signed
  <1>8. Signed(Head(exth)) = Head(exth) /\ Head(exth) < SignBit
    BY <1>2, <1>4, <1>5, <1>7, <1>1, NumberTypes DEF Signed
  <1> QED BY <1>3, <1>4, <1>5, <1>7, <1>8, NumberTypes DEF SaysWhere, Unset, i

(* And the other way: where a book says there is a picture, it is found.   *)
LEMMA DeclaredIsFound ==
  ASSUME NEW b \in MobiBooks, NEW exth \in {b.coverOffset, b.thumbOffset},
         NEW i \in Nat, SaysWhere(b, exth, i), IsPicture(b, i)
  PROVE  IndexOf(b, exth) = i
  <1>1. exth # <<>> /\ i = b.firstImage + Head(exth)
    BY DEF SaysWhere
  <1>2. i < SignBit
    BY NumberTypes DEF IsPicture, HasSection
  <1>3. Signed(b.firstImage) = b.firstImage /\ Signed(Head(exth)) = Head(exth)
    BY <1>1, <1>2, NumberTypes DEF Signed
  <1>4. Head(exth) \in Int /\ b.firstImage \in Int
    BY <1>1, NumberTypes
  <1> QED BY <1>1, <1>3, <1>4 DEF IndexOf

LEMMA TypeOfHalf == ASSUME NEW b PROVE StoreBook(b) <=> Prefer(b, "type") = <<"EBOK">>
  BY DEF StoreBook, Prefer

LEMMA ThumbnailIsDeclared ==
  ASSUME NEW b \in MobiBooks, MobiThumbnail(b).result = "thumb"
  PROVE  /\ StoreBook(b)
         /\ PicturesInPlace(b) =>
              SaysWhere(b, b.coverOffset, MobiThumbnail(b).section)
                \/ SaysWhere(b, b.thumbOffset, MobiThumbnail(b).section)
  <1> DEFINE cover == IndexOf(b, b.coverOffset)
             thumb == IndexOf(b, b.thumbOffset)
  <1>1. Failure.result # "thumb" /\ Nothing.result # "thumb"
    BY DEF Failure, Nothing
  <1>2. /\ Prefer(b, "type") = <<"EBOK">>
        /\ \/ MobiThumbnail(b) = MadeFrom(thumb) /\ thumb >= 0 /\ IsPicture(b, thumb)
           \/ MobiThumbnail(b) = MadeFrom(cover) /\ IsPicture(b, cover)
    BY <1>1, Zenon DEF MobiThumbnail
  <1>3. \A i : MadeFrom(i).section = i
    BY DEF MadeFrom
  <1> QED BY <1>2, <1>3, TypeOfHalf, IndexIsDeclared

LEMMA DeclaredCover ==
  ASSUME NEW b \in MobiBooks, Declares(b)
  PROVE  MobiThumbnail(b).result = "thumb"
  <1> DEFINE cover == IndexOf(b, b.coverOffset)
             thumb == IndexOf(b, b.thumbOffset)
  <1>1. ~b.encrypted /\ Prefer(b, "type") = <<"EBOK">>
    BY TypeOfHalf DEF Declares
  <1>2. IsPicture(b, cover) /\ cover >= 0
    <2>1. PICK i \in 0 .. Len(b.sections) : SaysWhere(b, b.coverOffset, i) /\ IsPicture(b, i)
      BY DEF Declares
    <2>2. i \in Nat
      BY NumberTypes
    <2> QED BY <2>1, <2>2, DeclaredIsFound
  <1>3. thumb >= 0 => IsPicture(b, thumb)
    <2>1. CASE b.thumbOffset = <<>>
      BY <2>1 DEF IndexOf
    <2>2. CASE \E i \in 0 .. Len(b.sections) : SaysWhere(b, b.thumbOffset, i) /\ IsPicture(b, i)
      <3>1. PICK i \in 0 .. Len(b.sections) : SaysWhere(b, b.thumbOffset, i) /\ IsPicture(b, i)
        BY <2>2
      <3>2. i \in Nat
        BY NumberTypes
      <3> QED BY <3>1, <3>2, DeclaredIsFound
    <2> QED BY <2>1, <2>2 DEF Declares
  <1>4. ~(Kf8Section(b) >= 0 /\ ~HasSection(b, Kf8Section(b)))
    <2>1. CASE b.kf8 = <<>>
      BY <2>1 DEF Kf8Section
    <2>2. CASE b.kf8 = <<Unset>>
      BY <2>2, NumberTypes DEF Kf8Section, Signed, Unset
    <2>3. CASE b.kf8 # <<>> /\ HasSection(b, Head(b.kf8))
      BY <2>3, NumberTypes DEF Kf8Section, Signed, HasSection
    <2> QED BY <2>1, <2>2, <2>3 DEF Declares
  <1>5. MobiThumbnail(b) \in {MadeFrom(thumb), MadeFrom(cover)}
    <2> HIDE DEF cover, thumb
    <2>1. ~(cover < 0)
      BY <1>2 DEF IsPicture, HasSection
    <2> USE DEF cover, thumb
    <2> QED BY <1>1, <1>2, <1>3, <1>4, <2>1, Zenon DEF MobiThumbnail
  <1> QED BY <1>5 DEF MadeFrom
-----------------------------------------------------------------------------
(* What has become of the Mobi books that have been looked at, and what    *)
(* pictures of theirs are made from.                                       *)
MobiInv ==
  /\ \A f \in DOMAIN shelf : IsMobi(f) =>
       LET t == MobiThumbnail(shelf[f].book) IN
         /\ outcome[f] \in {"saved", "unsaved"} => t.result = "thumb"
         /\ f < at /\ t.result = "thumb" /\ ~Blank(MobiName(shelf[f].book)) =>
              outcome[f] \in {"saved", "unsaved"}
  /\ \A n \in Names, f \in DOMAIN shelf : pictures[n].of = f =>
       /\ f < at
       /\ IsMobi(f) => /\ MobiThumbnail(shelf[f].book).result = "thumb"
                       /\ pictures[n].part = MobiThumbnail(shelf[f].book).section

LEMMA MobiStarts == Init => MobiInv
  <1> SUFFICES ASSUME Init PROVE MobiInv
    OBVIOUS
  <1>1. shelf \in Shelves /\ at = 1
    BY DEF Init
  <1>2. \A f \in DOMAIN shelf : f \in Nat \ {0}
    BY <1>1, ShelvesAssumption
  <1>3. \A f \in DOMAIN shelf : outcome[f] = "pending"
    BY DEF Init
  <1>4. \A n \in Names : pictures[n].of = 0
    BY DEF Init, Absent
  <1> QED BY <1>1, <1>2, <1>3, <1>4 DEF MobiInv

(* Coming back without a thumbnail from a file that has none to give.      *)
LEMMA NoMobiThumbnailStep ==
  ASSUME ScanInv, MobiInv, at \in DOMAIN shelf, NEW o \in {"none", "failed"},
         WithoutThumbnail(o),
         IsMobi(at) => \/ MobiThumbnail(File.book).result # "thumb"
                       \/ Blank(MobiName(File.book))
  PROVE  MobiInv'
  <1>1. Return(o, NoName) /\ pictures' = pictures
    BY DEF WithoutThumbnail
  <1>2. /\ shelf' = shelf /\ at' = at + 1
        /\ outcome'[at] = o
        /\ \A f \in DOMAIN shelf : f # at => outcome'[f] = outcome[f]
    BY <1>1, ReturnKeepsTypes DEF Return
  <1>3. \A f \in DOMAIN shelf : f \in Nat
    BY FileTypes DEF ScanInv
  <1>4. ASSUME NEW f \in DOMAIN shelf, IsMobi(f)
        PROVE  LET t == MobiThumbnail(shelf[f].book) IN
                 /\ outcome'[f] \in {"saved", "unsaved"} => t.result = "thumb"
                 /\ f < at' /\ t.result = "thumb" /\ ~Blank(MobiName(shelf[f].book)) =>
                      outcome'[f] \in {"saved", "unsaved"}
    <2>1. CASE f = at
      BY <1>2, <1>4, <2>1 DEF File
    <2>2. CASE f # at
      <3>1. f < at' => f < at
        BY <1>2, <1>3, <2>2 DEF ScanInv
      <3> QED BY <1>2, <1>4, <2>2, <3>1 DEF MobiInv
    <2> QED BY <2>1, <2>2
  <1>5. \A f \in DOMAIN shelf : f < at => f < at'
    BY <1>2, <1>3 DEF ScanInv
  <1> QED BY <1>1, <1>2, <1>4, <1>5 DEF MobiInv, IsMobi

LEMMA SaveMobiStep ==
  ASSUME ScanInv, MobiInv, at \in DOMAIN shelf, NEW name \in Names, NEW part,
         SaveResult(name, Picture(part)),
         IsMobi(at) => /\ MobiThumbnail(File.book).result = "thumb"
                       /\ part = MobiThumbnail(File.book).section
  PROVE  MobiInv'
  <1>1. PICK o \in {"saved", "unsaved"} :
          /\ Return(o, name)
          /\ pictures' \in {pictures, [pictures EXCEPT ![name] = Partial],
                            [pictures EXCEPT ![name] = Picture(part)]}
    BY DEF SaveResult
  <1>2. /\ shelf' = shelf /\ at' = at + 1
        /\ outcome'[at] = o
        /\ \A f \in DOMAIN shelf : f # at => outcome'[f] = outcome[f]
    BY <1>1, ReturnKeepsTypes DEF Return
  <1>3. \A f \in DOMAIN shelf : f \in Nat \ {0}
    BY FileTypes DEF ScanInv
  <1>4. ASSUME NEW f \in DOMAIN shelf, IsMobi(f)
        PROVE  LET t == MobiThumbnail(shelf[f].book) IN
                 /\ outcome'[f] \in {"saved", "unsaved"} => t.result = "thumb"
                 /\ f < at' /\ t.result = "thumb" /\ ~Blank(MobiName(shelf[f].book)) =>
                      outcome'[f] \in {"saved", "unsaved"}
    <2>1. CASE f = at
      BY <1>2, <1>4, <2>1 DEF File
    <2>2. CASE f # at
      <3>1. f < at' => f < at
        BY <1>2, <1>3, <2>2 DEF ScanInv
      <3> QED BY <1>2, <1>4, <2>2, <3>1 DEF MobiInv
    <2> QED BY <2>1, <2>2
  <1>5. ASSUME NEW n \in Names, NEW f \in DOMAIN shelf, pictures'[n].of = f
        PROVE  /\ f < at'
               /\ IsMobi(f) => /\ MobiThumbnail(shelf[f].book).result = "thumb"
                               /\ pictures'[n].part = MobiThumbnail(shelf[f].book).section
    <2>1. CASE pictures'[n] = pictures[n]
      <3>1. f < at => f < at'
        BY <1>2, <1>3 DEF ScanInv
      <3> QED BY <1>5, <2>1, <3>1 DEF MobiInv
    <2>2. CASE pictures'[n] # pictures[n]
      <3>1. pictures'[n] \in {Partial, Picture(part)}
        BY <1>1, <2>2 DEF ScanInv
      <3>2. pictures'[n] = Picture(part)
        BY <1>3, <1>5, <3>1 DEF Partial
      <3>3. f = at /\ pictures'[n].part = part
        BY <1>5, <3>2 DEF Picture
      <3> QED BY <1>2, <1>3, <3>3 DEF File
    <2> QED BY <2>1, <2>2
  <1> QED BY <1>2, <1>4, <1>5 DEF MobiInv, IsMobi

LEMMA MobiStep == KfxInv /\ ScanInv /\ MobiInv /\ [Next]_vars => MobiInv'
  <1> SUFFICES ASSUME KfxInv, ScanInv, MobiInv, [Next]_vars PROVE MobiInv'
    OBVIOUS
  <1>1. CASE UNCHANGED scanVars
    BY <1>1 DEF scanVars, MobiInv, IsMobi
  <1>2. CASE CloseKfx
    <2>1. at \in DOMAIN shelf /\ ~IsMobi(at)
      BY <1>2 DEF CloseKfx, Looking, IsMobi, File
    <2>2. CASE \E o \in {"none", "failed"} : WithoutThumbnail(o)
      BY <2>1, <2>2, NoMobiThumbnailStep
    <2>3. CASE \E n \in Names : SaveResult(n, Picture(0))
      BY <2>1, <2>3, SaveMobiStep
    <2>4. CASE result = "thumb" /\ SaveResult(book.asin, Picture(shown))
      <3>1. book.asin \in Names
        BY <2>4 DEF KfxInv
      <3> QED BY <2>1, <2>4, <3>1, SaveMobiStep
    <2> QED BY <1>2, <2>2, <2>3, <2>4 DEF CloseKfx
  <1>3. CASE ReadMobi
    <2>1. at \in DOMAIN shelf /\ File.book \in MobiBooks
      BY <1>3, FileTypes DEF ReadMobi, Looking, ScanInv
    <2> DEFINE t == MobiThumbnail(File.book)
               name == MobiName(File.book)
    <2>2. CASE t.result # "thumb" /\ WithoutThumbnail(t.result)
      <3>1. t.result \in {"none", "failed", "thumb"}
        BY DEF MobiThumbnail, Failure, Nothing, MadeFrom
      <3> QED BY <2>1, <2>2, <3>1, NoMobiThumbnailStep
    <2>3. CASE Blank(name) /\ WithoutThumbnail("none")
      BY <2>1, <2>3, NoMobiThumbnailStep
    <2>4. CASE t.result = "thumb" /\ ~Blank(name) /\ SaveResult(Head(name), Picture(t.section))
      <3>1. Head(name) \in Names
        BY <2>1, <2>4, NamesAssumption
      <3> QED BY <2>1, <2>4, <3>1, SaveMobiStep
    <2> QED BY <1>3, <2>2, <2>3, <2>4, Zenon DEF ReadMobi
  <1>4. CASE SkipFile
    <2>1. at \in DOMAIN shelf /\ ~IsMobi(at)
      BY <1>4 DEF SkipFile, Looking, IsMobi, File
    <2> QED BY <1>4, <2>1, NoMobiThumbnailStep DEF SkipFile
  <1> QED BY <1>1, <1>2, <1>3, <1>4 DEF Next, OpenKfx, ReadKfx, vars

LEMMA MobiInvHolds == Spec => [](ScanInv /\ MobiInv)
  <1>1. Spec => []KfxInv
    BY ScanReads, KfxInvHolds, PTL
  <1> QED BY <1>1, ScanStarts, ScanStep, MobiStarts, MobiStep, PTL DEF Spec

(* The Mobi books on the shelf are among those there may be.               *)
LEMMA MobiOnShelf ==
  ASSUME ScanInv, NEW f \in DOMAIN shelf, IsMobi(f)
  PROVE  shelf[f].book \in MobiBooks
  <1>1. shelf \in Seq(Files)
    BY ShelvesAssumption DEF ScanInv
  <1>2. shelf[f] \in Files
    BY <1>1
  <1> QED BY <1>2 DEF Files, IsMobi

(* For every Mobi book with pictures only among its resources, and any     *)
(* width of the numbers: what is saved of it is a picture that it declares.*)
THEOREM SavedIsDeclared == Spec => []MobiThumbnailIsDeclared
  <1>1. ScanInv /\ MobiInv => MobiThumbnailIsDeclared
    <2> SUFFICES ASSUME ScanInv, MobiInv, NEW f \in DOMAIN shelf,
                        IsMobi(f), outcome[f] = "saved"
                 PROVE  LET b == shelf[f].book IN
                          /\ StoreBook(b)
                          /\ PicturesInPlace(b) =>
                               \A n \in Names : pictures[n].of = f =>
                                 SaysWhere(b, b.coverOffset, pictures[n].part)
                                   \/ SaysWhere(b, b.thumbOffset, pictures[n].part)
      BY DEF MobiThumbnailIsDeclared
    <2>1. shelf[f].book \in MobiBooks
      BY MobiOnShelf
    <2>2. MobiThumbnail(shelf[f].book).result = "thumb"
      BY DEF MobiInv
    <2>3. \A n \in Names : pictures[n].of = f =>
            pictures[n].part = MobiThumbnail(shelf[f].book).section
      BY DEF MobiInv
    <2> QED BY <2>1, <2>2, <2>3, ThumbnailIsDeclared
  <1> QED BY <1>1, MobiInvHolds, PTL

(* And the other way: a store book whose cover is where it says, as is its *)
(* thumbnail if it declares one, does not stay without a thumbnail.        *)
THEOREM DeclaredIsUsed == Spec => []DeclaredCoversAreUsed
  <1>1. ScanInv /\ MobiInv => DeclaredCoversAreUsed
    <2> SUFFICES ASSUME ScanInv, MobiInv, NEW f \in DOMAIN shelf,
                        IsMobi(f), f < at, Declares(shelf[f].book)
                 PROVE  outcome[f] \in {"saved", "unsaved"}
      BY DEF DeclaredCoversAreUsed
    <2>1. MobiThumbnail(shelf[f].book).result = "thumb"
      BY MobiOnShelf, DeclaredCover
    <2>2. ~Blank(MobiName(shelf[f].book))
      BY DEF Declares
    <2> QED BY <2>1, <2>2 DEF MobiInv
  <1> QED BY <1>1, MobiInvHolds, PTL
=============================================================================
