----------------------------- MODULE KfxReader -----------------------------
(***************************************************************************)
(* How the cover of a KFX book is found: NewReader and extractThumbnail of *)
(* thumbs/kfx.  The book is read into one buffer; the document symbols are *)
(* a slice of it, and decodeIon appends what it decodes to that slice.     *)
(* Append writes behind the symbols, into the book, while there is room.   *)
(*                                                                         *)
(* A position counts cells of the buffer, and a cell is a header, an entry *)
(* of the index, the four bytes of a version marker or any other piece of  *)
(* a fragment.  What a cell says is not modelled, only whether it is still *)
(* what the file has.                                                      *)
(***************************************************************************)
EXTENDS Integers, Sequences

CONSTANTS
  KfxBooks,   \* the books there may be
  Names,      \* names of fragments and books
  NoName,     \* no name
  NoBook      \* no book is open

BookMetadata == 490
ExternalResource == 164
RawMedia == 417

(* An entry of the index with its entity, which starts at the cell at: a   *)
(* header, info cells and data cells.  bad is the first thing wrong with   *)
(* it.  A metadata entity links to its cover, that to its picture.         *)
Entries ==
  [id : Names, type : {BookMetadata, ExternalResource, RawMedia},
   at : Nat, info : Nat \ {0}, data : Nat,
   bad : {"nothing", "entry", "header", "info", "data"},
   link : Names \cup {NoName}]

(* symbolsEnd is the first cell behind the document symbols, room the      *)
(* cells that the buffer can hold; sound says that the container header,   *)
(* its info and the symbols can be read.                                   *)
Containers ==
  [sound : BOOLEAN, room : Nat, symbolsEnd : Nat, index : Nat,
   entries : Seq(Entries), cde : {"EBOK", "PDOC"}, asin : Names \cup {NoName}]

ASSUME KfxAssumption ==
  /\ KfxBooks \subseteq Containers
  /\ NoBook \notin KfxBooks
  /\ NoName \notin Names

VARIABLES
  book,         \* the book that is read
  pc,           \* "idle", "header", "index", "cover", "image", "done"
  next,         \* the entry of the index that is next
  want,         \* the name that is looked up next
  overwritten,  \* cells that are no longer what the file has
  result,       \* "pending", "none", "failed", "garbled", "thumb"
  shown         \* the entry the thumbnail is made from, or 0

kfxVars == <<book, pc, next, want, overwritten, result, shown>>

-----------------------------------------------------------------------------
IndexCell(b, i) == b.index + i - 1

(* The info and the data of an entity, without the version marker that     *)
(* decodeIon leaves out.                                                   *)
InfoCells(e) == (e.at + 2) .. (e.at + e.info)
DataCells(e) == (e.at + e.info + 2) .. (e.at + e.info + e.data)

(* The bytes of a picture have no marker.                                  *)
MediaCells(e) == (e.at + e.info + 1) .. (e.at + e.info + e.data)

Body(e) == IF e.type = RawMedia THEN MediaCells(e) ELSE DataCells(e)

(* What is read of the i-th entry until it is taken or refused.            *)
EntryCells(b, i) ==
  LET e == b.entries[i] IN
    {IndexCell(b, i)}
      \cup (IF e.bad = "entry" THEN {} ELSE {e.at})
      \cup (IF e.bad \in {"entry", "header"} THEN {} ELSE InfoCells(e))

(* As in SyncPlan, definitions named Wrong... are faulty variants.         *)

WrongAppended(b, n) == b.symbolsEnd .. (b.symbolsEnd + n - 1)

(* append(prolog, data[4:]...): n - 1 cells behind the symbols, in another *)
(* buffer when this one is too small.                                      *)
Appended(b, n) ==
  IF b.symbolsEnd + n - 1 <= b.room THEN b.symbolsEnd .. (b.symbolsEnd + n - 2) ELSE {}

OfType(b, t) == {i \in DOMAIN b.entries : b.entries[i].type = t}

Named(b, name, t) == {i \in OfType(b, t) : b.entries[i].id = name}

(* getByName: the first of that name among the fragments of a type.        *)
GetByName(b, name, t) ==
  {i \in Named(b, name, t) : \A j \in Named(b, name, t) : i <= j}

(* "we are only interested in non-personal books"                          *)
Personal(b, m) == b.cde # "EBOK" \/ b.asin = NoName \/ b.entries[m].link = NoName

Intact(cells) == cells \cap overwritten = {}

Finish(r) ==
  /\ pc' = "done"
  /\ result' = r
  /\ UNCHANGED <<book, next, want, overwritten, shown>>

Decode(n) == overwritten' = overwritten \cup Appended(book, n)

-----------------------------------------------------------------------------
KfxInit ==
  /\ book = NoBook
  /\ pc = "idle"
  /\ next = 1
  /\ want = NoName
  /\ overwritten = {}
  /\ result = "pending"
  /\ shown = 0

(* NewReader: the whole file is read anew.                                 *)
NewReader(b) ==
  /\ pc = "idle"
  /\ book' = b
  /\ pc' = "header"
  /\ UNCHANGED <<next, want, overwritten, result, shown>>

(* The reader goes, and its buffer with it.                                *)
CloseReader ==
  /\ pc = "done"
  /\ book' = NoBook
  /\ pc' = "idle"
  /\ next' = 1
  /\ want' = NoName
  /\ overwritten' = {}
  /\ result' = "pending"
  /\ shown' = 0

(* Container header, container info (decoded behind a prolog of its own)   *)
(* and document symbols.                                                   *)
OpenContainer ==
  /\ pc = "header"
  /\ \/ ~book.sound /\ Finish("failed")
     \/ /\ book.sound
        /\ pc' = "index"
        /\ UNCHANGED <<book, next, want, overwritten, result, shown>>

(* One round of the loop over the index.  What is read of overwritten      *)
(* cells may be refused, panic or be taken for something else: "garbled".  *)
ReadEntry ==
  /\ pc = "index" /\ next \in DOMAIN book.entries
  /\ LET e == book.entries[next] IN
       \/ ~Intact(EntryCells(book, next)) /\ Finish("garbled")
       \/ /\ Intact(EntryCells(book, next)) /\ e.bad \in {"entry", "header", "info"}
          /\ Finish("failed")
       \/ /\ Intact(EntryCells(book, next)) /\ e.bad \in {"nothing", "data"}
          /\ next' = next + 1
          /\ Decode(e.info)
          /\ UNCHANGED <<book, pc, want, result, shown>>

(* The one fragment that has the metadata, after the last entry.           *)
ReadMetadata ==
  /\ pc = "index" /\ next \notin DOMAIN book.entries
  /\ \/ /\ \A m \in OfType(book, BookMetadata) : OfType(book, BookMetadata) # {m}
        /\ Finish("failed")
     \/ \E m \in OfType(book, BookMetadata) :
          /\ OfType(book, BookMetadata) = {m}
          /\ LET e == book.entries[m] IN
               \/ ~Intact(Body(e)) /\ Finish("garbled")
               \/ Intact(Body(e)) /\ e.bad = "data" /\ Finish("failed")
               \/ /\ Intact(Body(e)) /\ e.bad # "data"
                  /\ Personal(book, m)
                  /\ Finish("none")
               \/ /\ Intact(Body(e)) /\ e.bad # "data"
                  /\ ~Personal(book, m)
                  /\ want' = e.link
                  /\ Decode(e.data)
                  /\ pc' = "cover"
                  /\ UNCHANGED <<book, next, result, shown>>

(* The resource that the metadata name as the cover, and its location.     *)
ReadCover ==
  /\ pc = "cover"
  /\ \/ Named(book, want, ExternalResource) = {} /\ Finish("failed")
     \/ \E i \in GetByName(book, want, ExternalResource) :
          LET e == book.entries[i] IN
            \/ ~Intact(Body(e)) /\ Finish("garbled")
            \/ Intact(Body(e)) /\ e.bad = "data" /\ Finish("failed")
            \/ /\ Intact(Body(e)) /\ e.bad # "data"
               /\ want' = e.link
               /\ Decode(e.data)
               /\ pc' = "image"
               /\ UNCHANGED <<book, next, result, shown>>

(* The picture at that location, which becomes the thumbnail.              *)
ReadImage ==
  /\ pc = "image"
  /\ \/ Named(book, want, RawMedia) = {} /\ Finish("failed")
     \/ \E i \in GetByName(book, want, RawMedia) :
          LET e == book.entries[i] IN
            \/ ~Intact(Body(e)) /\ Finish("garbled")
            \/ Intact(Body(e)) /\ e.bad = "data" /\ Finish("failed")
            \/ /\ Intact(Body(e)) /\ e.bad # "data"
               /\ shown' = i
               /\ result' = "thumb"
               /\ pc' = "done"
               /\ UNCHANGED <<book, next, want, overwritten>>

ExtractThumbnail ==
  OpenContainer \/ ReadEntry \/ ReadMetadata \/ ReadCover \/ ReadImage

KfxNext == ExtractThumbnail \/ CloseReader \/ \E b \in KfxBooks : NewReader(b)

KfxSpec == KfxInit /\ [][KfxNext]_kfxVars

-----------------------------------------------------------------------------
(* What the book has, whatever buffer it is read into.                     *)
Readable(b) ==
  /\ b.sound
  /\ \A i \in DOMAIN b.entries : b.entries[i].bad \in {"nothing", "data"}

MetadataOf(b) == {m \in OfType(b, BookMetadata) :
                    OfType(b, BookMetadata) = {m} /\ b.entries[m].bad # "data"}

(* The pictures that the metadata lead to, through a resource.             *)
PicturesOf(b) ==
  {p \in DOMAIN b.entries : b.entries[p].bad # "data" /\
     \E m \in MetadataOf(b), c \in DOMAIN b.entries :
       /\ c \in GetByName(b, b.entries[m].link, ExternalResource)
       /\ b.entries[c].bad # "data"
       /\ p \in GetByName(b, b.entries[c].link, RawMedia)}

StoredResult(b) ==
  IF ~Readable(b) \/ MetadataOf(b) = {} THEN "failed"
  ELSE IF \E m \in MetadataOf(b) : Personal(b, m) THEN "none"
  ELSE IF PicturesOf(b) = {} THEN "failed" ELSE "thumb"

(* No cell lies where a fragment of n cells is appended.                   *)
Clear(b, cells, n) ==
  \A c \in cells : c < b.symbolsEnd \/ c >= b.symbolsEnd + n - 1

ClearOf(b, cells, types) ==
  \A i \in OfType(b, types) : Clear(b, cells, b.entries[i].data)

(* Nothing that is still to be read lies where infos, metadata or resource *)
(* have been appended before.                                              *)
Roomy(b) ==
  \A i \in DOMAIN b.entries :
    LET e == b.entries[i] IN
      /\ \A j \in DOMAIN b.entries :
           Clear(b, EntryCells(b, i) \cup Body(e), b.entries[j].info)
      /\ e.type # BookMetadata => ClearOf(b, Body(e), BookMetadata)
      /\ e.type = RawMedia => ClearOf(b, Body(e), ExternalResource)

(* decodeIon writes into the book it decodes.  A book in which the parts   *)
(* to be read keep clear of the end of the document symbols is read as if  *)
(* it did not: the cover is that of the metadata, through the first        *)
(* resource and the first picture of the name, and a book without one      *)
(* gives an error or nothing.                                              *)
RoomyBooksAreReadAsStored ==
  pc = "done" /\ Roomy(book) =>
    /\ result = StoredResult(book)
    /\ result = "thumb" => shown \in PicturesOf(book)
=============================================================================
