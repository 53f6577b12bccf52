----------------------------- MODULE Thumbnails -----------------------------
(***************************************************************************)
(* Thumbnails of the books in the source: GetObjectInfos of files/ calls   *)
(* ExtractThumbnail (thumbs/produce.go) for each regular file, in the      *)
(* order of the walk.  It reads a KFX book step by step (KfxReader) or a   *)
(* Mobi book (MobiReader), and the reader's SaveResult writes the picture  *)
(* into the directory of thumbnails, under a name made from the ASIN or    *)
(* the key.  Books of one name share a file.                               *)
(***************************************************************************)
EXTENDS KfxReader, MobiReader

CONSTANTS
  MobiBooks,
  Shelves,     \* the files that may be in the source, in the order of the walk
  MaxFailures  \* writes that may fail (bound)

Files ==
  [ext : {".kfx"}, book : KfxBooks] \cup [ext : {".mobi", ".azw3"}, book : MobiBooks]
    \cup [ext : {".pdf"}, book : {NoBook}]

ASSUME ShelvesAssumption == Shelves \subseteq Seq(Files)

ASSUME MobiBooksAssumption == \A b \in MobiBooks : WellFormed(b)

(* Names are made of keys and ASINs.                                       *)
ASSUME NamesAssumption ==
  \A b \in MobiBooks : ~Blank(MobiName(b)) => Head(MobiName(b)) \in Names

VARIABLES
  shelf,      \* the files in the source, in the order of the walk
  at,         \* the file that is looked at
  outcome,    \* by file: "pending", "none", "failed", "saved", "unsaved"
  names,      \* by file: the name under which its thumbnail was to be saved
  pictures,   \* by name: what is in the directory of thumbnails
  failures    \* failed writes so far

scanVars == <<shelf, at, outcome, names, pictures, failures>>
vars == <<kfxVars, scanVars>>

(* What there may be under a name that is no whole picture.                *)
Absent == [of |-> 0, part |-> -2]
Partial == [of |-> 0, part |-> -1]

(* Part of the book that is the at-th file.                                *)
Picture(part) == [of |-> at, part |-> part]

-----------------------------------------------------------------------------
Init ==
  /\ KfxInit
  /\ shelf \in Shelves
  /\ at = 1
  /\ outcome = [f \in DOMAIN shelf |-> "pending"]
  /\ names = [f \in DOMAIN shelf |-> NoName]
  /\ pictures = [n \in Names |-> Absent]
  /\ failures = 0

File == shelf[at]
Looking(exts) == at \in DOMAIN shelf /\ File.ext \in exts

(* Back to the walk: errors and panics are logged, and the file is listed  *)
(* without a thumbnail.                                                    *)
Return(o, name) ==
  /\ outcome' = [outcome EXCEPT ![at] = o]
  /\ names' = [names EXCEPT ![at] = name]
  /\ at' = at + 1
  /\ UNCHANGED shelf

WithoutThumbnail(o) == Return(o, NoName) /\ UNCHANGED <<pictures, failures>>

WrongSaveResult(name, picture) ==
  /\ failures' \in {failures, failures + 1}
  /\ failures' <= MaxFailures
  /\ pictures' \in IF failures' = failures THEN {[pictures EXCEPT ![name] = picture]}
                   ELSE {pictures, [pictures EXCEPT ![name] = Partial]}
  /\ Return("saved", name)

(* os.WriteFile: replaces what is there; when it fails it may have cut it  *)
(* off already.  The name is returned only for what has been written.      *)
SaveResult(name, picture) ==
  \/ /\ pictures' = [pictures EXCEPT ![name] = picture]
     /\ Return("saved", name)
     /\ UNCHANGED failures
  \/ /\ failures < MaxFailures
     /\ failures' = failures + 1
     /\ pictures' \in {pictures, [pictures EXCEPT ![name] = Partial]}
     /\ Return("unsaved", name)

-----------------------------------------------------------------------------
OpenKfx ==
  /\ Looking({".kfx"})
  /\ NewReader(File.book)
  /\ UNCHANGED scanVars

ReadKfx ==
  /\ Looking({".kfx"})
  /\ ExtractThumbnail
  /\ UNCHANGED scanVars

(* A garbled book may have given nothing, or any picture with any name.    *)
CloseKfx ==
  /\ Looking({".kfx"})
  /\ CloseReader
  /\ \/ result \in {"none", "failed"} /\ WithoutThumbnail(result)
     \/ result = "garbled" /\ WithoutThumbnail("failed")
     \/ result = "garbled" /\ \E n \in Names : SaveResult(n, Picture(0))
     \/ result = "thumb" /\ SaveResult(book.asin, Picture(shown))

ReadMobi ==
  /\ Looking({".mobi", ".azw3"})
  /\ \E t \in {MobiThumbnail(File.book)}, name \in {MobiName(File.book)} :
       \/ t.result # "thumb" /\ WithoutThumbnail(t.result)
       \/ t.result = "thumb" /\ Blank(name) /\ WithoutThumbnail("none")
       \/ t.result = "thumb" /\ ~Blank(name) /\ SaveResult(Head(name), Picture(t.section))
  /\ UNCHANGED kfxVars

(* Other files are not supported.                                          *)
SkipFile ==
  /\ Looking({".pdf"})
  /\ WithoutThumbnail("none")
  /\ UNCHANGED kfxVars

Next == OpenKfx \/ ReadKfx \/ CloseKfx \/ ReadMobi \/ SkipFile

Spec == Init /\ [][Next]_vars

-----------------------------------------------------------------------------
(* A name that ExtractThumbnail returns, and the sync copies to the        *)
(* device, leads to a whole picture: that of this book, or of one later in *)
(* the walk that has the same name; only a later write that failed may     *)
(* have spoiled it.                                                        *)
NamesLeadToPictures ==
  \A f \in DOMAIN shelf :
    outcome[f] = "saved" =>
      \E g \in f .. Len(shelf) :
        /\ names[g] = names[f]
        /\ \/ outcome[g] = "saved" /\ pictures[names[f]].of = g
           \/ outcome[g] = "unsaved" /\ g # f /\ pictures[names[f]] = Partial

IsMobi(f) == shelf[f].ext \in {".mobi", ".azw3"}

(* Whatever offsets a Mobi book has, with all bits set or beyond its end,  *)
(* it gets a thumbnail only when it is one from the store; and unless it   *)
(* has pictures in front of its resources, which an offset of -1 leads to, *)
(* what is saved is a picture that the book declares as its thumbnail or   *)
(* as its cover.                                                           *)
MobiThumbnailIsDeclared ==
  \A f \in DOMAIN shelf :
    IsMobi(f) /\ outcome[f] = "saved" =>
      LET b == shelf[f].book IN
        /\ StoreBook(b)
        /\ PicturesInPlace(b) =>
             \A n \in Names : pictures[n].of = f =>
               SaysWhere(b, b.coverOffset, pictures[n].part)
                 \/ SaysWhere(b, b.thumbOffset, pictures[n].part)

(* A book from the store that declares a cover, and either no thumbnail or *)
(* one that is a picture, gets a thumbnail.  A book whose thumbnail offset *)
(* is there but unset does not count: -1 is then added to the number of    *)
(* the first picture like any other offset (thumbs/mobi/reader.go:157-176),*)
(* the section there is no picture, and the reader gives up although the   *)
(* cover is there.                                                         *)
Declares(b) ==
  /\ ~b.encrypted /\ StoreBook(b)
  /\ b.kf8 = <<>> \/ b.kf8 = <<Unset>> \/ HasSection(b, Head(b.kf8))
  /\ \E i \in 0 .. Len(b.sections) : SaysWhere(b, b.coverOffset, i) /\ IsPicture(b, i)
  /\ \/ b.thumbOffset = <<>>
     \/ \E i \in 0 .. Len(b.sections) : SaysWhere(b, b.thumbOffset, i) /\ IsPicture(b, i)
  /\ ~Blank(MobiName(b))

DeclaredCoversAreUsed ==
  \A f \in DOMAIN shelf :
    IsMobi(f) /\ f < at /\ Declares(shelf[f].book) => outcome[f] \in {"saved", "unsaved"}
=============================================================================
