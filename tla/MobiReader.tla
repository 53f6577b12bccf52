----------------------------- MODULE MobiReader -----------------------------
(***************************************************************************)
(* How the cover of a Mobi or AZW3 book is found: extractThumbnail of      *)
(* thumbs/mobi.  The reader changes nothing, so that it is an operator     *)
(* here: from what the book has to what is made of it.                     *)
(*                                                                         *)
(* A book is a sequence of sections.  The first one is a header, and in a  *)
(* combined book the EXTH record 121 says which is the header of the KF8   *)
(* half.  A list of EXTH values, as readExth returns it, has none or one   *)
(* value here; more are there only for the first to be taken.  Numbers     *)
(* are below twice the SignBit (2^31) and are read as signed ones.         *)
(***************************************************************************)
EXTENDS Integers, Sequences

CONSTANT SignBit  \* the value of the highest bit of a number

ASSUME MobiAssumption == SignBit \in Nat \ {0}

WrongSigned(v) == v

(* getInt32: int(int32(...)).                                              *)
Signed(v) == IF v >= SignBit THEN v - 2 * SignBit ELSE v

(* "there is none", as the format has it: all bits set.                    *)
Unset == 2 * SignBit - 1

Numbers == 0 .. Unset

(* The books there may be, as far as numbers go.  Sections are counted in  *)
(* half as many bits, so that their indices are not negative.              *)
WellFormed(b) ==
  /\ b.firstImage \in Numbers
  /\ {b.kf8, b.coverOffset, b.thumbOffset} \subseteq Seq(Numbers)
  /\ b.sections \in Seq([kind : {"header", "text", "picture", "empty", "broken"},
                         large : BOOLEAN])
  /\ Len(b.sections) \in 1 .. SignBit

(* readSection: a section can be sliced out of the file, or the reader     *)
(* panics.  A "broken" one has addresses that are not in order.            *)
HasSection(b, i) == i \in 0 .. (Len(b.sections) - 1) /\ b.sections[i + 1].kind # "broken"

Section(b, i) == b.sections[i + 1]

IsPicture(b, i) == HasSection(b, i) /\ Section(b, i).kind = "picture"

-----------------------------------------------------------------------------
(* The section of the KF8 half, or -1.                                     *)
Kf8Section(b) == IF b.kf8 = <<>> THEN -1 ELSE Signed(Head(b.kf8))

(* combo: there is a KF8 half, and it is not empty.                        *)
Combo(b) == HasSection(b, Kf8Section(b)) /\ Section(b, Kf8Section(b)).kind # "empty"

(* "always prefer data from KF8": the ASIN (113), the type (501), the key  *)
(* (504).                                                                  *)
Prefer(b, field) ==
  IF Combo(b) /\ b.second[field] # <<>> THEN b.second[field] ELSE b.first[field]

WrongIndexOf(b, exth) == IF exth = <<>> THEN -1 ELSE Signed(Head(exth))

(* coverIndex and thumbIndex: an offset from the first resource.           *)
IndexOf(b, exth) == IF exth = <<>> THEN -1 ELSE Signed(Head(exth)) + Signed(b.firstImage)

(* What becomes of a book: how it ended, and the section that the          *)
(* thumbnail is made from.                                                 *)
Failure == [result |-> "failed", section |-> -1]
Nothing == [result |-> "none", section |-> -1]
MadeFrom(i) == [result |-> "thumb", section |-> i]

(* A declared thumbnail that is larger than what is asked for in both      *)
(* directions is used as it is, or else the cover is made smaller.  The    *)
(* thumbnail is decoded first, and an error in it is final.                *)
MobiThumbnail(b) ==
  LET cover == IndexOf(b, b.coverOffset)
      thumb == IndexOf(b, b.thumbOffset)
  IN  IF b.encrypted THEN Failure
      ELSE IF Kf8Section(b) >= 0 /\ ~HasSection(b, Kf8Section(b)) THEN Failure
      ELSE IF Prefer(b, "type") # <<"EBOK">> THEN Nothing
      ELSE IF cover < 0 THEN Nothing
      ELSE IF thumb >= 0 /\ ~IsPicture(b, thumb) THEN Failure
      ELSE IF thumb >= 0 /\ Section(b, thumb).large THEN MadeFrom(thumb)
      ELSE IF IsPicture(b, cover) THEN MadeFrom(cover) ELSE Failure

(* The name that SaveResult gives it: the key, or else the ASIN.           *)
Blank(text) == text \in {<<>>, <<"">>}

MobiName(b) ==
  IF ~Blank(Prefer(b, "key")) THEN Prefer(b, "key") ELSE Prefer(b, "asin")

-----------------------------------------------------------------------------
(* What a book says, with numbers as they are stored.                      *)
SaysWhere(b, exth, i) ==
  exth # <<>> /\ Head(exth) # Unset /\ i = b.firstImage + Head(exth)

(* The pictures are where the book says that its resources begin, or       *)
(* behind: what is in front of them is text.                               *)
PicturesInPlace(b) == \A i \in 0 .. Len(b.sections) : IsPicture(b, i) => i >= b.firstImage

(* The type of the half that a reading device uses.                        *)
StoreBook(b) ==
  IF Combo(b) /\ b.second.type # <<>> THEN b.second.type = <<"EBOK">>
  ELSE b.first.type = <<"EBOK">>
=============================================================================
