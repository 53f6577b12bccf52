---------------------------- MODULE MCThumbnails ----------------------------
(***************************************************************************)
(* Instances of Thumbnails for TLC.  A KFX book has its document symbols,  *)
(* its index and three entities in any order and with a gap anywhere       *)
(* behind the symbols, or, in a roomy order, one thing wrong with it; a    *)
(* Mobi book has offsets, marks and sections of every kind.  One file is   *)
(* any of these books, and another one before or behind it is plain.       *)
(***************************************************************************)
EXTENDS Thumbnails, SequencesExt

Blocks == {"symbols", "index", "metadata", "cover", "picture"}

(* Cells of a block; info is the length of the picture's info.             *)
Length(block, info) ==
  CASE block = "symbols" -> 1 [] block = "index" -> 3
    [] block = "metadata" -> 9 [] block = "cover" -> 5 [] block = "picture" -> info + 2

(* The first cell of a block, when there is a gap behind the symbols.      *)
Before(order, block) ==
  {o \in Blocks : \E i, j \in 1..5 : order[i] = o /\ order[j] = block /\ i < j}

Start(order, gap, info, block) ==
  2 + FoldSet(LAMBDA o, n : n + Length(o, info), 0, Before(order, block))
    + (IF "symbols" \in Before(order, block) THEN gap ELSE 0)

Entry(id, type, cell, info, data, link) ==
  [id |-> id, type |-> type, at |-> cell, info |-> info, data |-> data,
   bad |-> "nothing", link |-> link]

(* sorted is the order of the entities in the index.                       *)
Kfx(order, gap, info, spare, sorted) ==
  LET StartOf(block) == Start(order, gap, info, block) IN
    [sound |-> TRUE, cde |-> "EBOK", asin |-> "A", room |-> 22 + info + gap + spare,
     index |-> StartOf("index"), symbolsEnd |-> StartOf("symbols") + 1,
     entries |-> [i \in 1..3 |->
       <<Entry("M", 417, StartOf("picture"), info, 1, NoName),
         Entry("C", 164, StartOf("cover"), 2, 2, "M"),
         Entry("A", 490, StartOf("metadata"), 2, 6, "C")>>[sorted[i]]]]

Orders == SetToSeqs(Blocks)

LaidOut ==
  {Kfx(o, gap, info, 0, sorted) : o \in Orders, gap \in {0, 2}, info \in {2, 6},
     sorted \in {<<1, 2, 3>>, <<2, 3, 1>>, <<3, 1, 2>>}}
  \cup {Kfx(o, 0, 6, 3, <<1, 2, 3>>) : o \in Orders}

(* A book in which nothing is overwritten.                                 *)
Plain == Kfx(<<"symbols", "index", "picture", "cover", "metadata">>, 2, 2, 0, <<1, 2, 3>>)

Damaged ==
  {[Plain EXCEPT !.entries[i].bad = d] :
     i \in 1..3, d \in {"entry", "header", "info", "data"}}
  \cup {[Plain EXCEPT !.entries[i].link = l] : i \in 2..3, l \in {"A", NoName}}
  \cup {[Plain EXCEPT !.entries[i].type = t] : i \in 1..3, t \in {490, 164, 417}}
  \cup {[Plain EXCEPT !.entries = Append(@, [e EXCEPT !.at = 30])] :
          e \in {[Plain.entries[i] EXCEPT !.link = l] : i \in 1..3, l \in {"M", "C"}}}
  \cup {[Plain EXCEPT !.sound = FALSE], [Plain EXCEPT !.cde = "PDOC"],
        [Plain EXCEPT !.asin = NoName]}

MCKfxBooks == LaidOut \cup Damaged

-----------------------------------------------------------------------------
Head8 == [type |-> <<"EBOK">>, asin |-> <<"A">>, key |-> <<>>]

Sec(kind, large) == [kind |-> kind, large |-> large]

Offsets == {<<>>, <<0>>, <<1>>, <<2>>, <<9>>, <<15>>}

PlainMobi ==
  [encrypted |-> FALSE, kf8 |-> <<>>, first |-> Head8, second |-> Head8, firstImage |-> 2,
   coverOffset |-> <<1>>, thumbOffset |-> <<>>,
   sections |-> <<Sec("header", FALSE), Sec("header", FALSE), Sec("picture", FALSE),
                  Sec("picture", TRUE), Sec("picture", FALSE)>>]

Combined ==
  {[PlainMobi EXCEPT !.kf8 = k, !.first.type = t1, !.second.type = t2,
                     !.second.key = key, !.sections[2].kind = half] :
     k \in {<<1>>, <<15>>, <<7>>, <<>>}, t1 \in {<<>>, <<"EBOK">>, <<"PDOC">>},
     t2 \in {<<>>, <<"EBOK">>, <<"PDOC">>}, key \in {<<>>, <<"">>, <<"M">>},
     half \in {"header", "empty", "broken"}}

WithOffsets ==
  {[PlainMobi EXCEPT !.firstImage = f, !.coverOffset = c, !.thumbOffset = t,
                     !.sections[4].kind = s] :
     f \in {2, 15}, c \in Offsets, t \in Offsets, s \in {"picture", "text"}}

(* Behind an offset of -1 there is a picture in some of these, or the      *)
(* resources have no place.                                                *)
Misplaced ==
  {[b EXCEPT !.sections[2].kind = "picture"] : b \in {o \in WithOffsets : o.firstImage = 2}}
    \cup {b \in WithOffsets : b.firstImage = 15}

MCMobiBooks ==
  Combined \cup {b \in WithOffsets : b.firstImage = 2} \cup Misplaced
    \cup {[b EXCEPT !.sections = SubSeq(@, 1, 2)] : b \in WithOffsets}
    \cup {[PlainMobi EXCEPT !.encrypted = TRUE],
          [PlainMobi EXCEPT !.first.asin = <<"">>]}

(* Beside any file there is a plain one, before it or behind it.           *)
PlainFiles ==
  {[ext |-> ".kfx", book |-> Plain], [ext |-> ".azw3", book |-> PlainMobi],
   [ext |-> ".pdf", book |-> NoBook]}

AnyFiles ==
  {[ext |-> ".kfx", book |-> b] : b \in MCKfxBooks}
    \cup {[ext |-> ".mobi", book |-> b] : b \in MCMobiBooks} \cup PlainFiles

MCShelves ==
  {<<f, g>> : f \in AnyFiles, g \in PlainFiles} \cup {<<g, f>> : f \in AnyFiles, g \in PlainFiles}
=============================================================================
