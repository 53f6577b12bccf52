--------------------------- MODULE PathPlanProofs ---------------------------
(***************************************************************************)
(* Proofs about PathPlan, for any books, page indexes and other files, in  *)
(* any directories, under PathsAssumption and NamesAssumption.             *)
(*                                                                         *)
(* The first half leads to the inductive invariant Inv: lemmas about       *)
(* paths, then what each of the functions that PrepareActions calls does   *)
(* to a plan, then what each case does for one book.  The core of Inv is   *)
(* that a plan foretells: what is on the disks, changed by the actions     *)
(* left, is what the two object sets of the plan say.                      *)
(*                                                                         *)
(* The second half holds what needs a whole run, or names and devices      *)
(* that are as they should be.  The premises PlainNames, OwnSideFiles and  *)
(* StandardFolders say what that is; where the first two fail, runs        *)
(* MCPathPlan_sibling, MCPathPlan_thumb and MCPathPlan_formats show what   *)
(* goes wrong.  Its longest part shows that a plan runs to its end.  Runs  *)
(* says that actions lead from given disks to others, each being possible  *)
(* where the one before has led; it is what every operator that adds to a  *)
(* plan keeps, so that no action needs to be looked at again when it is    *)
(* carried out.                                                            *)
(***************************************************************************)
EXTENDS PathPlan, SequenceTheorems, WellFoundedInduction, TLAPS

-----------------------------------------------------------------------------
(* Paths. *)

(* Two paths with the same names in the same places are the same. *)
LEMMA SamePath ==
  ASSUME NEW p \in Path, NEW q \in Path, Len(p) = Len(q),
         \A i \in 1..Len(p) : p[i] = q[i]
  PROVE  p = q
  BY SeqEqual DEF Path

(* The first n names of a path. *)
LEMMA UpIs ==
  ASSUME NEW p \in Path, NEW n \in 0..Len(p)
  PROVE  /\ SubSeq(p, 1, n) \in Path
         /\ Len(SubSeq(p, 1, n)) = n
         /\ \A i \in 1..n : SubSeq(p, 1, n)[i] = p[i]
  BY LenProperties, SubSeqProperties DEF Path

(* The beginning of a beginning is a beginning. *)
LEMMA UpOfUp ==
  ASSUME NEW p \in Path, NEW n \in 0..Len(p), NEW k \in 0..n
  PROVE  SubSeq(SubSeq(p, 1, n), 1, k) = SubSeq(p, 1, k)
  <1>1. Len(p) \in Nat /\ k \in 0..Len(p) /\ k \in 0..Len(SubSeq(p, 1, n))
    BY UpIs, LenProperties DEF Path
  <1>2. /\ SubSeq(SubSeq(p, 1, n), 1, k) \in Path
        /\ Len(SubSeq(SubSeq(p, 1, n), 1, k)) = k
        /\ \A i \in 1..k : SubSeq(SubSeq(p, 1, n), 1, k)[i] = SubSeq(p, 1, n)[i]
    BY <1>1, UpIs
  <1>3. \A i \in 1..k : SubSeq(p, 1, n)[i] = p[i]
    BY <1>1, UpIs
  <1>4. SubSeq(p, 1, k) \in Path /\ Len(SubSeq(p, 1, k)) = k /\ \A i \in 1..k : SubSeq(p, 1, k)[i] = p[i]
    BY <1>1, UpIs
  <1> QED BY <1>2, <1>3, <1>4, SamePath

(* Parent and Name take a path apart. *)
LEMMA ParentIs ==
  ASSUME NEW p \in Path, p # << >>
  PROVE  /\ Len(p) \in Nat \ {0}
         /\ Parent(p) \in Path /\ Len(Parent(p)) = Len(p) - 1
         /\ \A i \in 1..(Len(p) - 1) : Parent(p)[i] = p[i]
         /\ Name(p) \in STRING
  <1>1. Len(p) \in Nat \ {0} BY EmptySeq, LenProperties DEF Path
  <1>2. Len(p) - 1 \in 0..Len(p) BY <1>1
  <1>3. /\ SubSeq(p, 1, Len(p) - 1) \in Path
        /\ Len(SubSeq(p, 1, Len(p) - 1)) = Len(p) - 1
        /\ \A i \in 1..(Len(p) - 1) : SubSeq(p, 1, Len(p) - 1)[i] = p[i]
    BY <1>2, UpIs
  <1>4. p[Len(p)] \in STRING BY <1>1, LenProperties DEF Path
  <1> QED BY <1>1, <1>3, <1>4 DEF Parent, Name

(* A path is its own longest beginning. *)
LEMMA Whole == ASSUME NEW p \in Path PROVE SubSeq(p, 1, Len(p)) = p
  BY SubSeqFull DEF Path

(* A path below another one. *)
LEMMA ConcatIs ==
  ASSUME NEW p \in Path, NEW q \in Path
  PROVE  /\ p \o q \in Path /\ Len(p \o q) = Len(p) + Len(q)
         /\ Len(p) \in Nat /\ Len(q) \in Nat
         /\ \A i \in 1..Len(p) : (p \o q)[i] = p[i]
         /\ \A i \in 1..Len(q) : (p \o q)[Len(p) + i] = q[i]
  BY ConcatProperties, LenProperties DEF Path

(* Below the same root, different paths stay different. *)
LEMMA ConcatInjective ==
  ASSUME NEW p \in Path, NEW q \in Path, NEW r \in Path, p \o q = p \o r
  PROVE  q = r
  <1>1. /\ Len(p \o q) = Len(p) + Len(q) /\ Len(p) \in Nat /\ Len(q) \in Nat
        /\ \A i \in 1..Len(q) : (p \o q)[Len(p) + i] = q[i]
    BY ConcatIs
  <1>3. /\ Len(p \o r) = Len(p) + Len(r) /\ Len(r) \in Nat
        /\ \A i \in 1..Len(r) : (p \o r)[Len(p) + i] = r[i]
    BY ConcatIs
  <1>4. Len(q) = Len(r) BY <1>1, <1>3
  <1>2. \A i \in 1..Len(q) : q[i] = r[i]
    BY <1>1, <1>3, <1>4
  <1> QED BY <1>4, <1>2, SamePath

(* The beginnings of a path below a root. *)
LEMMA UpOfConcat ==
  ASSUME NEW p \in Path, NEW q \in Path
  PROVE  /\ \A n \in 0..Len(p) : SubSeq(p \o q, 1, n) = SubSeq(p, 1, n)
         /\ \A n \in 0..Len(q) : SubSeq(p \o q, 1, Len(p) + n) = p \o SubSeq(q, 1, n)
         /\ SubSeq(p \o q, Len(p) + 1, Len(p \o q)) = q
  <1>1. p \o q \in Path /\ Len(p \o q) = Len(p) + Len(q) /\ Len(p) \in Nat /\ Len(q) \in Nat
    BY ConcatIs
  <1>2. ASSUME NEW n \in 0..Len(p) PROVE SubSeq(p \o q, 1, n) = SubSeq(p, 1, n)
    <2>1. n \in 0..Len(p \o q) BY <1>1
    <2>2. SubSeq(p \o q, 1, n) \in Path /\ Len(SubSeq(p \o q, 1, n)) = n /\ \A i \in 1..n : SubSeq(p \o q, 1, n)[i] = (p \o q)[i]
      BY <2>1, <1>1, UpIs
    <2>3. SubSeq(p, 1, n) \in Path /\ Len(SubSeq(p, 1, n)) = n /\ \A i \in 1..n : SubSeq(p, 1, n)[i] = p[i]
      BY UpIs
    <2>4. \A i \in 1..n : (p \o q)[i] = p[i] BY ConcatIs
    <2> QED BY <2>2, <2>3, <2>4, SamePath
  <1>3. ASSUME NEW n \in 0..Len(q) PROVE SubSeq(p \o q, 1, Len(p) + n) = p \o SubSeq(q, 1, n)
    <2>1. Len(p) + n \in 0..Len(p \o q) BY <1>1
    <2>2. SubSeq(p \o q, 1, Len(p) + n) \in Path /\ Len(SubSeq(p \o q, 1, Len(p) + n)) = Len(p) + n
          /\ \A i \in 1..(Len(p) + n) : SubSeq(p \o q, 1, Len(p) + n)[i] = (p \o q)[i]
      BY <2>1, <1>1, UpIs
    <2>3. SubSeq(q, 1, n) \in Path /\ Len(SubSeq(q, 1, n)) = n /\ \A i \in 1..n : SubSeq(q, 1, n)[i] = q[i]
      BY UpIs
    <2>4. /\ p \o SubSeq(q, 1, n) \in Path /\ Len(p \o SubSeq(q, 1, n)) = Len(p) + n
          /\ \A i \in 1..Len(p) : (p \o SubSeq(q, 1, n))[i] = p[i]
          /\ \A i \in 1..n : (p \o SubSeq(q, 1, n))[Len(p) + i] = q[i]
      <3> DEFINE u == SubSeq(q, 1, n)
      <3>1. u \in Path /\ Len(u) = n /\ \A i \in 1..n : u[i] = q[i] BY <2>3
      <3> HIDE DEF u
      <3>2. /\ p \o u \in Path /\ Len(p \o u) = Len(p) + Len(u)
            /\ \A i \in 1..Len(p) : (p \o u)[i] = p[i]
            /\ \A i \in 1..Len(u) : (p \o u)[Len(p) + i] = u[i]
        BY <3>1, ConcatIs
      <3>3. /\ p \o u \in Path /\ Len(p \o u) = Len(p) + n
            /\ \A i \in 1..Len(p) : (p \o u)[i] = p[i]
            /\ \A i \in 1..n : (p \o u)[Len(p) + i] = q[i]
        BY <3>1, <3>2
      <3> QED BY <3>3 DEF u
    <2>5. ASSUME NEW i \in 1..(Len(p) + n)
          PROVE  (p \o q)[i] = (p \o SubSeq(q, 1, n))[i]
      <3>1. CASE i \in 1..Len(p) BY <3>1, <2>4, ConcatIs
      <3>2. CASE i \notin 1..Len(p)
        <4>1. i - Len(p) \in 1..n /\ i - Len(p) \in 1..Len(q) /\ i = Len(p) + (i - Len(p)) BY <3>2, <1>1
        <4>2. (p \o q)[Len(p) + (i - Len(p))] = q[i - Len(p)] BY <4>1, ConcatIs
        <4> QED BY <4>1, <4>2, <2>4
      <3> QED BY <3>1, <3>2
    <2> QED BY <2>2, <2>4, <2>5, SamePath
  <1>4. SubSeq(p \o q, Len(p) + 1, Len(p \o q)) = q
    <2> DEFINE r == SubSeq(p \o q, Len(p) + 1, Len(p \o q))
    <2>1. \A i \in (Len(p) + 1)..Len(p \o q) : (p \o q)[i] \in STRING BY <1>1, LenProperties DEF Path
    <2>2. r \in Path /\ Len(r) = (IF Len(p) + 1 <= Len(p \o q) THEN Len(p \o q) - (Len(p) + 1) + 1 ELSE 0)
          /\ \A i \in 1..(Len(p \o q) - (Len(p) + 1) + 1) : r[i] = (p \o q)[Len(p) + 1 + i - 1]
      BY <1>1, <2>1, SubSeqProperties DEF Path
    <2>3. Len(r) = Len(q) BY <2>2, <1>1
    <2>4. ASSUME NEW i \in 1..Len(r) PROVE r[i] = q[i]
      <3>1. i \in 1..Len(q) /\ i \in 1..(Len(p \o q) - (Len(p) + 1) + 1) /\ Len(p) + 1 + i - 1 = Len(p) + i
        BY <2>3, <1>1
      <3>2. r[i] = (p \o q)[Len(p) + i] BY <3>1, <2>2
      <3>3. (p \o q)[Len(p) + i] = q[i] BY <3>1, ConcatIs
      <3> QED BY <3>2, <3>3
    <2> QED BY <2>2, <2>3, <2>4, SamePath
  <1> QED BY <1>2, <1>3, <1>4

(* Reroot replaces one root by another. *)
LEMMA RerootIs ==
  ASSUME NEW p \in Path, NEW q \in Path, NEW r \in Path
  PROVE  Reroot(p \o q, p, r) = r \o q
  BY UpOfConcat DEF Reroot

(* Parent and Name of a path below a root. *)
LEMMA PartsOfConcat ==
  ASSUME NEW p \in Path, NEW q \in Path, q # << >>
  PROVE  Parent(p \o q) = p \o Parent(q) /\ Name(p \o q) = Name(q)
  <1>1. Len(q) \in Nat \ {0} /\ Len(p) \in Nat /\ Len(p \o q) = Len(p) + Len(q)
    BY ParentIs, ConcatIs
  <1>2. Len(p \o q) - 1 = Len(p) + (Len(q) - 1) /\ Len(q) - 1 \in 0..Len(q) BY <1>1
  <1>3. SubSeq(p \o q, 1, Len(p) + (Len(q) - 1)) = p \o SubSeq(q, 1, Len(q) - 1)
    BY <1>2, UpOfConcat
  <1>4. (p \o q)[Len(p) + Len(q)] = q[Len(q)]
    <2>1. Len(q) \in 1..Len(q) BY <1>1
    <2> QED BY <2>1, ConcatIs
  <1> QED BY <1>1, <1>2, <1>3, <1>4 DEF Parent, Name

(* A sequence with one more element. *)
LEMMA AppendTo ==
  ASSUME NEW S, NEW p \in Seq(S), NEW n \in S
  PROVE  /\ Append(p, n) \in Seq(S) /\ Append(p, n) # << >>
         /\ Len(Append(p, n)) = Len(p) + 1 /\ Len(p) \in Nat
         /\ \A i \in 1..Len(p) : Append(p, n)[i] = p[i]
         /\ Append(p, n)[Len(p) + 1] = n
  BY AppendProperties, LenProperties

(* A name appended to a path becomes its last one. *)
LEMMA AppendIs ==
  ASSUME NEW p \in Path, NEW n \in STRING
  PROVE  /\ Append(p, n) \in Path /\ Append(p, n) # << >>
         /\ Len(Append(p, n)) = Len(p) + 1 /\ Len(p) \in Nat
         /\ Parent(Append(p, n)) = p /\ Name(Append(p, n)) = n
  <1> DEFINE a == Append(p, n)
  <1>1. /\ a \in Seq(STRING) /\ a # << >>
        /\ Len(a) = Len(p) + 1 /\ Len(p) \in Nat
        /\ \A i \in 1..Len(p) : a[i] = p[i]
        /\ a[Len(p) + 1] = n
    BY AppendTo, Zenon DEF Path
  <1> HIDE DEF a
  <1>2. Name(a) = n BY <1>1 DEF Name
  <1>3. Parent(a) = p
    <2>1. /\ Parent(a) \in Path /\ Len(Parent(a)) = Len(p)
          /\ \A i \in 1..Len(p) : Parent(a)[i] = a[i]
      <3>1. Len(a) - 1 = Len(p) /\ a \in Path BY <1>1 DEF Path
      <3> QED BY <1>1, <3>1, ParentIs
    <2>2. \A i \in 1..Len(p) : Parent(a)[i] = p[i] BY <2>1, <1>1
    <2> QED BY <2>1, <2>2, SamePath
  <1> QED BY <1>1, <1>2, <1>3 DEF a, Path

(* A path with names in it is not the empty one. *)
LEMMA LongIsNotEmpty ==
  ASSUME NEW p, Len(p) \in Nat, Len(p) > 0
  PROVE  p # << >>
  OBVIOUS

(* A path is its parent and its name. *)
LEMMA SameParts ==
  ASSUME NEW p \in Path, NEW q \in Path, p # << >>, q # << >>,
         Parent(p) = Parent(q), Name(p) = Name(q)
  PROVE  p = q
  <1>1. /\ Len(p) \in Nat \ {0} /\ Len(Parent(p)) = Len(p) - 1
        /\ \A i \in 1..(Len(p) - 1) : Parent(p)[i] = p[i]
    BY ParentIs
  <1>2. /\ Len(q) \in Nat \ {0} /\ Len(Parent(q)) = Len(q) - 1
        /\ \A i \in 1..(Len(q) - 1) : Parent(q)[i] = q[i]
    BY ParentIs
  <1>3. Len(p) = Len(q) BY <1>1, <1>2
  <1>4. p[Len(p)] = q[Len(p)] BY <1>3 DEF Name
  <1>5. \A i \in 1..Len(p) : p[i] = q[i]
    <2> TAKE i \in 1..Len(p)
    <2>1. i \in 1..(Len(p) - 1) \/ i = Len(p) BY <1>1
    <2> QED BY <2>1, <1>1, <1>2, <1>3, <1>4
  <1> QED BY <1>3, <1>5, SamePath

(* A sequence of one element. *)
LEMMA OneIs ==
  ASSUME NEW S, NEW s \in S
  PROVE  <<s>> \in Seq(S)
  OBVIOUS

(* A name appended below a root. *)
LEMMA ConcatAppend ==
  ASSUME NEW p \in Path, NEW q \in Path, NEW n \in STRING
  PROVE  Append(p \o q, n) = p \o Append(q, n)
  <1> DEFINE l == Append(p \o q, n)
             a == Append(q, n)
             r == p \o a
  <1>1. p \o q \in Path /\ Len(p \o q) = Len(p) + Len(q) /\ Len(p) \in Nat /\ Len(q) \in Nat
    BY ConcatIs
  <1>2. /\ l \in Path /\ Len(l) = Len(p \o q) + 1 /\ Parent(l) = p \o q /\ Name(l) = n /\ l # << >>
        /\ a \in Path /\ Len(a) = Len(q) + 1 /\ Parent(a) = q /\ Name(a) = n /\ a # << >>
    BY <1>1, AppendIs
  <1>3. r \in Path /\ Len(r) = Len(p) + Len(a)
    <2> HIDE DEF a
    <2> QED BY <1>2, ConcatIs
  <1>4. Parent(r) = p \o q /\ Name(r) = n /\ Len(r) = Len(l)
    <2> HIDE DEF a
    <2>1. Parent(p \o a) = p \o Parent(a) /\ Name(p \o a) = Name(a) BY <1>2, PartsOfConcat
    <2> QED BY <1>1, <1>2, <1>3, <2>1 DEF a
  <1>5. r # << >>
    <2>1. Len(r) > 0 /\ Len(r) \in Nat BY <1>1, <1>2, <1>3
    <2> HIDE DEF r
    <2> QED BY <2>1, LongIsNotEmpty
  <1> HIDE DEF l, r
  <1> QED BY <1>2, <1>3, <1>4, <1>5, SameParts DEF l, r

(* A sequence of two elements. *)
LEMMA PairIs ==
  ASSUME NEW S, NEW s \in S, NEW n \in S
  PROVE  <<s, n>> = Append(Append(<< >>, s), n)
  OBVIOUS

(* Two names after a path are one after the other. *)
LEMMA ConcatTwo ==
  ASSUME NEW p \in Path, NEW s \in STRING, NEW n \in STRING
  PROVE  p \o <<s, n>> = Append(Append(p, s), n)
  <1>0. << >> \in Path BY EmptySeq DEF Path
  <1>1. <<s, n>> = Append(Append(<< >>, s), n) /\ << >> \in Path
    BY <1>0, PairIs
  <1>2. Append(<< >>, s) \in Path BY <1>1, AppendIs
  <1>3. p \o Append(Append(<< >>, s), n) = Append(p \o Append(<< >>, s), n)
    BY <1>2, ConcatAppend
  <1>4. p \o Append(<< >>, s) = Append(p \o << >>, s) BY <1>1, ConcatAppend
  <1>5. p \o << >> = p BY ConcatEmptySeq DEF Path
  <1> QED BY <1>1, <1>3, <1>4, <1>5

(* Two names appended below a root. *)
LEMMA ConcatTwoAfter ==
  ASSUME NEW p \in Path, NEW q \in Path, NEW s \in STRING, NEW n \in STRING
  PROVE  (p \o q) \o <<s, n>> = p \o (q \o <<s, n>>)
  <1>1. p \o q \in Path /\ Append(q, s) \in Path BY ConcatIs, AppendIs
  <1>2. (p \o q) \o <<s, n>> = Append(Append(p \o q, s), n) BY <1>1, ConcatTwo
  <1>3. q \o <<s, n>> = Append(Append(q, s), n) BY ConcatTwo
  <1>4. Append(p \o q, s) = p \o Append(q, s) BY ConcatAppend
  <1>5. Append(p \o Append(q, s), n) = p \o Append(Append(q, s), n) BY <1>1, ConcatAppend
  <1> QED BY <1>2, <1>3, <1>4, <1>5

(* What is under what.  *)
LEMMA UnderConcat ==
  ASSUME NEW p \in Path, NEW q \in Path, NEW r \in Path
  PROVE  IsUnder(p \o q, p \o r) <=> IsUnder(q, r)
  <1>1. Len(p \o q) = Len(p) + Len(q) /\ Len(p \o r) = Len(p) + Len(r)
        /\ Len(p) \in Nat /\ Len(q) \in Nat /\ Len(r) \in Nat
    BY ConcatIs
  <1>2. ASSUME Len(r) < Len(q)
        PROVE  SubSeq(p \o q, 1, Len(p) + Len(r)) = p \o r <=> SubSeq(q, 1, Len(r)) = r
    <2>1. Len(r) \in 0..Len(q) BY <1>1, <1>2
    <2>2. SubSeq(p \o q, 1, Len(p) + Len(r)) = p \o SubSeq(q, 1, Len(r))
      BY <2>1, UpOfConcat
    <2>3. SubSeq(q, 1, Len(r)) \in Path BY <2>1, UpIs
    <2>4. p \o SubSeq(q, 1, Len(r)) = p \o r => SubSeq(q, 1, Len(r)) = r
      BY <2>3, ConcatInjective
    <2> QED BY <2>2, <2>4
  <1> QED BY <1>1, <1>2, SMTT(20) DEF IsUnder

(* What is written below a root lies under it. *)
LEMMA UnderRoot ==
  ASSUME NEW p \in Path, NEW q \in Path, q # << >>
  PROVE  IsUnder(p \o q, p)
  <1>1. Len(p \o q) = Len(p) + Len(q) /\ Len(p) \in Nat /\ Len(q) \in Nat \ {0}
    BY ConcatIs, ParentIs
  <1>2. SubSeq(p \o q, 1, Len(p)) = SubSeq(p, 1, Len(p))
    <2>1. Len(p) \in 0..Len(p) BY <1>1
    <2> QED BY <2>1, UpOfConcat
  <1> QED BY <1>1, <1>2, Whole DEF IsUnder

(* What lies under something under dir lies under dir. *)
LEMMA UnderUnder ==
  ASSUME NEW p \in Path, NEW q \in Path, NEW r \in Path, IsUnder(p, q), IsUnder(q, r)
  PROVE  IsUnder(p, r)
  <1>1. Len(p) \in Nat /\ Len(q) \in Nat /\ Len(r) \in Nat BY LenProperties DEF Path
  <1>2. Len(r) < Len(q) /\ Len(q) < Len(p) /\ SubSeq(p, 1, Len(q)) = q /\ SubSeq(q, 1, Len(r)) = r
    BY DEF IsUnder
  <1>3. Len(q) \in 0..Len(p) /\ Len(r) \in 0..Len(q) BY <1>1, <1>2
  <1>4. SubSeq(SubSeq(p, 1, Len(q)), 1, Len(r)) = SubSeq(p, 1, Len(r))
    BY <1>3, UpOfUp
  <1> QED BY <1>1, <1>2, <1>4 DEF IsUnder

(* A path lies under its parent. *)
LEMMA UnderItsParent ==
  ASSUME NEW p \in Path, p # << >>
  PROVE  IsUnder(p, Parent(p))
  BY ParentIs DEF IsUnder, Parent

(* Two paths above one, or one and a path above it, are comparable.        *)
LEMMA AboveOne ==
  ASSUME NEW p \in Path, NEW q \in Path, NEW r \in Path, IsUnder(p, q), IsUnder(p, r)
  PROVE  q = r \/ IsUnder(q, r) \/ IsUnder(r, q)
  <1>1. Len(p) \in Nat /\ Len(q) \in Nat /\ Len(r) \in Nat BY LenProperties DEF Path
  <1>2. Len(q) < Len(p) /\ SubSeq(p, 1, Len(q)) = q /\ Len(r) < Len(p) /\ SubSeq(p, 1, Len(r)) = r
    BY DEF IsUnder
  <1>3. Len(q) \in 0..Len(p) /\ Len(r) \in 0..Len(p) BY <1>1, <1>2
  <1>4. CASE Len(q) <= Len(r)
    <2>1. Len(q) \in 0..Len(r) BY <1>1, <1>4
    <2>2. SubSeq(SubSeq(p, 1, Len(r)), 1, Len(q)) = SubSeq(p, 1, Len(q))
      BY <2>1, <1>3, UpOfUp
    <2>3. SubSeq(r, 1, Len(q)) = q BY <2>2, <1>2
    <2>4. Len(q) = Len(r) => q = r BY <2>3, Whole
    <2>5. Len(q) = Len(r) \/ Len(q) < Len(r) BY <1>1, <1>4
    <2>6. Len(q) < Len(r) => IsUnder(r, q) BY <2>3 DEF IsUnder
    <2> QED BY <2>4, <2>5, <2>6
  <1>5. CASE Len(r) <= Len(q)
    <2>1. Len(r) \in 0..Len(q) BY <1>1, <1>5
    <2>2. SubSeq(SubSeq(p, 1, Len(q)), 1, Len(r)) = SubSeq(p, 1, Len(r))
      BY <2>1, <1>3, UpOfUp
    <2>3. SubSeq(q, 1, Len(r)) = r BY <2>2, <1>2
    <2>4. Len(q) = Len(r) => q = r BY <2>3, Whole
    <2>5. Len(q) = Len(r) \/ Len(r) < Len(q) BY <1>1, <1>5
    <2>6. Len(r) < Len(q) => IsUnder(q, r) BY <2>3 DEF IsUnder
    <2> QED BY <2>4, <2>5, <2>6
  <1> QED BY <1>1, <1>4, <1>5

(***************************************************************************)
(* Actions and what a list of them will have done.                         *)
(***************************************************************************)
(* The directories of the device that the tool knows of or makes.          *)
DeviceDirs ==
  {d \in Path : \/ \E q \in Files : IsUnder(Target \o q, d)
                \/ d = ThumbFolder \/ IsUnder(ThumbFolder, d)} \cup Stock

(* The objects, actions and plans that there may be. *)
Objects == [path : Path \ {<< >>}, dir : BOOLEAN, id : Nat]

(* In the source the tool only removes; it makes directories that it knows *)
(* of, and copies files.                                                   *)
Actions ==
  {a \in [on : {"local", "device"}, op : {"Remove", "MkDir", "Copy"},
          object : Objects, from : Path] :
     /\ a.on = "local" => a.op = "Remove"
     /\ a.op = "MkDir" => a.object.dir /\ a.object.path \in DeviceDirs
     /\ a.op = "Copy" => ~a.object.dir}

(* The paths that the actions from the n-th on remove from the source. *)
Gone(acts, n) ==
  {acts[i].object.path : i \in {j \in n..Len(acts) : acts[j].on = "local"}}

(* The paths that they remove from the device, and what they copy. *)
Removed(acts) ==
  {acts[i].object.path :
     i \in {j \in DOMAIN acts : acts[j].on = "device" /\ acts[j].op = "Remove"}}

Copies(acts) == {acts[i].from : i \in {j \in DOMAIN acts : acts[j].op = "Copy"}}

(* The action makes the file under p or removes what is there. *)
Settles(a, p) == a.on = "device" /\ a.op # "MkDir" /\ a.object.path = p

(* From the n-th action on, the file under p of this disk will be there in *)
(* the end: it stays, or the last action about it is a copy.               *)
WillStay(acts, n, disk, p) ==
  File(p) \in disk /\ \A i \in n..Len(acts) : ~Settles(acts[i], p)

WillBeMade(acts, n, p) ==
  \E i \in n..Len(acts) :
    /\ Settles(acts[i], p) /\ acts[i].op = "Copy"
    /\ \A j \in (i + 1)..Len(acts) : ~Settles(acts[j], p)

WillBe(acts, n, disk, p) == WillStay(acts, n, disk, p) \/ WillBeMade(acts, n, p)

(* What one more action adds to a list of them. *)
LEMMA AppendedAction ==
  ASSUME NEW acts \in Seq(Actions), NEW a \in Actions, NEW disk
  PROVE  /\ Append(acts, a) \in Seq(Actions)
         /\ Gone(Append(acts, a), 1) =
              Gone(acts, 1) \cup (IF a.on = "local" THEN {a.object.path} ELSE {})
         /\ Removed(Append(acts, a)) = Removed(acts) \cup
              (IF a.on = "device" /\ a.op = "Remove" THEN {a.object.path} ELSE {})
         /\ Copies(Append(acts, a)) =
              Copies(acts) \cup (IF a.op = "Copy" THEN {a.from} ELSE {})
         /\ \A p : WillBe(Append(acts, a), 1, disk, p) <=>
                     IF Settles(a, p) THEN a.op = "Copy" ELSE WillBe(acts, 1, disk, p)
  <1> DEFINE r == Append(acts, a)
             N == Len(acts)
  <1>1. /\ r \in Seq(Actions) /\ Len(r) = N + 1 /\ N \in Nat
        /\ \A i \in 1..N : r[i] = acts[i]
        /\ r[N + 1] = a
        /\ DOMAIN r = 1..(N + 1) /\ DOMAIN acts = 1..N
    <2>1. /\ r \in Seq(Actions) /\ Len(r) = N + 1 /\ N \in Nat
          /\ \A i \in 1..N : r[i] = acts[i]
          /\ r[N + 1] = a
      BY AppendTo
    <2> QED BY <2>1, LenProperties
  <1> HIDE DEF r, N
  <1>2. \A i : i \in 1..(N + 1) <=> i \in 1..N \/ i = N + 1 BY <1>1
  <1>3. Len(acts) = N BY DEF N
  <1>4. Gone(r, 1) = Gone(acts, 1) \cup (IF a.on = "local" THEN {a.object.path} ELSE {})
    BY <1>1, <1>2, <1>3 DEF Gone
  <1>5. Removed(r) = Removed(acts) \cup
              (IF a.on = "device" /\ a.op = "Remove" THEN {a.object.path} ELSE {})
    BY <1>1, <1>2 DEF Removed
  <1>6. Copies(r) = Copies(acts) \cup (IF a.op = "Copy" THEN {a.from} ELSE {})
    BY <1>1, <1>2 DEF Copies
  <1>7. ASSUME NEW p
        PROVE  WillBe(r, 1, disk, p) <=>
                 IF Settles(a, p) THEN a.op = "Copy" ELSE WillBe(acts, 1, disk, p)
    <2>1. WillStay(r, 1, disk, p) <=> ~Settles(a, p) /\ WillStay(acts, 1, disk, p)
      BY <1>1, <1>2, <1>3 DEF WillStay
    <2>2. CASE Settles(a, p)
      <3>1. ASSUME a.op = "Copy" PROVE WillBeMade(r, 1, p)
        <4>1. N + 1 \in 1..Len(r) /\ (N + 1 + 1)..Len(r) = {} BY <1>1
        <4> QED BY <4>1, <3>1, <2>2, <1>1 DEF WillBeMade
      <3>2. ASSUME WillBeMade(r, 1, p) PROVE a.op = "Copy"
        <4>1. PICK i \in 1..(N + 1) : /\ r[i].op = "Copy"
                                     /\ \A j \in (i + 1)..(N + 1) : ~Settles(r[j], p)
          BY <3>2, <1>1 DEF WillBeMade
        <4>2. i = N + 1
          <5> SUFFICES ASSUME i # N + 1 PROVE FALSE OBVIOUS
          <5>1. N + 1 \in (i + 1)..(N + 1) BY <1>1, <1>2
          <5> QED BY <5>1, <4>1, <1>1, <2>2
        <4> QED BY <4>1, <4>2, <1>1
      <3> QED BY <3>1, <3>2, <2>1, <2>2 DEF WillBe
    <2>3. CASE ~Settles(a, p)
      <3>1. ASSUME WillBeMade(acts, 1, p) PROVE WillBeMade(r, 1, p)
        <4>1. PICK i \in 1..N : /\ Settles(acts[i], p) /\ acts[i].op = "Copy"
                               /\ \A j \in (i + 1)..N : ~Settles(acts[j], p)
          BY <3>1, <1>3 DEF WillBeMade
        <4>2. \A j \in (i + 1)..(N + 1) : ~Settles(r[j], p)
          <5> TAKE j \in (i + 1)..(N + 1)
          <5>1. j = N + 1 \/ (j \in (i + 1)..N /\ j \in 1..N) BY <1>1
          <5> QED BY <5>1, <4>1, <1>1, <2>3
        <4> QED BY <4>1, <4>2, <1>1, <1>2 DEF WillBeMade
      <3>2. ASSUME WillBeMade(r, 1, p) PROVE WillBeMade(acts, 1, p)
        <4>1. PICK i \in 1..(N + 1) : /\ Settles(r[i], p) /\ r[i].op = "Copy"
                                     /\ \A j \in (i + 1)..(N + 1) : ~Settles(r[j], p)
          BY <3>2, <1>1 DEF WillBeMade
        <4>2. i \in 1..N BY <4>1, <1>1, <1>2, <2>3
        <4>3. \A j \in (i + 1)..N : ~Settles(acts[j], p)
          <5> TAKE j \in (i + 1)..N
          <5>1. j \in (i + 1)..(N + 1) /\ j \in 1..N BY <4>2, <1>1
          <5> QED BY <5>1, <4>1, <1>1
        <4> QED BY <4>1, <4>2, <4>3, <1>1, <1>3 DEF WillBeMade
      <3> QED BY <3>1, <3>2, <2>1, <2>3 DEF WillBe
    <2> QED BY <2>2, <2>3
  <1> QED BY <1>1, <1>4, <1>5, <1>6, <1>7 DEF r

(* A block of actions that settles no file on the device. *)
LEMMA AppendedBlock ==
  ASSUME NEW acts \in Seq(Actions), NEW blk \in Seq(Actions), NEW disk,
         \A i \in DOMAIN blk : blk[i].on = "local" \/ blk[i].op = "MkDir"
  PROVE  /\ acts \o blk \in Seq(Actions)
         /\ Gone(acts \o blk, 1) = Gone(acts, 1) \cup
              {blk[i].object.path : i \in {j \in DOMAIN blk : blk[j].on = "local"}}
         /\ Removed(acts \o blk) = Removed(acts)
         /\ Copies(acts \o blk) = Copies(acts)
         /\ \A p : WillBe(acts \o blk, 1, disk, p) <=> WillBe(acts, 1, disk, p)
  <1> DEFINE r == acts \o blk
             N == Len(acts)
             M == Len(blk)
  <1>1. /\ r \in Seq(Actions) /\ Len(r) = N + M /\ N \in Nat /\ M \in Nat
        /\ DOMAIN r = 1..(N + M) /\ DOMAIN acts = 1..N /\ DOMAIN blk = 1..M
        /\ \A i \in 1..(N + M) : r[i] = IF i <= N THEN acts[i] ELSE blk[i - N]
    BY ConcatProperties, LenProperties
  <1> HIDE DEF r, N, M
  <1>2. Len(acts) = N BY DEF N
  <1>3. \A i \in 1..N : i \in 1..(N + M) /\ r[i] = acts[i] BY <1>1
  <1>4. \A k \in 1..M : N + k \in 1..(N + M) /\ r[N + k] = blk[k] BY <1>1
  <1>5. \A i \in 1..(N + M) : i \notin 1..N => \E k \in 1..M : i = N + k /\ r[i] = blk[k]
    <2> TAKE i \in 1..(N + M)
    <2> HAVE i \notin 1..N
    <2>1. i - N \in 1..M /\ i = N + (i - N) BY <1>1
    <2> QED BY <2>1, <1>4
  <1>6. \A k \in 1..M : blk[k] \in Actions BY <1>1
  <1>7. \A k \in 1..M : ~(blk[k].on = "device" /\ blk[k].op # "MkDir") /\ blk[k].op # "Copy"
                       /\ ~(blk[k].on = "device" /\ blk[k].op = "Remove")
    BY <1>1, <1>6 DEF Actions
  <1>8. Gone(r, 1) = Gone(acts, 1) \cup
              {blk[i].object.path : i \in {j \in DOMAIN blk : blk[j].on = "local"}}
    <2>1. ASSUME NEW p \in Gone(r, 1)
          PROVE  p \in Gone(acts, 1) \cup {blk[i].object.path : i \in {j \in DOMAIN blk : blk[j].on = "local"}}
      <3>1. PICK i \in 1..(N + M) : r[i].on = "local" /\ p = r[i].object.path
        BY <1>1 DEF Gone
      <3>2. CASE i \in 1..N BY <3>1, <3>2, <1>2, <1>3 DEF Gone
      <3>3. CASE i \notin 1..N BY <3>1, <3>3, <1>5, <1>1, SMTT(20)
      <3> QED BY <3>2, <3>3
    <2>2. Gone(acts, 1) \subseteq Gone(r, 1) BY <1>1, <1>2, <1>3 DEF Gone
    <2>3. {blk[i].object.path : i \in {j \in DOMAIN blk : blk[j].on = "local"}} \subseteq Gone(r, 1)
      BY <1>1, <1>4 DEF Gone
    <2> QED BY <2>1, <2>2, <2>3
  <1>9. Removed(r) = Removed(acts)
    <2>1. Removed(acts) \subseteq Removed(r) BY <1>1, <1>3 DEF Removed
    <2>2. ASSUME NEW p \in Removed(r) PROVE p \in Removed(acts)
      <3>1. PICK i \in 1..(N + M) : r[i].on = "device" /\ r[i].op = "Remove" /\ p = r[i].object.path
        BY <1>1 DEF Removed
      <3>2. i \in 1..N BY <3>1, <1>5, <1>7
      <3> QED BY <3>1, <3>2, <1>1, <1>3 DEF Removed
    <2> QED BY <2>1, <2>2
  <1>10. Copies(r) = Copies(acts)
    <2>1. Copies(acts) \subseteq Copies(r) BY <1>1, <1>3 DEF Copies
    <2>2. ASSUME NEW p \in Copies(r) PROVE p \in Copies(acts)
      <3>1. PICK i \in 1..(N + M) : r[i].op = "Copy" /\ p = r[i].from
        BY <1>1 DEF Copies
      <3>2. i \in 1..N BY <3>1, <1>5, <1>7
      <3> QED BY <3>1, <3>2, <1>1, <1>3 DEF Copies
    <2> QED BY <2>1, <2>2
  <1>11. ASSUME NEW p PROVE WillBe(r, 1, disk, p) <=> WillBe(acts, 1, disk, p)
    <2>1. \A i \in 1..(N + M) : i \notin 1..N => ~Settles(r[i], p)
      BY <1>5, <1>7 DEF Settles
    <2>2. WillStay(r, 1, disk, p) <=> WillStay(acts, 1, disk, p)
      BY <2>1, <1>1, <1>2, <1>3 DEF WillStay
    <2>3. ASSUME WillBeMade(acts, 1, p) PROVE WillBeMade(r, 1, p)
      <3>1. PICK i \in 1..N : /\ Settles(acts[i], p) /\ acts[i].op = "Copy"
                             /\ \A j \in (i + 1)..N : ~Settles(acts[j], p)
        BY <2>3, <1>2 DEF WillBeMade
      <3>2. \A j \in (i + 1)..(N + M) : ~Settles(r[j], p)
        <4> TAKE j \in (i + 1)..(N + M)
        <4>1. j \in 1..(N + M) /\ (j \in 1..N => j \in (i + 1)..N) BY <1>1
        <4> QED BY <4>1, <3>1, <2>1, <1>3
      <3> QED BY <3>1, <3>2, <1>1, <1>3 DEF WillBeMade
    <2>4. ASSUME WillBeMade(r, 1, p) PROVE WillBeMade(acts, 1, p)
      <3>1. PICK i \in 1..(N + M) : /\ Settles(r[i], p) /\ r[i].op = "Copy"
                                   /\ \A j \in (i + 1)..(N + M) : ~Settles(r[j], p)
        BY <2>4, <1>1 DEF WillBeMade
      <3>2. i \in 1..N BY <3>1, <2>1
      <3>3. \A j \in (i + 1)..N : ~Settles(acts[j], p)
        <4> TAKE j \in (i + 1)..N
        <4>1. j \in (i + 1)..(N + M) /\ j \in 1..N BY <3>2, <1>1
        <4> QED BY <4>1, <3>1, <1>3
      <3> QED BY <3>1, <3>2, <3>3, <1>2, <1>3 DEF WillBeMade
    <2> QED BY <2>2, <2>3, <2>4 DEF WillBe
  <1> QED BY <1>1, <1>8, <1>9, <1>10, <1>11 DEF r

(***************************************************************************)
(* Plans.                                                                  *)
(***************************************************************************)
LocalFiles == {Source \o q : q \in BookPaths \cup Indexes}

LocalDirs == {d \in Path : \E f \in LocalFiles : IsUnder(f, d)}

FilesIn(ois) == {o.path : o \in {x \in ois : ~x.dir}}

DirsIn(ois) == {o.path : o \in {x \in ois : x.dir}}

Bare(ois) == {[path |-> o.path, dir |-> o.dir] : o \in ois}

Keyed(ois) == \A o, x \in ois : o.path = x.path => o = x

(* Above every object there are its directories. *)
Closed(ois) ==
  \A o \in ois : \A n \in 1..(Len(o.path) - 1) :
    \E d \in ois : d.path = SubSeq(o.path, 1, n) /\ d.dir

Thumbs == [key : Path, object : Objects]

Plans == [actions : Seq(Actions), src : SUBSET Objects, dst : SUBSET Objects,
          thumbs : SUBSET Thumbs]

(* The source that the planner sees is a tree of books and page indexes.   *)
SourceTree(ois) ==
  /\ Keyed(ois) /\ Closed(ois)
  /\ FilesIn(ois) \subseteq LocalFiles /\ DirsIn(ois) \subseteq LocalDirs

(* What the planner knows to be on the device. *)
DeviceFiles ==
  {Target \o q : q \in Files} \cup {Append(ThumbFolder, ThumbOf[Name(b)]) : b \in BookPaths}

TargetKnown(ois) == FilesIn(ois) \subseteq DeviceFiles /\ DirsIn(ois) \subseteq DeviceDirs

(* What is left when the actions from the n-th on have been carried out.   *)
LocalForetold(pl, n) == Bare(pl.src) = {x \in local : x.path \notin Gone(pl.actions, n)}

DeviceForetold(pl, n) ==
  \A p \in Path : p \in FilesIn(pl.dst) <=> WillBe(pl.actions, n, device, p)

(* The thumbnails are known by their names, those of the plan by paths.    *)
ThumbsKnown(thumbs) ==
  \A e \in thumbs : Len(e.key) = 1 => e.object.path = Append(ThumbFolder, e.key[1])

(* A plan that has not been begun: its sets are what the disks will be. *)
Sound(pl) ==
  /\ pl \in Plans
  /\ SourceTree(pl.src) /\ TargetKnown(pl.dst) /\ ThumbsKnown(pl.thumbs)
  /\ LocalForetold(pl, 1) /\ DeviceForetold(pl, 1)

(* r is pl with actions that remove the files in lost from the device,     *)
(* then make those in made there, as copies of what is in copied.          *)
Extends(pl, r, lost, made, copied) ==
  /\ Sound(r)
  /\ r.src = pl.src
  /\ FilesIn(r.dst) = (FilesIn(pl.dst) \ lost) \cup made
  /\ Gone(r.actions, 1) = Gone(pl.actions, 1)
  /\ Removed(pl.actions) \subseteq Removed(r.actions)
  /\ Removed(r.actions) \subseteq Removed(pl.actions) \cup lost
  /\ Copies(r.actions) = Copies(pl.actions) \cup copied

(* Extends is transitive. *)
LEMMA ExtendsTwice ==
  ASSUME NEW a, NEW b, NEW c, NEW l1, NEW m1, NEW c1, NEW l2, NEW m2, NEW c2,
         Extends(a, b, l1, m1, c1), Extends(b, c, l2, m2, c2)
  PROVE  Extends(a, c, l1 \cup l2, (m1 \ l2) \cup m2, c1 \cup c2)
  BY DEF Extends

(* A plan extends itself when there is nothing to remove. *)
LEMMA ExtendsBySelf ==
  ASSUME NEW a, NEW l, Sound(a), FilesIn(a.dst) \cap l = {}
  PROVE  Extends(a, a, l, {}, {})
  BY DEF Extends

(* The files of the device are paths. *)
LEMMA DeviceFilesArePaths == DeviceFiles \subseteq Path \ {<< >>}
  <1>1. ASSUME NEW q \in Files PROVE Target \o q \in Path \ {<< >>}
    <2>1. Target \in Path /\ q \in Path \ {<< >>} BY PathsAssumption DEF PathsFit
    <2>2. Target \o q \in Path /\ Len(Target \o q) = Len(Target) + Len(q)
          /\ Len(Target) \in Nat /\ Len(q) \in Nat \ {0}
      BY <2>1, ConcatIs, ParentIs
    <2> QED BY <2>2, EmptySeq
  <1>2. ASSUME NEW b \in BookPaths
        PROVE  Append(ThumbFolder, ThumbOf[Name(b)]) \in Path \ {<< >>}
    BY PathsAssumption, AppendIs DEF PathsFit
  <1> QED BY <1>1, <1>2 DEF DeviceFiles

(* The fields of a plan with one more action. *)
LEMMA ActIs ==
  ASSUME NEW pl \in Plans, NEW on, NEW op, NEW o, NEW from
  PROVE  Act(pl, on, op, o, from) =
           [actions |-> Append(pl.actions, [on |-> on, op |-> op, object |-> o, from |-> from]),
            src |-> pl.src, dst |-> pl.dst, thumbs |-> pl.thumbs]
  <1> DEFINE a == [on |-> on, op |-> op, object |-> o, from |-> from]
             l == Append(pl.actions, a)
  <1>1. Act(pl, on, op, o, from) = [pl EXCEPT !.actions = l] BY DEF Act
  <1> HIDE DEF l
  <1>2. [pl EXCEPT !.actions = l] =
          [actions |-> l, src |-> pl.src, dst |-> pl.dst, thumbs |-> pl.thumbs]
    BY DEF Plans
  <1> QED BY <1>1, <1>2 DEF l

(* The plan with an action that removes an object from the device. *)
LEMMA RemoveFromDeviceIs ==
  ASSUME NEW pl \in Plans, NEW o
  PROVE  RemoveFromDevice(pl, o) =
           [actions |-> Append(pl.actions, [on |-> "device", op |-> "Remove",
                                            object |-> o, from |-> << >>]),
            src |-> pl.src, dst |-> Delete(pl.dst, o.path), thumbs |-> pl.thumbs]
  <1> DEFINE r == RemoveFromDevice(pl, o)
             a == [on |-> "device", op |-> "Remove", object |-> o, from |-> << >>]
             s == Act(pl, "device", "Remove", o, << >>)
  <1>1. s = [actions |-> Append(pl.actions, a), src |-> pl.src, dst |-> pl.dst, thumbs |-> pl.thumbs]
    BY ActIs
  <1> HIDE DEF s, a
  <1>2. r = [s EXCEPT !.dst = Delete(@, o.path)] BY DEF RemoveFromDevice, s
  <1> HIDE DEF r
  <1>3. r = [actions |-> Append(pl.actions, a), src |-> pl.src,
             dst |-> Delete(pl.dst, o.path), thumbs |-> pl.thumbs]
    BY <1>1, <1>2
  <1> QED BY <1>3 DEF r, a

(* Removing an object from the device (the Remove actions of case 6 and of *)
(* the copies).                                                            *)
LEMMA RemoveFromDeviceDoes ==
  ASSUME NEW pl, Sound(pl), NEW o \in Objects
  PROVE  /\ Extends(pl, RemoveFromDevice(pl, o), {o.path}, {}, {})
         /\ o.path \in Removed(RemoveFromDevice(pl, o).actions)
         /\ RemoveFromDevice(pl, o).thumbs = pl.thumbs
  <1> DEFINE r == RemoveFromDevice(pl, o)
             a == [on |-> "device", op |-> "Remove", object |-> o, from |-> << >>]
  <1>1. pl \in Plans BY DEF Sound
  <1>0. r = [actions |-> Append(pl.actions, a), src |-> pl.src,
             dst |-> Delete(pl.dst, o.path), thumbs |-> pl.thumbs]
    BY <1>1, RemoveFromDeviceIs
  <1> HIDE DEF r
  <1>2. /\ r.actions = Append(pl.actions, a) /\ r.src = pl.src /\ r.thumbs = pl.thumbs
        /\ r.dst = Delete(pl.dst, o.path)
    BY <1>0
  <1>3. a \in Actions
    <2>1. << >> \in Path BY EmptySeq DEF Path
    <2> QED BY <2>1 DEF Actions
  <1>4. a.on = "device" /\ a.op = "Remove" /\ a.object.path = o.path OBVIOUS
  <1> HIDE DEF a
  <1>5. pl.actions \in Seq(Actions) /\ pl.dst \subseteq Objects BY <1>1 DEF Plans
  <1>6. /\ r.actions \in Seq(Actions)
        /\ Gone(r.actions, 1) = Gone(pl.actions, 1)
        /\ Removed(r.actions) = Removed(pl.actions) \cup {o.path}
        /\ Copies(r.actions) = Copies(pl.actions)
        /\ \A p : WillBe(r.actions, 1, device, p) <=>
                     p # o.path /\ WillBe(pl.actions, 1, device, p)
    <2>1. /\ Append(pl.actions, a) \in Seq(Actions)
          /\ Gone(Append(pl.actions, a), 1) =
              Gone(pl.actions, 1) \cup (IF a.on = "local" THEN {a.object.path} ELSE {})
          /\ Removed(Append(pl.actions, a)) = Removed(pl.actions) \cup
              (IF a.on = "device" /\ a.op = "Remove" THEN {a.object.path} ELSE {})
          /\ Copies(Append(pl.actions, a)) =
              Copies(pl.actions) \cup (IF a.op = "Copy" THEN {a.from} ELSE {})
          /\ \A p : WillBe(Append(pl.actions, a), 1, device, p) <=>
                     IF Settles(a, p) THEN a.op = "Copy" ELSE WillBe(pl.actions, 1, device, p)
      BY <1>3, <1>5, AppendedAction, Zenon
    <2>2. \A p : Settles(a, p) <=> p = o.path BY <1>4 DEF Settles
    <2> QED BY <2>1, <2>2, <1>2, <1>4
  <1>7. FilesIn(r.dst) = FilesIn(pl.dst) \ {o.path} BY <1>2 DEF FilesIn, Delete
  <1>8. r \in Plans BY <1>0, <1>1, <1>2, <1>6 DEF Plans, Delete
  <1>9. LocalForetold(r, 1) BY <1>2, <1>6 DEF Sound, LocalForetold
  <1>10. DeviceForetold(r, 1) BY <1>6, <1>7 DEF Sound, DeviceForetold
  <1>11. TargetKnown(r.dst) BY <1>2 DEF Sound, TargetKnown, FilesIn, DirsIn, Delete
  <1>12. Sound(r) BY <1>2, <1>8, <1>9, <1>10, <1>11 DEF Sound
  <1> QED BY <1>2, <1>6, <1>7, <1>12 DEF Extends, r

(* The plan with an action that makes a file on the device. *)
LEMMA CopyToDeviceIs ==
  ASSUME NEW pl \in Plans, NEW p, NEW from
  PROVE  LET o == [path |-> p, dir |-> FALSE, id |-> Len(pl.actions) + 1]
         IN  Make(pl, "Copy", p, FALSE, from) =
               [actions |-> Append(pl.actions, [on |-> "device", op |-> "Copy",
                                                object |-> o, from |-> from]),
                src |-> pl.src, dst |-> Add(pl.dst, o), thumbs |-> pl.thumbs]
  <1> DEFINE r == Make(pl, "Copy", p, FALSE, from)
             o == [path |-> p, dir |-> FALSE, id |-> Len(pl.actions) + 1]
             a == [on |-> "device", op |-> "Copy", object |-> o, from |-> from]
             s == Act(pl, "device", "Copy", o, from)
  <1>1. s = [actions |-> Append(pl.actions, a), src |-> pl.src, dst |-> pl.dst, thumbs |-> pl.thumbs]
    <2> HIDE DEF o
    <2> QED BY ActIs
  <1>2. r = [s EXCEPT !.dst = Add(@, o)] BY DEF Make, s, a, o
  <1> HIDE DEF s, a, o
  <1> HIDE DEF r
  <1>3. r = [actions |-> Append(pl.actions, a), src |-> pl.src,
             dst |-> Add(pl.dst, o), thumbs |-> pl.thumbs]
    BY <1>1, <1>2
  <1> QED BY <1>3 DEF r, a, o

(* Copying a file to the device where there is none under its path. *)
LEMMA CopyToDeviceDoes ==
  ASSUME NEW pl, Sound(pl), NEW p \in DeviceFiles, NEW from \in Path
  PROVE  /\ Extends(pl, Make(pl, "Copy", p, FALSE, from), {}, {p}, {from})
         /\ Make(pl, "Copy", p, FALSE, from).thumbs = pl.thumbs
  <1> DEFINE r == Make(pl, "Copy", p, FALSE, from)
             o == [path |-> p, dir |-> FALSE, id |-> Len(pl.actions) + 1]
             a == [on |-> "device", op |-> "Copy", object |-> o, from |-> from]
  <1>1. pl \in Plans BY DEF Sound
  <1>0. p \in Path \ {<< >>} BY DeviceFilesArePaths
  <1>r. r = [actions |-> Append(pl.actions, a), src |-> pl.src,
                dst |-> Add(pl.dst, o), thumbs |-> pl.thumbs]
    BY <1>1, CopyToDeviceIs, Zenon
  <1> HIDE DEF r
  <1>2. /\ r.actions = Append(pl.actions, a) /\ r.src = pl.src /\ r.thumbs = pl.thumbs
        /\ r.dst = Add(pl.dst, o)
    BY <1>r
  <1>5. pl.actions \in Seq(Actions) /\ pl.dst \subseteq Objects BY <1>1 DEF Plans
  <1>3. o \in Objects /\ ~o.dir /\ o.path = p
    BY <1>0, <1>5, LenProperties DEF Objects
  <1>3a. a.on = "device" /\ a.op = "Copy" /\ a.object.path = p /\ a.from = from OBVIOUS
  <1>4. a \in Actions
    BY <1>3, <1>3a DEF Actions
  <1> HIDE DEF a, o
  <1>6. /\ r.actions \in Seq(Actions)
        /\ Gone(r.actions, 1) = Gone(pl.actions, 1)
        /\ Removed(r.actions) = Removed(pl.actions)
        /\ Copies(r.actions) = Copies(pl.actions) \cup {from}
        /\ \A q : WillBe(r.actions, 1, device, q) <=>
                     q = p \/ WillBe(pl.actions, 1, device, q)
    <2>1. /\ Append(pl.actions, a) \in Seq(Actions)
          /\ Gone(Append(pl.actions, a), 1) =
              Gone(pl.actions, 1) \cup (IF a.on = "local" THEN {a.object.path} ELSE {})
          /\ Removed(Append(pl.actions, a)) = Removed(pl.actions) \cup
              (IF a.on = "device" /\ a.op = "Remove" THEN {a.object.path} ELSE {})
          /\ Copies(Append(pl.actions, a)) =
              Copies(pl.actions) \cup (IF a.op = "Copy" THEN {a.from} ELSE {})
          /\ \A q : WillBe(Append(pl.actions, a), 1, device, q) <=>
                     IF Settles(a, q) THEN a.op = "Copy" ELSE WillBe(pl.actions, 1, device, q)
      BY <1>4, <1>5, AppendedAction, Zenon
    <2>2. \A q : Settles(a, q) <=> q = p BY <1>3a DEF Settles
    <2> QED BY <2>1, <2>2, <1>2, <1>3a
  <1>7. FilesIn(r.dst) = FilesIn(pl.dst) \cup {p}
    BY <1>2, <1>3 DEF FilesIn, Add
  <1>8. r \in Plans BY <1>r, <1>1, <1>2, <1>3, <1>6 DEF Plans, Add
  <1>9. LocalForetold(r, 1) BY <1>2, <1>6 DEF Sound, LocalForetold
  <1>10. DeviceForetold(r, 1) BY <1>6, <1>7 DEF Sound, DeviceForetold
  <1>11. TargetKnown(r.dst)
    <2>1. DirsIn(r.dst) \subseteq DirsIn(pl.dst) BY <1>2, <1>3 DEF DirsIn, Add
    <2> QED BY <2>1, <1>7 DEF Sound, TargetKnown
  <1>12. Sound(r) BY <1>2, <1>8, <1>9, <1>10, <1>11 DEF Sound
  <1> QED BY <1>2, <1>6, <1>7, <1>12 DEF Extends, r

(* A set of numbers of an interval has a least and a greatest element.     *)
LEMMA LeastOf ==
  ASSUME NEW S \in SUBSET Nat, S # {}
  PROVE  \E n \in S : \A k \in S : n <= k
  <1>1. PICK n \in S : \A k \in S : <<k, n>> \notin OpToRel(<, Nat)
    BY WFMin, NatLessThanWellFounded
  <1>2. \A k \in S : ~(k < n) BY <1>1 DEF OpToRel
  <1> QED BY <1>2

LEMMA GreatestOf ==
  ASSUME NEW b \in Nat, NEW S \in SUBSET (0..b), S # {}
  PROVE  \E n \in S : \A k \in S : k <= n
  <1> DEFINE T == {b - n : n \in S}
  <1>1. T \in SUBSET Nat /\ T # {}
    <2>1. \A n \in S : n \in Int /\ n <= b /\ b - n \in Nat OBVIOUS
    <2> QED BY <2>1
  <1>2. PICK m \in T : \A k \in T : m <= k
    <2> HIDE DEF T
    <2> QED BY <1>1, LeastOf
  <1>3. PICK n \in S : m = b - n OBVIOUS
  <1>4. \A k \in S : b - k \in T OBVIOUS
  <1>5. \A k \in S : b - n <= b - k BY <1>2, <1>3, <1>4
  <1>6. \A k \in S : k <= n BY <1>5
  <1> QED BY <1>6

(* WriteDir(q): the directory of a copy. *)
LEMMA UpsAreDirs ==
  ASSUME NEW q \in Files, NEW n \in Len(Target)..Len(Parent(Target \o q))
  PROVE  SubSeq(Parent(Target \o q), 1, n) \in DeviceDirs \ {<< >>}
  <1>1. Target \in Path \ {<< >>} /\ q \in Path \ {<< >>} BY PathsAssumption DEF PathsFit
  <1> DEFINE p == Target \o q
  <1>2. p \in Path /\ Len(p) = Len(Target) + Len(q) /\ Len(Target) \in Nat \ {0} /\ Len(q) \in Nat \ {0}
    BY <1>1, ConcatIs, ParentIs
  <1>3. p # << >> BY <1>2, EmptySeq
  <1>4. Parent(p) \in Path /\ Len(Parent(p)) = Len(p) - 1 BY <1>2, <1>3, ParentIs
  <1>5. n \in 0..Len(Parent(p)) /\ n > 0 /\ n \in 0..(Len(p) - 1) /\ n \in Nat
    BY <1>2, <1>4
  <1>6. SubSeq(Parent(p), 1, n) = SubSeq(p, 1, n)
    <2>1. Len(p) - 1 \in 0..Len(p) BY <1>2
    <2> QED BY <1>2, <1>5, <2>1, UpOfUp DEF Parent
  <1>7. SubSeq(p, 1, n) \in Path /\ Len(SubSeq(p, 1, n)) = n
    <2>1. n \in 0..Len(p) BY <1>2, <1>5
    <2> QED BY <1>2, <2>1, UpIs, Zenon
  <1>8. IsUnder(p, SubSeq(p, 1, n))
    BY <1>2, <1>5, <1>7 DEF IsUnder
  <1>9. SubSeq(p, 1, n) # << >> BY <1>7, <1>5, EmptySeq
  <1> QED BY <1>6, <1>7, <1>8, <1>9 DEF DeviceDirs

(* r is pl with the directories from first to p, the missing ones.         *)
MakesDirs(pl, r, p, first, blk) ==
  /\ r.actions = pl.actions \o blk /\ Len(blk) = Len(p) + 1 - first
  /\ r.dst = pl.dst \cup {blk[i].object : i \in 1..Len(blk)}
  /\ \A i \in 1..Len(blk) :
       blk[i] = [on |-> "device", op |-> "MkDir", from |-> << >>,
                 object |-> [path |-> SubSeq(p, 1, first + i - 1), dir |-> TRUE,
                             id |-> Len(pl.actions) + i]]
  /\ \A n \in Len(Target)..(first - 1) : Find(pl.dst, SubSeq(p, 1, n)) # {}
  /\ first <= Len(p) => Find(pl.dst, SubSeq(p, 1, first)) = {}

(* makeCreateDirActions makes directories only, so that the files stay as  *)
(* they are planned.                                                       *)
LEMMA MakeCreateDirActionsDoes ==
  ASSUME NEW pl, Sound(pl), NEW q \in Files
  PROVE  LET p == Parent(Target \o q)
             r == MakeCreateDirActions(pl, p)
         IN  /\ Extends(pl, r, {}, {}, {}) /\ r.thumbs = pl.thumbs
             /\ \E first \in Len(Target)..(Len(p) + 1), blk \in Seq(Actions) :
                  MakesDirs(pl, r, p, first, blk)
  <1> DEFINE r == MakeCreateDirActions(pl, Parent(Target \o q))
             p == Parent(Target \o q)
             missing == {n \in Len(Target)..Len(p) : Find(pl.dst, SubSeq(p, 1, n)) = {}}
             first == CHOOSE n \in missing : \A k \in missing : n <= k
             made == [i \in 1..(Len(p) + 1 - first) |->
                        [path |-> SubSeq(p, 1, first + i - 1), dir |-> TRUE,
                         id |-> Len(pl.actions) + i]]
             blk == [i \in DOMAIN made |->
                       [on |-> "device", op |-> "MkDir", object |-> made[i], from |-> <<>>]]
  <1>1. pl \in Plans BY DEF Sound
  <1>1a. Len(Target) \in Nat /\ Len(p) \in Nat /\ Len(Target) <= Len(p)
    <2>1. Target \in Path \ {<< >>} /\ q \in Path \ {<< >>} BY PathsAssumption DEF PathsFit
    <2>2. Target \o q \in Path /\ Target \o q # << >> /\ Len(Target) \in Nat
          /\ Len(Target \o q) = Len(Target) + Len(q) /\ Len(q) \in Nat \ {0}
      BY <2>1, ConcatIs, ParentIs, EmptySeq
    <2>3. Len(p) = Len(Target \o q) - 1 BY <2>2, ParentIs
    <2> HIDE DEF p
    <2> QED BY <2>2, <2>3
  <1>2. CASE missing = {}
    <2>1. r = pl BY <1>2 DEF MakeCreateDirActions
    <2> DEFINE n1 == Len(p) + 1
    <2>2. \A n \in Len(Target)..(n1 - 1) : Find(pl.dst, SubSeq(p, 1, n)) # {}
      BY <1>1a, <1>2
    <2>3. n1 \in Len(Target)..(Len(p) + 1) /\ ~(n1 <= Len(p)) /\ Len(p) + 1 - n1 = 0 BY <1>1a
    <2> HIDE DEF n1, missing, p, r
    <2>4. \E acts \in Seq(Actions) : MakesDirs(pl, r, p, n1, acts)
      <3> DEFINE none == << >>
      <3>1. none \in Seq(Actions) /\ Len(none) = 0 BY EmptySeq
      <3>2. pl.actions \in Seq(Actions) BY <1>1 DEF Plans
      <3>3. pl.actions \o none = pl.actions BY <3>2, ConcatEmptySeq
      <3> HIDE DEF none
      <3>4. 1..Len(none) = {} BY <3>1
      <3>5. {none[i].object : i \in 1..Len(none)} = {} BY <3>4
      <3>6. MakesDirs(pl, r, p, n1, none)
        BY <2>1, <2>2, <2>3, <3>1, <3>3, <3>4, <3>5 DEF MakesDirs
      <3> QED BY <3>1, <3>6
    <2> QED BY <2>1, <2>3, <2>4, ExtendsBySelf DEF p, r
  <1>3. CASE missing # {}
    <2>1. r = [pl EXCEPT !.actions = @ \o blk, !.dst = @ \cup {made[i] : i \in DOMAIN made}]
      BY <1>3, Zenon DEF MakeCreateDirActions
    <2> HIDE DEF r
    <2>2. Len(Target) \in Nat /\ Len(p) \in Nat /\ Len(pl.actions) \in Nat
          /\ pl.actions \in Seq(Actions)
      <3>1. Target \in Path \ {<< >>} /\ q \in Path \ {<< >>} BY PathsAssumption DEF PathsFit
      <3>2. Target \o q \in Path /\ Target \o q # << >>
        BY <3>1, ConcatIs, ParentIs, EmptySeq
      <3>3. Parent(Target \o q) \in Path BY <3>2, ParentIs
      <3> QED BY <3>1, <3>3, <1>1, LenProperties DEF Path, Plans
    <2>3. first \in missing /\ first \in Len(Target)..Len(p)
      <3>1. missing \in SUBSET Nat BY <2>2
      <3>2. \E n \in missing : \A k \in missing : n <= k BY <3>1, <1>3, LeastOf
      <3> QED BY <3>2
    <2>3a. /\ Find(pl.dst, SubSeq(p, 1, first)) = {}
           /\ \A n \in Len(Target)..(first - 1) : Find(pl.dst, SubSeq(p, 1, n)) # {}
      <3>1. Find(pl.dst, SubSeq(p, 1, first)) = {} BY <2>3
      <3>2. \A k \in missing : first <= k
        <4>1. missing \in SUBSET Nat BY <2>2
        <4>2. \E n \in missing : \A k \in missing : n <= k BY <4>1, <1>3, LeastOf
        <4> QED BY <4>2
      <3>3. ASSUME NEW n \in Len(Target)..(first - 1), Find(pl.dst, SubSeq(p, 1, n)) = {}
            PROVE  FALSE
        <4> HIDE DEF first
        <4>1. n \in Len(Target)..Len(p) /\ ~(first <= n) BY <2>2, <2>3
        <4>2. n \in missing BY <3>3, <4>1
        <4> HIDE DEF missing
        <4> QED BY <3>2, <4>1, <4>2
      <3> QED BY <3>1, <3>3
    <2> HIDE DEF first, missing
    <2>4. ASSUME NEW i \in 1..(Len(p) + 1 - first)
          PROVE  /\ made[i] \in Objects /\ made[i].dir /\ made[i].path \in DeviceDirs
                 /\ made[i] = [path |-> SubSeq(p, 1, first + i - 1), dir |-> TRUE,
                              id |-> Len(pl.actions) + i]
      <3>1. first + i - 1 \in Len(Target)..Len(p) BY <2>2, <2>3
      <3>2. SubSeq(p, 1, first + i - 1) \in DeviceDirs \ {<< >>} BY <3>1, UpsAreDirs
      <3>3. SubSeq(p, 1, first + i - 1) \in Path
        BY <3>2, PathsAssumption DEF DeviceDirs, PathsFit
      <3>4. Len(pl.actions) + i \in Nat BY <2>2, <2>3
      <3>5. made[i] = [path |-> SubSeq(p, 1, first + i - 1), dir |-> TRUE, id |-> Len(pl.actions) + i]
        OBVIOUS
      <3> QED BY <3>2, <3>3, <3>4, <3>5 DEF Objects
    <2>5. Len(p) + 1 - first \in Nat /\ DOMAIN made = 1..(Len(p) + 1 - first)
      BY <2>2, <2>3
    <2> HIDE DEF made
    <2>6a. \A i \in DOMAIN blk :
             blk[i] = [on |-> "device", op |-> "MkDir", object |-> made[i], from |-> << >>]
      OBVIOUS
    <2>6. \A i \in DOMAIN blk : blk[i] \in Actions /\ blk[i].op = "MkDir" /\ blk[i].on = "device"
      <3>1. << >> \in Path BY EmptySeq DEF Path
      <3> QED BY <2>4, <2>5, <3>1 DEF Actions
    <2>7. blk \in Seq(Actions)
      <3>1. blk \in [1..(Len(p) + 1 - first) -> Actions] BY <2>5, <2>6
      <3> HIDE DEF blk
      <3> QED BY <3>1, <2>5, SeqDef
    <2>7a. DOMAIN blk = DOMAIN made /\ Len(blk) = Len(p) + 1 - first
           /\ DOMAIN blk = 1..Len(blk)
      <3>1. DOMAIN blk = DOMAIN made OBVIOUS
      <3> HIDE DEF blk
      <3> QED BY <2>5, <2>7, <3>1, LenProperties
    <2>8. \A i \in DOMAIN made : made[i] \in Objects /\ made[i].dir BY <2>4, <2>5
    <2>9. /\ r.actions = pl.actions \o blk /\ r.src = pl.src /\ r.thumbs = pl.thumbs
          /\ r.dst = pl.dst \cup {made[i] : i \in DOMAIN made}
          /\ r = [actions |-> pl.actions \o blk, src |-> pl.src,
                  dst |-> pl.dst \cup {made[i] : i \in DOMAIN made}, thumbs |-> pl.thumbs]
      BY <2>1, <1>1 DEF Plans
    <2> HIDE DEF blk
    <2>10. /\ r.actions \in Seq(Actions)
           /\ Gone(r.actions, 1) = Gone(pl.actions, 1)
           /\ Removed(r.actions) = Removed(pl.actions)
           /\ Copies(r.actions) = Copies(pl.actions)
           /\ \A f : WillBe(r.actions, 1, device, f) <=> WillBe(pl.actions, 1, device, f)
      <3>1. \A i \in DOMAIN blk : blk[i].on = "local" \/ blk[i].op = "MkDir" BY <2>6
      <3>2. /\ pl.actions \o blk \in Seq(Actions)
            /\ Gone(pl.actions \o blk, 1) = Gone(pl.actions, 1) \cup
                 {blk[i].object.path : i \in {j \in DOMAIN blk : blk[j].on = "local"}}
            /\ Removed(pl.actions \o blk) = Removed(pl.actions)
            /\ Copies(pl.actions \o blk) = Copies(pl.actions)
            /\ \A f : WillBe(pl.actions \o blk, 1, device, f) <=> WillBe(pl.actions, 1, device, f)
        BY <3>1, <2>2, <2>7, AppendedBlock, Zenon
      <3>3. {j \in DOMAIN blk : blk[j].on = "local"} = {} BY <2>6
      <3> QED BY <3>2, <3>3, <2>9
    <2>11. FilesIn(r.dst) = FilesIn(pl.dst) BY <2>8, <2>9 DEF FilesIn
    <2>12. r \in Plans BY <2>8, <2>9, <2>10, <1>1 DEF Plans
    <2>13. LocalForetold(r, 1) BY <2>9, <2>10 DEF Sound, LocalForetold
    <2>14. DeviceForetold(r, 1) BY <2>10, <2>11 DEF Sound, DeviceForetold
    <2>15. TargetKnown(r.dst)
      <3>1. \A i \in DOMAIN made : made[i].path \in DeviceDirs BY <2>4, <2>5
      <3>2. DirsIn(r.dst) \subseteq DeviceDirs
        BY <3>1, <2>9 DEF DirsIn, Sound, TargetKnown
      <3> QED BY <3>2, <2>11 DEF Sound, TargetKnown
    <2>16. Sound(r) BY <2>9, <2>12, <2>13, <2>14, <2>15 DEF Sound
    <2>17. MakesDirs(pl, r, p, first, blk)
      <3>1. \A i \in 1..Len(blk) :
              blk[i] = [on |-> "device", op |-> "MkDir", from |-> << >>,
                        object |-> [path |-> SubSeq(p, 1, first + i - 1), dir |-> TRUE,
                                    id |-> Len(pl.actions) + i]]
        BY <2>4, <2>5, <2>6a, <2>7a
      <3>2. {made[i] : i \in DOMAIN made} = {blk[i].object : i \in 1..Len(blk)}
        BY <2>6a, <2>7a
      <3> HIDE DEF p
      <3> QED BY <2>3a, <2>7a, <2>9, <3>1, <3>2 DEF MakesDirs
    <2>18. first \in Len(Target)..(Len(p) + 1) BY <1>1a, <2>3
    <2>19. Extends(pl, r, {}, {}, {}) BY <2>9, <2>10, <2>11, <2>16 DEF Extends
    <2> HIDE DEF p, r
    <2> QED BY <2>7, <2>9, <2>17, <2>18, <2>19 DEF r, p
  <1> QED BY <1>2, <1>3

(* makeCopyActions replaces the file under the new path, if there is one,  *)
(* by the copy.                                                            *)
LEMMA MakeCopyActionsDoes ==
  ASSUME NEW pl, Sound(pl), NEW q \in BookPaths \cup Indexes
  PROVE  /\ Extends(pl, MakeCopyActions(pl, Source \o q),
                    {Target \o q}, {Target \o q}, {Source \o q})
         /\ MakeCopyActions(pl, Source \o q).thumbs = pl.thumbs
  <1> DEFINE to == Target \o q
             dirs == MakeCreateDirActions(pl, Parent(to))
             prev == {o \in Find(dirs.dst, to) : ~o.dir}
             free == IF prev = {} THEN dirs
                     ELSE RemoveFromDevice(dirs, CHOOSE o \in prev : TRUE)
             r == Make(free, "Copy", to, FALSE, Source \o q)
  <1>0. Source \in Path /\ Target \in Path /\ q \in Path /\ q \in Files /\ Source \o q \in Path
    BY PathsAssumption, ConcatIs DEF Files, PathsFit
  <1>1. Reroot(Source \o q, Source, Target) = to BY <1>0, RerootIs
  <1>2. MakeCopyActions(pl, Source \o q) = r
    BY <1>1, Zenon DEF MakeCopyActions
  <1>3. Extends(pl, dirs, {}, {}, {}) /\ dirs.thumbs = pl.thumbs
    BY <1>0, MakeCreateDirActionsDoes, Zenon
  <1> HIDE DEF dirs
  <1>4. Extends(dirs, free, {to}, {}, {}) /\ free.thumbs = dirs.thumbs
    <2>0. Sound(dirs) BY <1>3 DEF Extends
    <2>1. CASE prev = {}
      <3>1. FilesIn(dirs.dst) \cap {to} = {} BY <2>1 DEF FilesIn, Find
      <3> QED BY <3>1, <2>0, <2>1, ExtendsBySelf
    <2>2. CASE prev # {}
      <3> DEFINE o == CHOOSE o \in prev : TRUE
      <3>1. o \in prev BY <2>2
      <3>2. dirs.dst \subseteq Objects BY <2>0 DEF Sound, Plans
      <3>3. o \in Objects /\ o.path = to BY <3>1, <3>2 DEF Find
      <3>4. free = RemoveFromDevice(dirs, o) BY <2>2
      <3> HIDE DEF o, free, prev
      <3>5. Extends(dirs, free, {o.path}, {}, {}) /\ free.thumbs = dirs.thumbs
        BY <3>3, <3>4, <2>0, RemoveFromDeviceDoes
      <3> QED BY <3>3, <3>5
    <2> QED BY <2>1, <2>2
  <1> HIDE DEF free
  <1>5. to \in DeviceFiles BY <1>0 DEF DeviceFiles
  <1>6. Extends(free, r, {}, {to}, {Source \o q}) /\ r.thumbs = free.thumbs
    <2>1. Sound(free) BY <1>4 DEF Extends
    <2> HIDE DEF to
    <2> QED BY <1>0, <1>5, <2>1, CopyToDeviceDoes
  <1> HIDE DEF r
  <1>7. Extends(pl, r, {to}, {to}, {Source \o q})
    BY <1>3, <1>4, <1>6 DEF Extends
  <1> QED BY <1>2, <1>3, <1>4, <1>6, <1>7

(* Where the page indexes of a book are looked for.                        *)
Index(b, n) == IndexPaths(b)[n]

(* getSupplementalArtifactsPaths commutes with the root: the same places   *)
(* on both sides.                                                          *)
LEMMA IndexIs ==
  ASSUME NEW b \in BookPaths, NEW n \in {1, 2}, NEW root \in {Source, Target}
  PROVE  /\ Index(b, n) \in Path \ {<< >>}
         /\ IndexPaths(root \o b)[n] = root \o Index(b, n)
         /\ Name(Index(b, n)) = IndexOf[Name(b)]
         /\ Parent(Index(b, n)) =
              IF n = 1 THEN Parent(b) ELSE Append(Parent(b), SdrOf[Name(b)])
  <1> DEFINE i == IndexOf[Name(b)]
             s == SdrOf[Name(b)]
  <1>1. b \in Path /\ b # << >> /\ root \in Path /\ root # << >> /\ i \in STRING /\ s \in STRING
    BY PathsAssumption DEF Files, PathsFit
  <1>2. Parent(b) \in Path BY <1>1, ParentIs
  <1>3. Parent(root \o b) = root \o Parent(b) /\ Name(root \o b) = Name(b)
    BY <1>1, PartsOfConcat
  <1> HIDE DEF i, s
  <1>4. /\ Append(Parent(b), i) \in Path /\ Append(Parent(b), i) # << >>
        /\ Name(Append(Parent(b), i)) = i /\ Parent(Append(Parent(b), i)) = Parent(b)
    BY <1>1, <1>2, AppendIs
  <1>5. /\ Append(Parent(b), s) \in Path
        /\ Append(Append(Parent(b), s), i) \in Path /\ Append(Append(Parent(b), s), i) # << >>
        /\ Name(Append(Append(Parent(b), s), i)) = i
        /\ Parent(Append(Append(Parent(b), s), i)) = Append(Parent(b), s)
    BY <1>1, <1>2, AppendIs
  <1>6. Parent(b) \o <<s, i>> = Append(Append(Parent(b), s), i)
    BY <1>1, <1>2, ConcatTwo
  <1>7. (root \o Parent(b)) \o <<s, i>> = root \o (Parent(b) \o <<s, i>>)
    BY <1>1, <1>2, ConcatTwoAfter
  <1>8. Append(root \o Parent(b), i) = root \o Append(Parent(b), i)
    BY <1>1, <1>2, ConcatAppend
  <1>9. /\ IndexPaths(b) = <<Append(Parent(b), i), Parent(b) \o <<s, i>>>>
        /\ IndexPaths(root \o b) =
             <<Append(root \o Parent(b), i), (root \o Parent(b)) \o <<s, i>>>>
    BY <1>3 DEF IndexPaths, i, s
  <1>10. CASE n = 1
    <2>1. IndexPaths(b)[1] = Append(Parent(b), i) /\ IndexPaths(root \o b)[1] = Append(root \o Parent(b), i)
      BY <1>9
    <2> QED BY <1>10, <1>4, <1>8, <2>1 DEF Index, i
  <1>11. CASE n = 2
    <2>1. IndexPaths(b)[2] = Parent(b) \o <<s, i>> /\ IndexPaths(root \o b)[2] = (root \o Parent(b)) \o <<s, i>>
      BY <1>9
    <2>2. /\ Index(b, 2) \in Path \ {<< >>} /\ IndexPaths(root \o b)[2] = root \o Index(b, 2)
          /\ Name(Index(b, 2)) = i /\ Parent(Index(b, 2)) = Append(Parent(b), s)
      BY <1>5, <1>6, <1>7, <2>1 DEF Index
    <2> QED BY <1>11, <2>2 DEF i, s
  <1> QED BY <1>10, <1>11

(***************************************************************************)
(* Which names cannot meet.                                                *)
(***************************************************************************)
ThumbPath(b) == Append(ThumbFolder, ThumbOf[Name(b)])

(* PathsAssumption, taken apart. *)
LEMMA ConstantsArePaths ==
  /\ Source \in Path /\ Source # << >>
  /\ Target \in Path /\ Target # << >>
  /\ ThumbFolder \in Path /\ ThumbFolder # << >>
  /\ \A q \in Files : q \in Path /\ q # << >>
  /\ BookPaths \subseteq Files /\ Indexes \subseteq Files
  /\ \A b \in BookPaths : ThumbOf[Name(b)] \in STRING
  BY PathsAssumption DEF Files, PathsFit

(* A thumbnail lies right in its folder. *)
LEMMA ThumbPathIs ==
  ASSUME NEW b \in BookPaths
  PROVE  /\ ThumbPath(b) \in Path /\ ThumbPath(b) # << >>
         /\ Parent(ThumbPath(b)) = ThumbFolder /\ Name(ThumbPath(b)) = ThumbOf[Name(b)]
         /\ IsUnder(ThumbPath(b), ThumbFolder)
  <1>1. /\ ThumbPath(b) \in Path /\ ThumbPath(b) # << >>
        /\ Parent(ThumbPath(b)) = ThumbFolder /\ Name(ThumbPath(b)) = ThumbOf[Name(b)]
    BY ConstantsArePaths, AppendIs DEF ThumbPath
  <1> QED BY <1>1, UnderItsParent

(* Neither of the two folders of the device is in the other: what is in    *)
(* one is not in the other.                                                *)
LEMMA FoldersApart ==
  ASSUME NEW p \in Path
  PROVE  ~(IsUnder(p, Target) /\ IsUnder(p, ThumbFolder))
  BY ConstantsArePaths, AboveOne, NamesAssumption DEF NamesFit

(* What lies under Target is no thumbnail. *)
LEMMA NoBookIsThumb ==
  ASSUME NEW x \in Path, x # << >>, NEW b \in BookPaths
  PROVE  Target \o x # ThumbPath(b)
  BY ConstantsArePaths, ThumbPathIs, UnderRoot, FoldersApart, ConcatIs

(* A path under Target that is no directory of the known files is none of  *)
(* the device.                                                             *)
LEMMA NoDeviceDir ==
  ASSUME NEW x \in Path, x # << >>, \A q \in Files : ~IsUnder(q, x)
  PROVE  Target \o x \notin DeviceDirs
  <1>1. Target \o x \in Path /\ IsUnder(Target \o x, Target)
    BY ConstantsArePaths, UnderRoot, ConcatIs
  <1>2. ASSUME NEW q \in Files PROVE ~IsUnder(Target \o q, Target \o x)
    BY <1>2, ConstantsArePaths, UnderConcat
  <1>3. Target \o x # ThumbFolder BY <1>1, NamesAssumption DEF NamesFit
  <1>4. ~IsUnder(ThumbFolder, Target \o x)
    BY <1>1, NamesAssumption, UnderUnder, ConstantsArePaths DEF NamesFit
  <1>5. Target \o x \notin Stock BY <1>1, NamesAssumption DEF NamesFit
  <1> QED BY <1>2, <1>3, <1>4, <1>5 DEF DeviceDirs

(* No directory of the device has the path of a thumbnail. *)
LEMMA ThumbIsNoDir ==
  ASSUME NEW b \in BookPaths
  PROVE  ThumbPath(b) \notin DeviceDirs
  <1>0. ThumbPath(b) \in Path /\ IsUnder(ThumbPath(b), ThumbFolder) BY ThumbPathIs
  <1>1. ASSUME NEW q \in Files PROVE ~IsUnder(Target \o q, ThumbPath(b))
    <2>1. Target \o q \in Path /\ IsUnder(Target \o q, Target)
      BY ConstantsArePaths, ConcatIs, UnderRoot
    <2>2. IsUnder(Target \o q, ThumbPath(b)) => IsUnder(Target \o q, ThumbFolder)
      BY <1>0, <2>1, UnderUnder, ConstantsArePaths
    <2> QED BY <2>1, <2>2, FoldersApart
  <1>2. ThumbPath(b) # ThumbFolder /\ ~IsUnder(ThumbFolder, ThumbPath(b))
    <2>1. Len(ThumbFolder) \in Nat /\ Len(ThumbFolder) < Len(ThumbPath(b))
          /\ Len(ThumbPath(b)) \in Nat
      BY <1>0, ConstantsArePaths, LenProperties DEF IsUnder, Path
    <2> QED BY <2>1 DEF IsUnder
  <1>3. ThumbPath(b) \notin Stock BY <1>0, NamesAssumption DEF NamesFit
  <1> QED BY <1>1, <1>2, <1>3 DEF DeviceDirs

(* On the device no file has the path of a directory that the tool makes. *)
LEMMA DeviceFileIsNoDir == DeviceFiles \cap DeviceDirs = {}
  <1>1. ASSUME NEW q \in Files PROVE Target \o q \notin DeviceDirs
    BY NoDeviceDir, ConstantsArePaths, NamesAssumption DEF NamesFit
  <1> QED BY <1>1, ThumbIsNoDir DEF DeviceFiles, ThumbPath

(* In the source no file has the path of a directory. *)
LEMMA LocalFileIsNoDir == LocalFiles \cap LocalDirs = {}
  <1>1. ASSUME NEW q \in BookPaths \cup Indexes PROVE Source \o q \notin LocalDirs
    <2>1. ASSUME NEW r \in BookPaths \cup Indexes PROVE ~IsUnder(Source \o r, Source \o q)
      <3>1. q \in Files /\ r \in Files /\ q \in Path /\ r \in Path BY ConstantsArePaths
      <3> QED BY <3>1, ConstantsArePaths, UnderConcat, NamesAssumption DEF NamesFit
    <2> QED BY <2>1 DEF LocalDirs, LocalFiles
  <1> QED BY <1>1 DEF LocalFiles

(* A page index that the planner finds is one of Indexes.                  *)
LEMMA FoundIndex ==
  ASSUME NEW pl, Sound(pl), NEW b \in BookPaths, NEW n \in {1, 2}
  PROVE  /\ Find(pl.src, Source \o Index(b, n)) # {} =>
              Index(b, n) \in Indexes /\ Source \o Index(b, n) \in FilesIn(pl.src)
         /\ Find(pl.dst, Target \o Index(b, n)) # {} =>
              Index(b, n) \in Indexes /\ Target \o Index(b, n) \in FilesIn(pl.dst)
  <1> DEFINE i == Index(b, n)
  <1>1. /\ i \in Path /\ i # << >>
        /\ i \notin BookPaths \cup DeviceOwn
        /\ \A q \in Files : ~IsUnder(q, i)
    BY IndexIs, NamesAssumption DEF Index, NamesFit
  <1> HIDE DEF i
  <1>2. ASSUME NEW o \in pl.src, o.path = Source \o i
        PROVE  i \in Indexes /\ Source \o i \in FilesIn(pl.src)
    <2>1. o.dir \in BOOLEAN BY DEF Sound, Plans, Objects
    <2>2. CASE o.dir
      <3>1. Source \o i \in LocalDirs BY <1>2, <2>2 DEF Sound, SourceTree, DirsIn
      <3>2. PICK q \in BookPaths \cup Indexes : IsUnder(Source \o q, Source \o i)
        BY <3>1 DEF LocalDirs, LocalFiles
      <3>3. q \in Files /\ q \in Path BY ConstantsArePaths
      <3> QED BY <3>2, <3>3, <1>1, ConstantsArePaths, UnderConcat
    <2>3. CASE ~o.dir
      <3>1. Source \o i \in FilesIn(pl.src) BY <1>2, <2>3 DEF FilesIn
      <3>2. PICK q \in BookPaths \cup Indexes : Source \o i = Source \o q
        BY <3>1 DEF Sound, SourceTree, LocalFiles
      <3>3. q \in Path BY ConstantsArePaths
      <3>4. i = q BY <3>2, <3>3, <1>1, ConstantsArePaths, ConcatInjective
      <3> QED BY <3>1, <3>4, <1>1
    <2> QED BY <2>1, <2>2, <2>3
  <1>3. ASSUME NEW o \in pl.dst, o.path = Target \o i
        PROVE  i \in Indexes /\ Target \o i \in FilesIn(pl.dst)
    <2>1. o.dir \in BOOLEAN BY DEF Sound, Plans, Objects
    <2>2. CASE o.dir
      <3>1. Target \o i \in DeviceDirs BY <1>3, <2>2 DEF Sound, TargetKnown, DirsIn
      <3> QED BY <3>1, <1>1, NoDeviceDir
    <2>3. CASE ~o.dir
      <3>1. Target \o i \in FilesIn(pl.dst) BY <1>3, <2>3 DEF FilesIn
      <3>2. Target \o i \in DeviceFiles BY <3>1 DEF Sound, TargetKnown
      <3>3. \A c \in BookPaths : Target \o i # ThumbPath(c) BY <1>1, NoBookIsThumb
      <3>4. PICK q \in Files : Target \o i = Target \o q
        BY <3>2, <3>3 DEF DeviceFiles, ThumbPath
      <3>5. i = q BY <3>4, <1>1, ConstantsArePaths, ConcatInjective
      <3> QED BY <3>1, <3>5, <1>1 DEF Files
    <2> QED BY <2>1, <2>2, <2>3
  <1> QED BY <1>2, <1>3 DEF Find, i

(* What is found where a page index is looked for belongs to the book. *)
LEMMA IndexIsOfBook ==
  ASSUME NEW b \in BookPaths, NEW n \in {1, 2}, NEW root \in {Source, Target},
         Index(b, n) \in Indexes
  PROVE  root \o Index(b, n) \in IndexesOf(b, root)
  BY IndexIs DEF IndexesOf

(***************************************************************************)
(* The side files.                                                         *)
(***************************************************************************)
LEMMA RemoveDeviceIndexDoes ==
  ASSUME NEW pl, Sound(pl), NEW b \in BookPaths, NEW n \in {1, 2},
         NEW p, p = Target \o Index(b, n)
  PROVE  LET r == RemoveDeviceIndex(pl, p)
         IN  /\ Extends(pl, r, {p} \cap IndexesOf(b, Target), {}, {})
             /\ r.thumbs = pl.thumbs
             /\ p \notin FilesIn(r.dst)
  <1> DEFINE r == RemoveDeviceIndex(pl, p)
             o == CHOOSE o \in Find(pl.dst, p) : TRUE
  <1>1. CASE Find(pl.dst, p) = {}
    <2>1. r = pl BY <1>1 DEF RemoveDeviceIndex
    <2>2. p \notin FilesIn(pl.dst) BY <1>1 DEF Find, FilesIn
    <2>3. FilesIn(pl.dst) \cap ({p} \cap IndexesOf(b, Target)) = {} BY <2>2
    <2> QED BY <2>1, <2>2, <2>3, ExtendsBySelf
  <1>2. CASE Find(pl.dst, p) # {}
    <2>1. o \in Find(pl.dst, p) BY <1>2
    <2>2. o \in Objects /\ o.path = p BY <2>1 DEF Find, Sound, Plans
    <2>3. r = RemoveFromDevice(pl, o) BY <1>2 DEF RemoveDeviceIndex
    <2>4. p \in IndexesOf(b, Target) BY <1>2, FoundIndex, IndexIsOfBook
    <2>5. {p} \cap IndexesOf(b, Target) = {o.path} BY <2>2, <2>4
    <2> HIDE DEF o, r
    <2>6. Extends(pl, r, {o.path}, {}, {}) /\ r.thumbs = pl.thumbs
      BY <2>2, <2>3, RemoveFromDeviceDoes
    <2>7. p \notin FilesIn(r.dst) BY <2>6, <2>2 DEF Extends
    <2> QED BY <2>5, <2>6, <2>7 DEF r
  <1> QED BY <1>1, <1>2

(* Case 3 on one page index. *)
LEMMA CopyIndexDoes ==
  ASSUME NEW pl, Sound(pl), NEW b \in BookPaths, NEW n \in {1, 2}
  PROVE  LET r    == CopyIndex(pl, Source \o Index(b, n))
             here == {Target \o Index(b, n)} \cap IndexesOf(b, Target)
         IN  /\ \/ Source \o Index(b, n) \notin FilesIn(pl.src) /\ r = pl
                \/ /\ Source \o Index(b, n) \in FilesIn(pl.src)
                   /\ Extends(pl, r, here, here, {Source \o Index(b, n)})
                   /\ here = {Target \o Index(b, n)} /\ Index(b, n) \in Indexes
             /\ r.thumbs = pl.thumbs
  <1> DEFINE p == Source \o Index(b, n)
             r == CopyIndex(pl, p)
  <1>1. CASE Find(pl.src, p) = {}
    <2>1. r = pl BY <1>1 DEF CopyIndex
    <2>2. p \notin FilesIn(pl.src) BY <1>1 DEF Find, FilesIn
    <2> QED BY <2>1, <2>2
  <1>2. CASE Find(pl.src, p) # {}
    <2>1. r = MakeCopyActions(pl, p) BY <1>2 DEF CopyIndex
    <2>2. Index(b, n) \in Indexes /\ p \in FilesIn(pl.src)
          /\ Target \o Index(b, n) \in IndexesOf(b, Target)
      BY <1>2, FoundIndex, IndexIsOfBook
    <2>3. Extends(pl, r, {Target \o Index(b, n)}, {Target \o Index(b, n)}, {p})
          /\ r.thumbs = pl.thumbs
      BY <2>1, <2>2, MakeCopyActionsDoes
    <2>4. {Target \o Index(b, n)} \cap IndexesOf(b, Target) = {Target \o Index(b, n)}
      BY <2>2
    <2> HIDE DEF r
    <2> QED BY <2>2, <2>3, <2>4 DEF r
  <1> QED BY <1>1, <1>2

(* An entry of deviceThumbs for a book is an object under the path of its  *)
(* thumbnail.                                                              *)
LEMMA ThumbEntryIs ==
  ASSUME NEW pl, Sound(pl), NEW b \in BookPaths, NEW e \in ThumbEntries(pl, b)
  PROVE  /\ e \in pl.thumbs /\ e \in Thumbs /\ thumbsOn
         /\ e.object \in Objects /\ e.object.path = ThumbPath(b)
  <1>1. e \in pl.thumbs /\ thumbsOn /\ e.key = <<ThumbOf[Name(b)]>> BY DEF ThumbEntries
  <1>2. pl.thumbs \subseteq Thumbs BY DEF Sound, Plans
  <1>3. Len(e.key) = 1 /\ e.key[1] = ThumbOf[Name(b)] BY <1>1
  <1> QED BY <1>1, <1>2, <1>3 DEF Sound, ThumbsKnown, Thumbs, ThumbPath

(* Removing the thumbnail of a book, if the device has it. *)
LEMMA RemoveThumbDoes ==
  ASSUME NEW pl, Sound(pl), NEW b \in BookPaths
  PROVE  LET r == RemoveThumb(pl, b)
         IN  \/ ThumbEntries(pl, b) = {} /\ r = pl
             \/ /\ Extends(pl, r, {ThumbPath(b)}, {}, {})
                /\ \E e \in ThumbEntries(pl, b) : r.thumbs = pl.thumbs \ {e}
  <1> DEFINE r == RemoveThumb(pl, b)
             e == CHOOSE e \in ThumbEntries(pl, b) : TRUE
             m == RemoveFromDevice(pl, e.object)
  <1>1. CASE ThumbEntries(pl, b) = {}
    BY <1>1 DEF RemoveThumb
  <1>2. CASE ThumbEntries(pl, b) # {}
    <2>1. e \in ThumbEntries(pl, b) BY <1>2
    <2>2. r = [m EXCEPT !.thumbs = @ \ {e}] BY <1>2 DEF RemoveThumb
    <2> HIDE DEF e
    <2>3. e.object \in Objects /\ e.object.path = ThumbPath(b) BY <2>1, ThumbEntryIs
    <2>4. Extends(pl, m, {ThumbPath(b)}, {}, {}) /\ m.thumbs = pl.thumbs
      BY <2>3, RemoveFromDeviceDoes
    <2> HIDE DEF m, r
    <2>5. /\ r.thumbs = pl.thumbs \ {e} /\ r.src = m.src /\ r.dst = m.dst
          /\ r.actions = m.actions /\ r \in Plans
      BY <2>2, <2>4 DEF Extends, Sound, Plans
    <2>6. Sound(r)
      BY <2>4, <2>5 DEF Extends, Sound, LocalForetold, DeviceForetold, ThumbsKnown
    <2>7. Extends(pl, r, {ThumbPath(b)}, {}, {}) BY <2>4, <2>5, <2>6 DEF Extends
    <2> QED BY <2>1, <2>5, <2>7 DEF r
  <1> QED BY <1>1, <1>2

(* Copying the thumbnail of a book: afterwards it is there, if there is    *)
(* one.                                                                    *)
LEMMA CopyThumbDoes ==
  ASSUME NEW pl, Sound(pl), NEW b \in BookPaths
  PROVE  LET r == CopyThumb(pl, b)
         IN  IF ~thumbsOn \/ ThumbOf[Name(b)] = NoThumb THEN r = pl
             ELSE Extends(pl, r, {ThumbPath(b)}, {ThumbPath(b)}, {<<ThumbOf[Name(b)]>>})
  <1> DEFINE t == ThumbOf[Name(b)]
             old == ThumbEntries(pl, b)
             free == IF old = {} THEN pl
                     ELSE RemoveFromDevice(pl, (CHOOSE e \in old : TRUE).object)
             new == Make(free, "Copy", ThumbPath(b), FALSE, <<t>>)
             o == CHOOSE o \in Find(new.dst, ThumbPath(b)) : TRUE
             r == CopyThumb(pl, b)
  <1>1. CASE ~thumbsOn \/ t = NoThumb
    BY <1>1 DEF CopyThumb
  <1>2. CASE thumbsOn /\ t # NoThumb
    <2>1. r = [new EXCEPT !.thumbs = @ \cup {[key |-> ThumbPath(b), object |-> o]}]
      BY <1>2, Zenon DEF CopyThumb, ThumbPath
    <2>2. /\ Sound(free) /\ free.src = pl.src
          /\ FilesIn(free.dst) \cup {ThumbPath(b)} = FilesIn(pl.dst) \cup {ThumbPath(b)}
          /\ Gone(free.actions, 1) = Gone(pl.actions, 1)
          /\ Removed(pl.actions) \subseteq Removed(free.actions)
          /\ Removed(free.actions) \subseteq Removed(pl.actions) \cup {ThumbPath(b)}
          /\ Copies(free.actions) = Copies(pl.actions)
          /\ free.thumbs = pl.thumbs
      <3>1. CASE old = {} BY <3>1
      <3>2. CASE old # {}
        <4> DEFINE e == CHOOSE e \in old : TRUE
        <4>1. e \in old BY <3>2
        <4>2. free = RemoveFromDevice(pl, e.object) BY <3>2
        <4> HIDE DEF e, free
        <4>3. e.object \in Objects /\ e.object.path = ThumbPath(b) BY <4>1, ThumbEntryIs
        <4>4. Extends(pl, free, {ThumbPath(b)}, {}, {}) /\ free.thumbs = pl.thumbs
          BY <4>2, <4>3, RemoveFromDeviceDoes
        <4> QED BY <4>4 DEF Extends
      <3> QED BY <3>1, <3>2
    <2> HIDE DEF free
    <2>3. ThumbPath(b) \in DeviceFiles BY DEF DeviceFiles, ThumbPath
    <2>4. <<t>> \in Path
      <3>1. t \in STRING BY ConstantsArePaths
      <3> HIDE DEF t
      <3> QED BY <3>1, OneIs DEF Path
    <2>5. Extends(free, new, {}, {ThumbPath(b)}, {<<t>>}) /\ new.thumbs = free.thumbs
      BY <2>2, <2>3, <2>4, CopyToDeviceDoes
    <2> HIDE DEF new
    <2>6. o \in Objects /\ o.path = ThumbPath(b)
      <3>1. ThumbPath(b) \in FilesIn(new.dst) BY <2>5 DEF Extends
      <3>2. Find(new.dst, ThumbPath(b)) # {} BY <3>1 DEF FilesIn, Find
      <3>3. o \in Find(new.dst, ThumbPath(b)) BY <3>2
      <3> HIDE DEF o
      <3> QED BY <3>3, <2>5 DEF Find, Extends, Sound, Plans
    <2>7. Len(ThumbPath(b)) # 1 /\ ThumbPath(b) \in Path
      <3>1. ThumbPath(b) \in Path /\ IsUnder(ThumbPath(b), ThumbFolder) BY ThumbPathIs
      <3>2. Len(ThumbFolder) \in Nat \ {0} BY ConstantsArePaths, ParentIs
      <3> QED BY <3>1, <3>2, SMTT(20) DEF IsUnder
    <2> HIDE DEF o, r
    <2>8. /\ r.thumbs = pl.thumbs \cup {[key |-> ThumbPath(b), object |-> o]}
          /\ r.src = new.src /\ r.dst = new.dst /\ r.actions = new.actions
      BY <2>1, <2>2, <2>5 DEF Extends, Sound, Plans
    <2>9. [key |-> ThumbPath(b), object |-> o] \in Thumbs BY <2>6, <2>7 DEF Thumbs
    <2>10. r \in Plans
      BY <2>1, <2>5, <2>9 DEF Extends, Sound, Plans
    <2>11. ThumbsKnown(r.thumbs)
      BY <2>2, <2>7, <2>8 DEF Sound, ThumbsKnown
    <2>12. Sound(r)
      BY <2>5, <2>8, <2>10, <2>11 DEF Extends, Sound, LocalForetold, DeviceForetold
    <2>13. Extends(pl, r, {ThumbPath(b)}, {ThumbPath(b)}, {<<t>>})
      BY <2>2, <2>5, <2>8, <2>12 DEF Extends
    <2> QED BY <1>2, <2>13 DEF r
  <1> QED BY <1>1, <1>2

(***************************************************************************)
(* Removing from the source.                                               *)
(***************************************************************************)

(* Directories below the source. *)
InnerDirs == {d \in LocalDirs : IsUnder(d, Source)}

(* r is pl with actions that remove the files in lost from the source, and *)
(* directories below it with them.                                         *)
Shrinks(pl, r, lost) ==
  /\ Sound(r)
  /\ r.dst = pl.dst /\ r.thumbs = pl.thumbs
  /\ FilesIn(r.src) = FilesIn(pl.src) \ lost
  /\ Gone(pl.actions, 1) \subseteq Gone(r.actions, 1)
  /\ Gone(r.actions, 1) \subseteq Gone(pl.actions, 1) \cup lost \cup InnerDirs
  /\ Removed(r.actions) = Removed(pl.actions)
  /\ Copies(r.actions) = Copies(pl.actions)

(* Shrinks is transitive. *)
LEMMA ShrinksTwice ==
  ASSUME NEW a, NEW b, NEW c, NEW l, NEW m, Shrinks(a, b, l), Shrinks(b, c, m)
  PROVE  Shrinks(a, c, l \cup m)
  BY DEF Shrinks

(* A plan shrinks to itself when there is nothing to remove. *)
LEMMA ShrinksBySelf ==
  ASSUME NEW a, NEW l, Sound(a), FilesIn(a.src) \cap l = {}
  PROVE  Shrinks(a, a, l)
  BY DEF Shrinks

(* The first step of makeRemoveActions. *)
TakeFromSource(pl, o) ==
  [Act(pl, "local", "Remove", o, << >>) EXCEPT !.src = Delete(@, o.path)]

(* The plan with an action that removes a file from the source. *)
LEMMA TakeFromSourceIs ==
  ASSUME NEW pl \in Plans, NEW o
  PROVE  TakeFromSource(pl, o) =
           [actions |-> Append(pl.actions, [on |-> "local", op |-> "Remove",
                                            object |-> o, from |-> << >>]),
            src |-> Delete(pl.src, o.path), dst |-> pl.dst, thumbs |-> pl.thumbs]
  <1> DEFINE r == TakeFromSource(pl, o)
             a == [on |-> "local", op |-> "Remove", object |-> o, from |-> << >>]
             s == Act(pl, "local", "Remove", o, << >>)
  <1>1. s = [actions |-> Append(pl.actions, a), src |-> pl.src, dst |-> pl.dst, thumbs |-> pl.thumbs]
    BY ActIs
  <1> HIDE DEF s, a
  <1>2. r = [s EXCEPT !.src = Delete(@, o.path)] BY DEF TakeFromSource, s
  <1> HIDE DEF r
  <1>3. r = [actions |-> Append(pl.actions, a), src |-> Delete(pl.src, o.path),
             dst |-> pl.dst, thumbs |-> pl.thumbs]
    BY <1>1, <1>2
  <1> QED BY <1>3 DEF r, a

(* The file goes from the set and an action is there to remove it. *)
LEMMA TakeFromSourceDoes ==
  ASSUME NEW pl, Sound(pl), NEW o \in Objects, o.path \in FilesIn(pl.src)
  PROVE  LET r == TakeFromSource(pl, o)
         IN  /\ Shrinks(pl, r, {o.path}) /\ o.path \in Gone(r.actions, 1)
             /\ r.src = {x \in pl.src : x.path # o.path}
  <1> DEFINE r == TakeFromSource(pl, o)
             a == [on |-> "local", op |-> "Remove", object |-> o, from |-> << >>]
  <1>1. pl \in Plans BY DEF Sound
  <1>2. r = [actions |-> Append(pl.actions, a), src |-> Delete(pl.src, o.path),
             dst |-> pl.dst, thumbs |-> pl.thumbs]
    BY <1>1, TakeFromSourceIs
  <1>3. a \in Actions /\ a.on = "local" /\ a.op = "Remove" /\ a.object.path = o.path
    <2>1. << >> \in Path BY EmptySeq DEF Path
    <2> QED BY <2>1 DEF Actions
  <1> HIDE DEF r, a
  <1>4. /\ r.actions = Append(pl.actions, a) /\ r.src = Delete(pl.src, o.path)
        /\ r.dst = pl.dst /\ r.thumbs = pl.thumbs
    BY <1>2
  <1>5. /\ r.actions \in Seq(Actions)
        /\ Gone(r.actions, 1) = Gone(pl.actions, 1) \cup {o.path}
        /\ Removed(r.actions) = Removed(pl.actions)
        /\ Copies(r.actions) = Copies(pl.actions)
        /\ \A p : WillBe(r.actions, 1, device, p) <=> WillBe(pl.actions, 1, device, p)
    <2>1. /\ Append(pl.actions, a) \in Seq(Actions)
          /\ Gone(Append(pl.actions, a), 1) =
              Gone(pl.actions, 1) \cup (IF a.on = "local" THEN {a.object.path} ELSE {})
          /\ Removed(Append(pl.actions, a)) = Removed(pl.actions) \cup
              (IF a.on = "device" /\ a.op = "Remove" THEN {a.object.path} ELSE {})
          /\ Copies(Append(pl.actions, a)) =
              Copies(pl.actions) \cup (IF a.op = "Copy" THEN {a.from} ELSE {})
          /\ \A p : WillBe(Append(pl.actions, a), 1, device, p) <=>
                     IF Settles(a, p) THEN a.op = "Copy" ELSE WillBe(pl.actions, 1, device, p)
      <3>1. pl.actions \in Seq(Actions) BY <1>1 DEF Plans
      <3> QED BY <3>1, <1>3, AppendedAction, Zenon
    <2>2. \A p : ~Settles(a, p) BY <1>3 DEF Settles
    <2> QED BY <2>1, <2>2, <1>4, <1>3
  <1>6. FilesIn(r.src) = FilesIn(pl.src) \ {o.path} BY <1>4 DEF FilesIn, Delete
  <1>7. r.src = {x \in pl.src : x.path # o.path} BY <1>4 DEF Delete
  <1>8. SourceTree(r.src)
    <2>1. Keyed(pl.src) /\ Closed(pl.src) BY DEF Sound, SourceTree
    <2>2. \A d \in pl.src : d.dir => d.path # o.path BY <2>1 DEF FilesIn, Keyed
    <2>3. Closed(r.src) BY <1>7, <2>1, <2>2 DEF Closed
    <2>4. Keyed(r.src) BY <1>7, <2>1 DEF Keyed
    <2>5. DirsIn(r.src) \subseteq DirsIn(pl.src) BY <1>7 DEF DirsIn
    <2> QED BY <1>6, <2>3, <2>4, <2>5 DEF Sound, SourceTree
  <1>9. LocalForetold(r, 1) BY <1>5, <1>7 DEF Sound, LocalForetold, Bare
  <1>10. r \in Plans BY <1>1, <1>2, <1>5, <1>7 DEF Plans
  <1>11. Sound(r)
    BY <1>4, <1>5, <1>8, <1>9, <1>10 DEF Sound, DeviceForetold
  <1> QED BY <1>4, <1>5, <1>6, <1>7, <1>11 DEF Shrinks, r

(* The directories of a file of the source, from dir on upwards.           *)
Emptied(dir, stop) == {SubSeq(dir, 1, k) : k \in (stop + 1)..Len(dir)}

(* dir and all directories above it are in the set. *)
StandsIn(ois, dir) ==
  \A n \in 1..Len(dir) : \E d \in ois : d.path = SubSeq(dir, 1, n) /\ d.dir

(* dir and what is above it go up to the first directory that is in use.   *)
RemovesUpTo(pl, r, dir, stop) ==
  /\ r.src = {o \in pl.src : o.path \notin Emptied(dir, stop)}
  /\ stop = Len(Source)
     \/ SubsetByPath({o \in pl.src : o.path \notin Emptied(dir, stop)},
                     SubSeq(dir, 1, stop)) # {}
  /\ \A n \in (stop + 1)..Len(dir) :
       SubsetByPath({o \in pl.src : o.path \notin Emptied(dir, n)}, SubSeq(dir, 1, n)) = {}
  /\ \E blk \in Seq(Actions) :
       /\ r.actions = pl.actions \o blk /\ Len(blk) = Len(dir) - stop
       /\ \A i \in 1..Len(blk) : /\ blk[i].on = "local" /\ blk[i].op = "Remove"
                                 /\ blk[i].object.path = SubSeq(dir, 1, Len(dir) + 1 - i)

(* makeRemoveDirActions removes the directories from dir up to the first   *)
(* one in use, and no file.                                                *)
LEMMA MakeRemoveDirActionsRemoves ==
  ASSUME NEW pl, Sound(pl), NEW dir \in Path, Len(Source) <= Len(dir),
         StandsIn(pl.src, dir)
  PROVE  LET r == MakeRemoveDirActions(pl, dir)
         IN  \E stop \in Len(Source)..Len(dir) :
               /\ RemovesUpTo(pl, r, dir, stop)
               /\ r \in Plans /\ r.dst = pl.dst /\ r.thumbs = pl.thumbs
               /\ Gone(r.actions, 1) = Gone(pl.actions, 1) \cup Emptied(dir, stop)
               /\ Removed(r.actions) = Removed(pl.actions)
               /\ Copies(r.actions) = Copies(pl.actions)
               /\ \A p : WillBe(r.actions, 1, device, p) <=> WillBe(pl.actions, 1, device, p)
  <1> DEFINE up(n) == SubSeq(dir, 1, n)
             below(n) == {up(k) : k \in (n + 1)..Len(dir)}
             inUse == {n \in Len(Source)..Len(dir) :
                         \/ n = Len(Source)
                         \/ SubsetByPath({o \in pl.src : o.path \notin below(n)}, up(n)) # {}}
             stop == CHOOSE n \in inUse : \A k \in inUse : k <= n
             there == {n \in stop..Len(dir) : n = stop \/ Find(pl.src, up(n)) # {}}
             deepest == CHOOSE n \in there : \A k \in there : k <= n
             emptied == [i \in 1..(deepest - stop) |->
                           CHOOSE o \in Find(pl.src, up(deepest + 1 - i)) : TRUE]
             blk == [i \in DOMAIN emptied |->
                       [on |-> "local", op |-> "Remove", object |-> emptied[i], from |-> <<>>]]
             r == MakeRemoveDirActions(pl, dir)
  <1>1. r = [pl EXCEPT !.actions = @ \o blk, !.src = {o \in @ : o.path \notin below(stop)}]
    BY Zenon DEF MakeRemoveDirActions
  <1>2. Len(Source) \in Nat \ {0} /\ Len(dir) \in Nat
    BY ConstantsArePaths, ParentIs, LenProperties DEF Path
  <1>3. stop \in inUse /\ \A k \in inUse : k <= stop
    <2>1. inUse \in SUBSET (0..Len(dir)) /\ inUse # {}
      <3>1. Len(Source) \in inUse BY <1>2
      <3>2. \A n \in Len(Source)..Len(dir) : n \in 0..Len(dir) BY <1>2
      <3> QED BY <3>1, <3>2
    <2>2. \E n \in inUse : \A k \in inUse : k <= n
      <3> HIDE DEF inUse
      <3> QED BY <1>2, <2>1, GreatestOf
    <2> QED BY <2>2
  <1>4. stop \in Len(Source)..Len(dir) BY <1>3
  <1>5. stop = Len(Source)
        \/ SubsetByPath({o \in pl.src : o.path \notin below(stop)}, up(stop)) # {}
    BY <1>3
  <1>6. \A n \in (stop + 1)..Len(dir) :
          SubsetByPath({o \in pl.src : o.path \notin below(n)}, up(n)) = {}
    <2> SUFFICES ASSUME NEW n \in (stop + 1)..Len(dir)
                 PROVE  SubsetByPath({o \in pl.src : o.path \notin below(n)}, up(n)) = {}
      OBVIOUS
    <2> HIDE DEF stop
    <2>1. n \in Len(Source)..Len(dir) BY <1>2, <1>4
    <2>2. n \notin inUse
      <3> HIDE DEF inUse
      <3> QED BY <1>2, <1>3, <1>4
    <2> QED BY <2>1, <2>2
  <1>7. \A n : below(n) = Emptied(dir, n) BY DEF Emptied
  <1> HIDE DEF inUse, stop
  <1>7a. deepest = Len(dir)
    <2>1. Len(dir) \in there
      <3>1. Len(dir) = stop \/ Len(dir) \in 1..Len(dir) BY <1>2, <1>4
      <3>2. Len(dir) \in 1..Len(dir) => Find(pl.src, up(Len(dir))) # {} BY DEF StandsIn, Find
      <3> QED BY <1>2, <1>4, <3>1, <3>2
    <2>2. there \subseteq stop..Len(dir) OBVIOUS
    <2> HIDE DEF there
    <2>3. \A k \in there : k <= Len(dir) BY <1>2, <1>4, <2>2
    <2>4. \E n \in there : \A k \in there : k <= n BY <2>1, <2>3
    <2>5. deepest \in there /\ \A k \in there : k <= deepest BY <2>4
    <2> HIDE DEF deepest
    <2> QED BY <1>2, <1>4, <2>1, <2>2, <2>3, <2>5
  <1> HIDE DEF deepest
  <1>8. ASSUME NEW i \in 1..(Len(dir) - stop)
        PROVE  emptied[i] \in pl.src /\ emptied[i].path = up(Len(dir) + 1 - i)
    <2>1. Len(dir) + 1 - i \in 1..Len(dir) BY <1>2, <1>4
    <2>2. Find(pl.src, up(Len(dir) + 1 - i)) # {} BY <2>1 DEF StandsIn, Find
    <2>3. emptied[i] \in Find(pl.src, up(Len(dir) + 1 - i)) BY <1>7a, <2>2
    <2> QED BY <2>3 DEF Find
  <1>9. Len(dir) - stop \in Nat /\ DOMAIN emptied = 1..(Len(dir) - stop)
    BY <1>2, <1>4, <1>7a
  <1>10. \A i \in 1..(Len(dir) - stop) : emptied[i] \in Objects
    BY <1>8 DEF Sound, Plans
  <1>11. {emptied[i].path : i \in 1..(Len(dir) - stop)} = Emptied(dir, stop)
    <2>1. ASSUME NEW i \in 1..(Len(dir) - stop) PROVE emptied[i].path \in Emptied(dir, stop)
      <3>1. Len(dir) + 1 - i \in (stop + 1)..Len(dir) BY <1>2, <1>4
      <3> QED BY <3>1, <1>8 DEF Emptied
    <2>2. ASSUME NEW k \in (stop + 1)..Len(dir)
          PROVE  up(k) \in {emptied[i].path : i \in 1..(Len(dir) - stop)}
      <3>1. Len(dir) + 1 - k \in 1..(Len(dir) - stop) /\ Len(dir) + 1 - (Len(dir) + 1 - k) = k
        BY <1>2, <1>4
      <3>2. emptied[Len(dir) + 1 - k].path = up(k) BY <3>1, <1>8
      <3> QED BY <3>1, <3>2
    <2> QED BY <2>1, <2>2 DEF Emptied
  <1>11a. \A i \in 1..(Len(dir) - stop) : emptied[i].path = SubSeq(dir, 1, Len(dir) + 1 - i)
    BY <1>8
  <1> HIDE DEF emptied
  <1>12. /\ \A i \in DOMAIN blk : blk[i] \in Actions /\ blk[i].on = "local"
         /\ DOMAIN blk = 1..(Len(dir) - stop)
         /\ \A i \in 1..(Len(dir) - stop) :
              blk[i].object.path = emptied[i].path /\ blk[i].op = "Remove"
    <2>1. << >> \in Path BY EmptySeq DEF Path
    <2>2. DOMAIN blk = 1..(Len(dir) - stop) BY <1>9
    <2>3. ASSUME NEW i \in 1..(Len(dir) - stop)
          PROVE  /\ blk[i] \in Actions /\ blk[i].on = "local" /\ blk[i].op = "Remove"
                 /\ blk[i].object.path = emptied[i].path
      <3>1. blk[i] = [on |-> "local", op |-> "Remove", object |-> emptied[i], from |-> <<>>]
        BY <1>9
      <3> HIDE DEF blk
      <3> QED BY <1>10, <2>1, <3>1 DEF Actions
    <2> HIDE DEF blk
    <2> QED BY <2>2, <2>3
  <1>13. blk \in Seq(Actions)
    <2>1. blk \in [1..(Len(dir) - stop) -> Actions] BY <1>9, <1>12
    <2> HIDE DEF blk
    <2> QED BY <1>9, <2>1, SeqDef
  <1>14. {blk[i].object.path : i \in {j \in DOMAIN blk : blk[j].on = "local"}} = Emptied(dir, stop)
    BY <1>11, <1>12
  <1>15. pl \in Plans BY DEF Sound
  <1> HIDE DEF blk, r, below
  <1>16. /\ r.actions = pl.actions \o blk /\ r.dst = pl.dst /\ r.thumbs = pl.thumbs
         /\ r.src = {o \in pl.src : o.path \notin Emptied(dir, stop)}
         /\ r = [actions |-> pl.actions \o blk, dst |-> pl.dst, thumbs |-> pl.thumbs,
                 src |-> {o \in pl.src : o.path \notin Emptied(dir, stop)}]
    BY <1>1, <1>7, <1>15 DEF Plans
  <1>17. /\ r.actions \in Seq(Actions)
         /\ Gone(r.actions, 1) = Gone(pl.actions, 1) \cup Emptied(dir, stop)
         /\ Removed(r.actions) = Removed(pl.actions)
         /\ Copies(r.actions) = Copies(pl.actions)
         /\ \A p : WillBe(r.actions, 1, device, p) <=> WillBe(pl.actions, 1, device, p)
    <2>1. \A i \in DOMAIN blk : blk[i].on = "local" \/ blk[i].op = "MkDir" BY <1>12
    <2>2. pl.actions \in Seq(Actions) BY <1>15 DEF Plans
    <2>3. /\ pl.actions \o blk \in Seq(Actions)
          /\ Gone(pl.actions \o blk, 1) = Gone(pl.actions, 1) \cup
               {blk[i].object.path : i \in {j \in DOMAIN blk : blk[j].on = "local"}}
          /\ Removed(pl.actions \o blk) = Removed(pl.actions)
          /\ Copies(pl.actions \o blk) = Copies(pl.actions)
          /\ \A p : WillBe(pl.actions \o blk, 1, device, p) <=> WillBe(pl.actions, 1, device, p)
      BY <1>13, <2>1, <2>2, AppendedBlock, Zenon
    <2> QED BY <1>14, <1>16, <2>3
  <1>18. r \in Plans BY <1>15, <1>16, <1>17 DEF Plans
  <1>19. RemovesUpTo(pl, r, dir, stop)
    <2>1. Len(blk) = Len(dir) - stop BY <1>9, <1>12, <1>13, LenProperties
    <2>2. \A i \in 1..Len(blk) : /\ blk[i].on = "local" /\ blk[i].op = "Remove"
                                 /\ blk[i].object.path = SubSeq(dir, 1, Len(dir) + 1 - i)
      BY <1>12, <1>11a, <2>1
    <2>3. stop = Len(Source)
          \/ SubsetByPath({o \in pl.src : o.path \notin Emptied(dir, stop)}, SubSeq(dir, 1, stop)) # {}
      BY <1>5, <1>7
    <2>4. \A n \in (stop + 1)..Len(dir) :
            SubsetByPath({o \in pl.src : o.path \notin Emptied(dir, n)}, SubSeq(dir, 1, n)) = {}
      BY <1>6, <1>7
    <2> QED BY <1>13, <1>16, <2>1, <2>2, <2>3, <2>4 DEF RemovesUpTo
  <1> QED BY <1>4, <1>16, <1>17, <1>18, <1>19 DEF r

(* A path has its own beginnings as prefixes, in the sense of              *)
(* strings.HasPrefix.                                                      *)
LEMMA HasPrefixOfUp ==
  ASSUME NEW p \in Path, NEW k \in 1..Len(p), StartsWith(p[k], p[k])
  PROVE  HasPrefix(p, SubSeq(p, 1, k))
  <1>1. Len(p) \in Nat /\ k \in 0..Len(p) /\ k - 1 \in 0..k BY LenProperties DEF Path
  <1>2. /\ SubSeq(p, 1, k) \in Path /\ Len(SubSeq(p, 1, k)) = k
        /\ \A i \in 1..k : SubSeq(p, 1, k)[i] = p[i]
    BY <1>1, UpIs
  <1>3. Parent(SubSeq(p, 1, k)) = SubSeq(p, 1, k - 1)
    BY <1>1, <1>2, UpOfUp DEF Parent
  <1>4. Name(SubSeq(p, 1, k)) = p[k] BY <1>2 DEF Name
  <1> QED BY <1>1, <1>2, <1>3, <1>4 DEF HasPrefix

(* Every name of a local path begins with itself. *)
LEMMA LocalNames ==
  ASSUME NEW q \in BookPaths \cup Indexes, NEW i \in 1..Len(Source \o q)
  PROVE  StartsWith((Source \o q)[i], (Source \o q)[i])
  <1>1. Source \in Path /\ q \in Path /\ q \in Files BY ConstantsArePaths
  <1>2. /\ Len(Source \o q) = Len(Source) + Len(q) /\ Len(Source) \in Nat /\ Len(q) \in Nat
        /\ \A k \in 1..Len(Source) : (Source \o q)[k] = Source[k]
        /\ \A k \in 1..Len(q) : (Source \o q)[Len(Source) + k] = q[k]
    BY <1>1, ConcatIs
  <1>3. DOMAIN Source = 1..Len(Source) /\ DOMAIN q = 1..Len(q)
    BY <1>1, LenProperties DEF Path
  <1>4. CASE i \in 1..Len(Source) BY <1>2, <1>3, <1>4, PathsAssumption DEF PathsFit
  <1>5. CASE i \notin 1..Len(Source)
    <2>1. i - Len(Source) \in 1..Len(q) /\ i = Len(Source) + (i - Len(Source))
      BY <1>2, <1>5
    <2>2. (Source \o q)[i] = q[i - Len(Source)] BY <1>2, <2>1
    <2> QED BY <1>1, <1>3, <2>1, <2>2, PathsAssumption DEF PathsFit
  <1> QED BY <1>4, <1>5

(* What is above a file of the source. *)
LEMMA UpsOfLocal ==
  ASSUME NEW q \in BookPaths \cup Indexes
  PROVE  LET p == Source \o q
         IN  /\ p \in Path \ {<< >>} /\ Parent(p) \in Path
             /\ Len(Parent(p)) = Len(p) - 1 /\ Len(p) \in Nat /\ Len(Source) \in Nat \ {0}
             /\ Len(Source) <= Len(Parent(p))
             /\ \A n \in 0..Len(Parent(p)) : SubSeq(Parent(p), 1, n) = SubSeq(p, 1, n)
             /\ \A n \in 1..Len(Parent(p)) : SubSeq(p, 1, n) \in LocalDirs
             /\ \A n \in (Len(Source) + 1)..Len(Parent(p)) : SubSeq(p, 1, n) \in InnerDirs
  <1> DEFINE p == Source \o q
  <1>1. q \in Path /\ q # << >> BY ConstantsArePaths
  <1>2. p \in Path /\ Len(p) = Len(Source) + Len(q) /\ Len(Source) \in Nat \ {0} /\ Len(q) \in Nat \ {0}
    BY <1>1, ConstantsArePaths, ConcatIs, ParentIs
  <1>3. p # << >> BY <1>2, LongIsNotEmpty
  <1>3a. SubSeq(p, 1, Len(Source)) = Source
    BY <1>1, <1>2, ConstantsArePaths, UnderRoot DEF IsUnder
  <1>3b. p \in LocalFiles BY DEF LocalFiles
  <1> HIDE DEF p
  <1>4. Parent(p) \in Path /\ Len(Parent(p)) = Len(p) - 1 BY <1>2, <1>3, ParentIs
  <1>5. ASSUME NEW n \in 0..Len(Parent(p)) PROVE SubSeq(Parent(p), 1, n) = SubSeq(p, 1, n)
    <2>1. Len(p) - 1 \in 0..Len(p) /\ n \in 0..(Len(p) - 1) BY <1>2, <1>4
    <2> QED BY <1>2, <2>1, UpOfUp DEF Parent
  <1>6. ASSUME NEW n \in 1..Len(Parent(p))
        PROVE  /\ SubSeq(p, 1, n) \in LocalDirs
               /\ n > Len(Source) => IsUnder(SubSeq(p, 1, n), Source)
    <2>1. n \in 0..Len(p) /\ n < Len(p) BY <1>2, <1>4
    <2>2. SubSeq(p, 1, n) \in Path /\ Len(SubSeq(p, 1, n)) = n BY <1>2, <2>1, UpIs
    <2>3. IsUnder(p, SubSeq(p, 1, n)) BY <2>1, <2>2 DEF IsUnder
    <2>4. SubSeq(p, 1, n) \in LocalDirs BY <1>3b, <2>2, <2>3 DEF LocalDirs
    <2>5. ASSUME n > Len(Source) PROVE IsUnder(SubSeq(p, 1, n), Source)
      <3>1. Len(Source) \in 0..n BY <1>2, <2>5
      <3>2. SubSeq(SubSeq(p, 1, n), 1, Len(Source)) = SubSeq(p, 1, Len(Source))
        BY <1>2, <2>1, <3>1, UpOfUp
      <3> QED BY <1>3a, <2>2, <2>5, <3>2 DEF IsUnder
    <2> QED BY <2>4, <2>5
  <1>7. \A n \in (Len(Source) + 1)..Len(Parent(p)) : SubSeq(p, 1, n) \in InnerDirs
    BY <1>2, <1>4, <1>6 DEF InnerDirs
  <1>8. Len(Source) <= Len(Parent(p)) BY <1>2, <1>4
  <1> QED BY <1>2, <1>3, <1>4, <1>5, <1>6, <1>7, <1>8 DEF p

(* What goes has nothing left in it. *)
LEMMA RemainsClosed ==
  ASSUME NEW pl, Sound(pl), NEW q \in BookPaths \cup Indexes,
         StandsIn(pl.src, Parent(Source \o q)),
         NEW r, NEW stop \in Len(Source)..Len(Parent(Source \o q)),
         RemovesUpTo(pl, r, Parent(Source \o q), stop)
  PROVE  SourceTree(r.src) /\ FilesIn(r.src) = FilesIn(pl.src)
  <1> DEFINE p == Source \o q
             dir == Parent(p)
  <1>1. /\ p \in Path \ {<< >>} /\ dir \in Path
        /\ Len(dir) = Len(p) - 1 /\ Len(p) \in Nat /\ Len(Source) \in Nat \ {0}
        /\ \A n \in 0..Len(dir) : SubSeq(dir, 1, n) = SubSeq(p, 1, n)
        /\ \A n \in 1..Len(dir) : SubSeq(p, 1, n) \in LocalDirs
    BY UpsOfLocal
  <1>2. \A k \in 1..Len(p) : StartsWith(p[k], p[k]) BY LocalNames
  <1>3. /\ r.src = {o \in pl.src : o.path \notin Emptied(dir, stop)}
        /\ \A n \in (stop + 1)..Len(dir) :
             SubsetByPath({o \in pl.src : o.path \notin Emptied(dir, n)}, SubSeq(dir, 1, n)) = {}
    BY DEF RemovesUpTo
  <1>4. Keyed(pl.src) /\ Closed(pl.src) /\ pl.src \subseteq Objects
    BY DEF Sound, SourceTree, Plans
  <1>5. StandsIn(pl.src, dir) OBVIOUS
  <1>6. stop \in Len(Source)..Len(dir) OBVIOUS
  <1> HIDE DEF p, dir
  <1>7. \A o \in pl.src : o.path \in Emptied(dir, stop) => o.dir
    <2> TAKE o \in pl.src
    <2> HAVE o.path \in Emptied(dir, stop)
    <2>1. PICK k \in (stop + 1)..Len(dir) : o.path = SubSeq(dir, 1, k) BY DEF Emptied
    <2>2. k \in 1..Len(dir) BY <1>1, <1>6
    <2>3. PICK d \in pl.src : d.path = SubSeq(dir, 1, k) /\ d.dir BY <1>5, <2>2 DEF StandsIn
    <2> QED BY <1>4, <2>1, <2>3 DEF Keyed
  <1>8. FilesIn(r.src) = FilesIn(pl.src) BY <1>3, <1>7 DEF FilesIn
  <1>9. Keyed(r.src) /\ DirsIn(r.src) \subseteq DirsIn(pl.src)
    BY <1>3, <1>4 DEF Keyed, DirsIn
  <1>10. Closed(r.src)
    <2> SUFFICES ASSUME NEW x \in r.src, NEW n \in 1..(Len(x.path) - 1)
                 PROVE  \E d \in r.src : d.path = SubSeq(x.path, 1, n) /\ d.dir
      BY DEF Closed
    <2>1. x \in pl.src /\ x.path \notin Emptied(dir, stop) BY <1>3
    <2>2. PICK d \in pl.src : d.path = SubSeq(x.path, 1, n) /\ d.dir
      BY <1>4, <2>1 DEF Closed
    <2>3. x.path \in Path /\ x.path # << >> /\ Len(x.path) \in Nat /\ x.dir \in BOOLEAN
      BY <1>4, <2>1, LenProperties DEF Objects, Path
    <2>4. ASSUME d.path \in Emptied(dir, stop) PROVE FALSE
      <3>1. PICK k \in (stop + 1)..Len(dir) : d.path = SubSeq(dir, 1, k)
        BY <2>4 DEF Emptied
      <3>2. k \in 0..Len(dir) /\ n \in 0..Len(x.path) /\ k \in Nat BY <1>1, <1>6, <2>3
      <3>3. k = n
        <4>1. Len(SubSeq(dir, 1, k)) = k BY <1>1, <3>2, UpIs
        <4>2. Len(SubSeq(x.path, 1, n)) = n BY <2>3, <3>2, UpIs
        <4> QED BY <2>2, <3>1, <4>1, <4>2
      <3> DEFINE m == stop + 1
      <3>4. m \in 0..k /\ m \in 1..Len(p) /\ m < Len(x.path) /\ m \in 0..Len(dir) /\ stop < Len(dir)
            /\ m \in 1..Len(x.path) /\ m \in 0..Len(x.path)
        BY <1>1, <1>6, <2>3, <3>2, <3>3
      <3>5. SubSeq(x.path, 1, m) = SubSeq(dir, 1, m)
        <4>1. SubSeq(SubSeq(x.path, 1, n), 1, m) = SubSeq(x.path, 1, m)
          BY <2>3, <3>2, <3>3, <3>4, UpOfUp
        <4>2. SubSeq(SubSeq(dir, 1, k), 1, m) = SubSeq(dir, 1, m)
          BY <1>1, <3>2, <3>4, UpOfUp
        <4> QED BY <2>2, <3>1, <4>1, <4>2
      <3>6. x.path[m] = p[m]
        <4>1. SubSeq(dir, 1, m) = SubSeq(p, 1, m) BY <1>1, <3>4
        <4>2. SubSeq(x.path, 1, m)[m] = x.path[m]
          <5>1. m \in 1..m BY <3>4, <1>6
          <5> QED BY <2>3, <3>4, <5>1, UpIs
        <4>3. SubSeq(p, 1, m)[m] = p[m]
          <5>1. m \in 1..m /\ m \in 0..Len(p) BY <3>4, <1>6
          <5> QED BY <1>1, <3>4, <5>1, UpIs
        <4> QED BY <3>5, <4>1, <4>2, <4>3
      <3>7. StartsWith(x.path[m], x.path[m]) BY <1>2, <3>4, <3>6
      <3>8. HasPrefix(x.path, SubSeq(dir, 1, m))
        <4>1. HasPrefix(x.path, SubSeq(x.path, 1, m)) BY <2>3, <3>4, <3>7, HasPrefixOfUp
        <4> QED BY <3>5, <4>1
      <3>9. HasPrefix(Parent(x.path), SubSeq(dir, 1, m))
        <4>1. /\ Parent(x.path) \in Path /\ Len(Parent(x.path)) = Len(x.path) - 1
              /\ \A i \in 1..(Len(x.path) - 1) : Parent(x.path)[i] = x.path[i]
          BY <2>3, ParentIs
        <4>2. m \in 1..(Len(x.path) - 1) /\ m \in 0..(Len(x.path) - 1) /\ Len(x.path) - 1 \in 0..Len(x.path)
          BY <2>3, <3>4
        <4>3. SubSeq(Parent(x.path), 1, m) = SubSeq(x.path, 1, m)
          BY <2>3, <4>2, UpOfUp DEF Parent
        <4>4. Parent(x.path)[m] = x.path[m] BY <4>1, <4>2
        <4>5. HasPrefix(Parent(x.path), SubSeq(Parent(x.path), 1, m))
          BY <3>7, <4>1, <4>2, <4>4, HasPrefixOfUp
        <4> QED BY <3>5, <4>3, <4>5
      <3>10. x.path # SubSeq(dir, 1, m)
        <4>1. Len(SubSeq(dir, 1, m)) = m BY <1>1, <3>4, UpIs
        <4> QED BY <3>4, <4>1
      <3>11. x.path \notin Emptied(dir, m)
        <4>1. (m + 1)..Len(dir) \subseteq (stop + 1)..Len(dir) BY <1>1, <1>6
        <4> QED BY <2>1, <4>1 DEF Emptied
      <3>12. x \in SubsetByPath({o \in pl.src : o.path \notin Emptied(dir, m)}, SubSeq(dir, 1, m))
        BY <2>1, <3>8, <3>9, <3>10, <3>11 DEF SubsetByPath
      <3>13. m \in (stop + 1)..Len(dir) BY <1>1, <1>6, <3>4
      <3> QED BY <1>3, <3>12, <3>13
    <2> QED BY <1>3, <2>2, <2>4
  <1> QED BY <1>8, <1>9, <1>10 DEF Sound, SourceTree

(* makeRemoveActions takes the file and then the directories above it, up  *)
(* to the first one in use.                                                *)
LEMMA MakeRemoveActionsRemoves ==
  ASSUME NEW pl, Sound(pl), NEW q \in BookPaths \cup Indexes,
         NEW o \in Objects, o.path = Source \o q, Source \o q \in FilesIn(pl.src)
  PROVE  LET p   == Source \o q
             dir == Parent(p)
             m   == TakeFromSource(pl, o)
             r   == MakeRemoveActions(pl, o)
         IN  /\ Shrinks(pl, m, {p}) /\ p \in Gone(m.actions, 1)
             /\ m.src = {x \in pl.src : x.path # p} /\ StandsIn(m.src, dir)
             /\ \E stop \in Len(Source)..Len(dir) :
                  /\ RemovesUpTo(m, r, dir, stop)
                  /\ r \in Plans /\ r.dst = m.dst /\ r.thumbs = m.thumbs
                  /\ Gone(r.actions, 1) = Gone(m.actions, 1) \cup Emptied(dir, stop)
                  /\ Removed(r.actions) = Removed(m.actions)
                  /\ Copies(r.actions) = Copies(m.actions)
                  /\ \A f : WillBe(r.actions, 1, device, f) <=> WillBe(m.actions, 1, device, f)
  <1> DEFINE p == Source \o q
             dir == Parent(p)
             m == TakeFromSource(pl, o)
             r == MakeRemoveDirActions(m, dir)
  <1>1. MakeRemoveActions(pl, o) = r BY DEF MakeRemoveActions, TakeFromSource
  <1>2. /\ p \in Path \ {<< >>} /\ dir \in Path
        /\ Len(dir) = Len(p) - 1 /\ Len(p) \in Nat /\ Len(Source) \in Nat \ {0}
        /\ Len(Source) <= Len(dir)
        /\ \A n \in 0..Len(dir) : SubSeq(dir, 1, n) = SubSeq(p, 1, n)
        /\ \A n \in (Len(Source) + 1)..Len(dir) : SubSeq(p, 1, n) \in InnerDirs
    BY UpsOfLocal
  <1>3. /\ Shrinks(pl, m, {p}) /\ p \in Gone(m.actions, 1)
        /\ m.src = {x \in pl.src : x.path # p}
    <2>1. o.path \in FilesIn(pl.src) /\ o.path = p OBVIOUS
    <2>2. /\ Shrinks(pl, m, {o.path}) /\ o.path \in Gone(m.actions, 1)
          /\ m.src = {x \in pl.src : x.path # o.path}
      BY <2>1, TakeFromSourceDoes
    <2> QED BY <2>1, <2>2
  <1>4. StandsIn(m.src, dir)
    <2> SUFFICES ASSUME NEW n \in 1..Len(dir)
                 PROVE  \E d \in m.src : d.path = SubSeq(dir, 1, n) /\ d.dir
      BY DEF StandsIn
    <2>1. PICK x \in pl.src : x.path = p BY DEF FilesIn
    <2>2. n \in 1..(Len(p) - 1) /\ n \in 0..Len(dir) /\ n \in 0..Len(p) BY <1>2
    <2>3. PICK d \in pl.src : d.path = SubSeq(p, 1, n) /\ d.dir
      BY <2>1, <2>2 DEF Sound, SourceTree, Closed
    <2>4. Len(SubSeq(p, 1, n)) = n BY <1>2, <2>2, UpIs
    <2>5. d.path # p BY <1>2, <2>2, <2>3, <2>4
    <2> QED BY <1>2, <1>3, <2>2, <2>3, <2>5
  <1>5. Sound(m) BY <1>3 DEF Shrinks
  <1> HIDE DEF m
  <1>6. \E stop \in Len(Source)..Len(dir) :
          /\ RemovesUpTo(m, r, dir, stop)
          /\ r \in Plans /\ r.dst = m.dst /\ r.thumbs = m.thumbs
          /\ Gone(r.actions, 1) = Gone(m.actions, 1) \cup Emptied(dir, stop)
          /\ Removed(r.actions) = Removed(m.actions)
          /\ Copies(r.actions) = Copies(m.actions)
          /\ \A f : WillBe(r.actions, 1, device, f) <=> WillBe(m.actions, 1, device, f)
    BY <1>2, <1>4, <1>5, MakeRemoveDirActionsRemoves
  <1> QED BY <1>1, <1>3, <1>4, <1>6 DEF m

(* makeRemoveActions takes one file from the source, and only directories  *)
(* go with it.                                                             *)
LEMMA MakeRemoveActionsDoes ==
  ASSUME NEW pl, Sound(pl), NEW q \in BookPaths \cup Indexes,
         NEW o \in Objects, o.path = Source \o q, Source \o q \in FilesIn(pl.src)
  PROVE  LET r == MakeRemoveActions(pl, o)
         IN  Shrinks(pl, r, {Source \o q}) /\ Source \o q \in Gone(r.actions, 1)
  <1> DEFINE p == Source \o q
             dir == Parent(p)
             m == TakeFromSource(pl, o)
             r == MakeRemoveActions(pl, o)
  <1>2. /\ p \in Path \ {<< >>} /\ dir \in Path
        /\ Len(dir) = Len(p) - 1 /\ Len(p) \in Nat /\ Len(Source) \in Nat \ {0}
        /\ Len(Source) <= Len(dir)
        /\ \A n \in 0..Len(dir) : SubSeq(dir, 1, n) = SubSeq(p, 1, n)
        /\ \A n \in (Len(Source) + 1)..Len(dir) : SubSeq(p, 1, n) \in InnerDirs
    BY UpsOfLocal
  <1>3. Shrinks(pl, m, {p}) /\ p \in Gone(m.actions, 1) /\ StandsIn(m.src, dir)
    BY MakeRemoveActionsRemoves
  <1>5. Sound(m) BY <1>3 DEF Shrinks
  <1>6. PICK stop \in Len(Source)..Len(dir) :
          /\ RemovesUpTo(m, r, dir, stop)
          /\ r \in Plans /\ r.dst = m.dst /\ r.thumbs = m.thumbs
          /\ Gone(r.actions, 1) = Gone(m.actions, 1) \cup Emptied(dir, stop)
          /\ Removed(r.actions) = Removed(m.actions)
          /\ Copies(r.actions) = Copies(m.actions)
          /\ \A f : WillBe(r.actions, 1, device, f) <=> WillBe(m.actions, 1, device, f)
    BY MakeRemoveActionsRemoves
  <1> HIDE DEF m, r
  <1>7. SourceTree(r.src) /\ FilesIn(r.src) = FilesIn(m.src)
    BY <1>3, <1>5, <1>6, RemainsClosed
  <1>8. LocalForetold(r, 1)
    <2>1. r.src = {x \in m.src : x.path \notin Emptied(dir, stop)} BY <1>6 DEF RemovesUpTo
    <2>2. LocalForetold(m, 1) BY <1>5 DEF Sound
    <2> QED BY <1>6, <2>1, <2>2 DEF LocalForetold, Bare
  <1>9. Sound(r)
    BY <1>5, <1>6, <1>7, <1>8 DEF Sound, DeviceForetold
  <1>10. Emptied(dir, stop) \subseteq InnerDirs
    <2>1. ASSUME NEW k \in (stop + 1)..Len(dir) PROVE SubSeq(dir, 1, k) \in InnerDirs
      <3>1. k \in (Len(Source) + 1)..Len(dir) /\ k \in 0..Len(dir) BY <1>2, <1>6
      <3> QED BY <1>2, <3>1
    <2> QED BY <2>1 DEF Emptied
  <1>11. Shrinks(m, r, {}) /\ p \in Gone(r.actions, 1)
    BY <1>3, <1>6, <1>7, <1>9, <1>10 DEF Shrinks
  <1>12. Shrinks(pl, r, {p}) BY <1>3, <1>11, ShrinksTwice DEF Shrinks
  <1> QED BY <1>11, <1>12 DEF r

(***************************************************************************)
(* What the plan of a book does.                                           *)
(***************************************************************************)
(* r is pl with actions that remove the files in gone from the source and  *)
(* touch no files of the device but those in there.                        *)
Changes(pl, r, gone, there, copied) ==
  /\ Sound(r)
  /\ FilesIn(r.src) = FilesIn(pl.src) \ gone
  /\ FilesIn(pl.dst) \ there \subseteq FilesIn(r.dst)
  /\ FilesIn(r.dst) \subseteq FilesIn(pl.dst) \cup there
  /\ Gone(pl.actions, 1) \subseteq Gone(r.actions, 1)
  /\ Gone(r.actions, 1) \subseteq Gone(pl.actions, 1) \cup gone \cup InnerDirs
  /\ Removed(pl.actions) \subseteq Removed(r.actions)
  /\ Removed(r.actions) \subseteq Removed(pl.actions) \cup there
  /\ Copies(pl.actions) \subseteq Copies(r.actions)
  /\ Copies(r.actions) \subseteq Copies(pl.actions) \cup copied

(* Changes is transitive. *)
LEMMA ChangesTwice ==
  ASSUME NEW a, NEW b, NEW c, NEW g1, NEW t1, NEW c1, NEW g2, NEW t2, NEW c2,
         Changes(a, b, g1, t1, c1), Changes(b, c, g2, t2, c2)
  PROVE  Changes(a, c, g1 \cup g2, t1 \cup t2, c1 \cup c2)
  BY DEF Changes

(* A plan may change in nothing. *)
LEMMA ChangesBySelf ==
  ASSUME NEW a, NEW there, NEW copied, Sound(a)
  PROVE  Changes(a, a, {}, there, copied)
  BY DEF Changes

(* Removing from the source is a change. *)
LEMMA ShrinksIsChange ==
  ASSUME NEW a, NEW b, NEW gone, Shrinks(a, b, gone)
  PROVE  Changes(a, b, gone, {}, {})
  BY DEF Shrinks, Changes

(* Removing from and copying to the device is a change. *)
LEMMA ExtendsIsChange ==
  ASSUME NEW a, NEW b, NEW lost, NEW made, NEW copied, Extends(a, b, lost, made, copied)
  PROVE  Changes(a, b, {}, lost \cup made, copied)
  BY DEF Extends, Changes

(* The page indexes of a book, as far as a plan looks for them. *)
HereIndexes(b, root) == {root \o Index(b, 1), root \o Index(b, 2)} \cap IndexesOf(b, root)

(* No page index takes the place of a book. *)
LEMMA IndexIsNoBook ==
  ASSUME NEW b \in BookPaths, NEW c \in BookPaths, NEW root \in {Source, Target}
  PROVE  root \o c \notin HereIndexes(b, root)
  <1>1. ASSUME NEW n \in {1, 2} PROVE root \o c # root \o Index(b, n)
    <2>1. Index(b, n) \in Path /\ c \in Path /\ root \in Path
      BY IndexIs, ConstantsArePaths
    <2>2. Index(b, n) \notin BookPaths BY NamesAssumption DEF Index, NamesFit
    <2> QED BY <2>1, <2>2, ConcatInjective
  <1> QED BY <1>1 DEF HereIndexes

(* Case 7 on one page index. *)
LEMMA RemoveLocalIndexDoes ==
  ASSUME NEW pl, Sound(pl), NEW b \in BookPaths, NEW n \in {1, 2}
  PROVE  LET p == Source \o Index(b, n)
             r == RemoveLocalIndex(pl, p)
         IN  /\ Shrinks(pl, r, {p} \cap IndexesOf(b, Source))
             /\ p \notin FilesIn(r.src)
  <1> DEFINE p == Source \o Index(b, n)
             r == RemoveLocalIndex(pl, p)
             o == CHOOSE o \in Find(pl.src, p) : TRUE
  <1>1. CASE Find(pl.src, p) = {}
    <2>1. r = pl BY <1>1 DEF RemoveLocalIndex
    <2>2. p \notin FilesIn(pl.src) BY <1>1 DEF Find, FilesIn
    <2>3. FilesIn(pl.src) \cap ({p} \cap IndexesOf(b, Source)) = {} BY <2>2
    <2> QED BY <2>1, <2>2, <2>3, ShrinksBySelf
  <1>2. CASE Find(pl.src, p) # {}
    <2>1. o \in Find(pl.src, p) BY <1>2
    <2>2. o \in Objects /\ o.path = p BY <2>1 DEF Find, Sound, Plans
    <2>3. r = MakeRemoveActions(pl, o) BY <1>2 DEF RemoveLocalIndex
    <2>4. p \in FilesIn(pl.src) /\ Index(b, n) \in Indexes BY <1>2, FoundIndex
    <2>5. {p} \cap IndexesOf(b, Source) = {p} BY <2>4, IndexIsOfBook
    <2> HIDE DEF o, r
    <2>6. Shrinks(pl, r, {p}) BY <2>2, <2>3, <2>4, MakeRemoveActionsDoes
    <2>7. p \notin FilesIn(r.src) BY <2>6 DEF Shrinks
    <2> QED BY <2>5, <2>6, <2>7 DEF r
  <1> QED BY <1>1, <1>2

(* Deleting a local book. *)
Case7Of(pl, b) ==
  LET p   == Source \o b
      idx == IndexPaths(p)
      one == MakeRemoveActions(pl, [path |-> p, dir |-> FALSE, id |-> 0])
      two == RemoveLocalIndex(RemoveLocalIndex(one, idx[1]), idx[2])
  IN  RemoveThumb(two, b)

(* Case 7 for one book, step by step. *)
LEMMA Case7Steps ==
  ASSUME NEW pl, Sound(pl), NEW b \in BookPaths, Source \o b \in FilesIn(pl.src)
  PROVE  LET p  == Source \o b
             p1 == Source \o Index(b, 1)
             p2 == Source \o Index(b, 2)
         IN  \E one, two, three :
               /\ one = MakeRemoveActions(pl, [path |-> p, dir |-> FALSE, id |-> 0])
               /\ two = RemoveLocalIndex(one, p1) /\ three = RemoveLocalIndex(two, p2)
               /\ Case7Of(pl, b) = RemoveThumb(three, b)
               /\ Shrinks(pl, one, {p}) /\ p \in Gone(one.actions, 1)
               /\ Shrinks(one, two, {p1} \cap IndexesOf(b, Source))
               /\ Shrinks(two, three, {p2} \cap IndexesOf(b, Source))
  <1> DEFINE p == Source \o b
             o == [path |-> p, dir |-> FALSE, id |-> 0]
             one == MakeRemoveActions(pl, o)
             p1 == Source \o Index(b, 1)
             p2 == Source \o Index(b, 2)
             two == RemoveLocalIndex(one, p1)
             three == RemoveLocalIndex(two, p2)
  <1>1. Case7Of(pl, b) = RemoveThumb(three, b)
    <2>1. IndexPaths(p)[1] = p1 /\ IndexPaths(p)[2] = p2 BY IndexIs
    <2> QED BY <2>1, Zenon DEF Case7Of
  <1>2. o \in Objects /\ o.path = p
    BY ConstantsArePaths, UpsOfLocal DEF Objects
  <1> HIDE DEF o
  <1>3. Shrinks(pl, one, {p}) /\ p \in Gone(one.actions, 1)
    BY <1>2, MakeRemoveActionsDoes
  <1>a. one = MakeRemoveActions(pl, o) OBVIOUS
  <1> HIDE DEF one
  <1>4. Shrinks(one, two, {p1} \cap IndexesOf(b, Source))
    <2>1. Sound(one) BY <1>3 DEF Shrinks
    <2> QED BY <2>1, RemoveLocalIndexDoes
  <1>b. two = RemoveLocalIndex(one, p1) OBVIOUS
  <1> HIDE DEF two
  <1>5. Shrinks(two, three, {p2} \cap IndexesOf(b, Source))
    <2>1. Sound(two) BY <1>4 DEF Shrinks
    <2> QED BY <2>1, RemoveLocalIndexDoes
  <1>c. three = RemoveLocalIndex(two, p2) OBVIOUS
  <1> HIDE DEF three
  <1> QED BY <1>1, <1>3, <1>4, <1>5, <1>a, <1>b, <1>c, Zenon DEF o

(* What case 7 plans for one book: it goes from the source with its page   *)
(* indexes, and its thumbnail from the device.                             *)
LEMMA Case7Does ==
  ASSUME NEW pl, Sound(pl), NEW b \in BookPaths, Source \o b \in FilesIn(pl.src)
  PROVE  LET r == Case7Of(pl, b)
         IN  /\ Changes(pl, r, {Source \o b} \cup HereIndexes(b, Source), {ThumbPath(b)}, {})
             /\ Source \o b \in Gone(r.actions, 1)
  <1> DEFINE p == Source \o b
             p1 == Source \o Index(b, 1)
             p2 == Source \o Index(b, 2)
             r == Case7Of(pl, b)
  <1>1. PICK one, two, three :
          /\ r = RemoveThumb(three, b)
          /\ Shrinks(pl, one, {p}) /\ p \in Gone(one.actions, 1)
          /\ Shrinks(one, two, {p1} \cap IndexesOf(b, Source))
          /\ Shrinks(two, three, {p2} \cap IndexesOf(b, Source))
    BY Case7Steps, Zenon
  <1>6. Shrinks(pl, three, {p} \cup HereIndexes(b, Source)) /\ p \in Gone(three.actions, 1)
    <2>1. Shrinks(pl, two, {p} \cup ({p1} \cap IndexesOf(b, Source)))
      BY <1>1, ShrinksTwice
    <2>2. Shrinks(pl, three, ({p} \cup ({p1} \cap IndexesOf(b, Source)))
                               \cup ({p2} \cap IndexesOf(b, Source)))
      BY <1>1, <2>1, ShrinksTwice
    <2>3. ({p} \cup ({p1} \cap IndexesOf(b, Source))) \cup ({p2} \cap IndexesOf(b, Source))
            = {p} \cup HereIndexes(b, Source)
      BY DEF HereIndexes
    <2>4. p \in Gone(three.actions, 1) BY <1>1 DEF Shrinks
    <2> HIDE DEF p, p1, p2
    <2> QED BY <2>2, <2>3, <2>4
  <1> HIDE DEF r
  <1>7. Changes(three, r, {}, {ThumbPath(b)}, {})
    <2>1. Sound(three) BY <1>6 DEF Shrinks
    <2>2. r = three \/ Extends(three, r, {ThumbPath(b)}, {}, {}) BY <1>1, <2>1, RemoveThumbDoes
    <2> QED BY <2>1, <2>2 DEF Changes, Extends
  <1>8. Changes(pl, r, {p} \cup HereIndexes(b, Source), {ThumbPath(b)}, {})
    BY <1>6, <1>7 DEF Shrinks, Changes
  <1>9. p \in Gone(r.actions, 1) BY <1>6, <1>7 DEF Changes
  <1> QED BY <1>8, <1>9 DEF r

(* What may be on the device because of a book, as far as a plan goes.     *)
OnDevice(b) == {Target \o b, ThumbPath(b)} \cup HereIndexes(b, Target)

(* Deleting a book from the device. *)
Case6Of(pl, b) ==
  LET p   == Target \o b
      idx == IndexPaths(p)
      one == RemoveFromDevice(pl, CHOOSE o \in Find(pl.dst, p) : TRUE)
      two == RemoveDeviceIndex(RemoveDeviceIndex(one, idx[1]), idx[2])
  IN  RemoveThumb(two, b)

(* Case 6 for one book, step by step. *)
LEMMA Case6Steps ==
  ASSUME NEW pl, Sound(pl), NEW b \in BookPaths, Target \o b \in FilesIn(pl.dst)
  PROVE  LET p  == Target \o b
             p1 == Target \o Index(b, 1)
             p2 == Target \o Index(b, 2)
         IN  \E o, one, two, three :
               /\ o \in Find(pl.dst, p) /\ o \in Objects
               /\ one = RemoveFromDevice(pl, o)
               /\ two = RemoveDeviceIndex(one, p1) /\ three = RemoveDeviceIndex(two, p2)
               /\ Case6Of(pl, b) = RemoveThumb(three, b)
               /\ Extends(pl, one, {p}, {}, {}) /\ p \in Removed(one.actions)
               /\ Extends(one, two, {p1} \cap IndexesOf(b, Target), {}, {})
               /\ Extends(two, three, {p2} \cap IndexesOf(b, Target), {}, {})
               /\ p1 \notin FilesIn(two.dst) /\ p2 \notin FilesIn(three.dst)
               /\ three.thumbs = pl.thumbs
  <1> DEFINE p == Target \o b
             o == CHOOSE o \in Find(pl.dst, p) : TRUE
             one == RemoveFromDevice(pl, o)
             p1 == Target \o Index(b, 1)
             p2 == Target \o Index(b, 2)
             two == RemoveDeviceIndex(one, p1)
             three == RemoveDeviceIndex(two, p2)
  <1>1. Case6Of(pl, b) = RemoveThumb(three, b)
    <2>1. IndexPaths(p)[1] = p1 /\ IndexPaths(p)[2] = p2 BY IndexIs
    <2> QED BY <2>1, Zenon DEF Case6Of
  <1>2. o \in Objects /\ o.path = p /\ o \in Find(pl.dst, p)
    <2>1. Find(pl.dst, p) # {} BY DEF Find, FilesIn
    <2>2. o \in Find(pl.dst, p) BY <2>1
    <2> HIDE DEF o
    <2> QED BY <2>2 DEF Find, Sound, Plans
  <1> HIDE DEF o
  <1>3. Extends(pl, one, {p}, {}, {}) /\ p \in Removed(one.actions) /\ one.thumbs = pl.thumbs
    BY <1>2, RemoveFromDeviceDoes
  <1>a. one = RemoveFromDevice(pl, o) OBVIOUS
  <1> HIDE DEF one
  <1>4. Extends(one, two, {p1} \cap IndexesOf(b, Target), {}, {}) /\ p1 \notin FilesIn(two.dst)
        /\ two.thumbs = one.thumbs
    <2>1. Sound(one) BY <1>3 DEF Extends
    <2> QED BY <2>1, RemoveDeviceIndexDoes
  <1>b. two = RemoveDeviceIndex(one, p1) OBVIOUS
  <1> HIDE DEF two
  <1>5. Extends(two, three, {p2} \cap IndexesOf(b, Target), {}, {}) /\ p2 \notin FilesIn(three.dst)
        /\ three.thumbs = two.thumbs
    <2>1. Sound(two) BY <1>4 DEF Extends
    <2> QED BY <2>1, RemoveDeviceIndexDoes
  <1>c. three = RemoveDeviceIndex(two, p2) OBVIOUS
  <1> HIDE DEF three
  <1>6. three.thumbs = pl.thumbs BY <1>3, <1>4, <1>5
  <1> QED BY <1>1, <1>2, <1>3, <1>4, <1>5, <1>6, <1>a, <1>b, <1>c, Zenon

(* What case 6 plans for one book: it goes from the device with its side   *)
(* files.                                                                  *)
LEMMA Case6Does ==
  ASSUME NEW pl, Sound(pl), NEW b \in BookPaths, Target \o b \in FilesIn(pl.dst)
  PROVE  LET r == Case6Of(pl, b)
         IN  /\ Changes(pl, r, {}, OnDevice(b), {})
             /\ Target \o b \in Removed(r.actions)
             /\ (OnDevice(b) \ {ThumbPath(b)}) \cap FilesIn(r.dst) = {}
  <1> DEFINE p == Target \o b
             p1 == Target \o Index(b, 1)
             p2 == Target \o Index(b, 2)
             r == Case6Of(pl, b)
  <1>1. PICK o, one, two, three :
          /\ r = RemoveThumb(three, b)
          /\ Extends(pl, one, {p}, {}, {}) /\ p \in Removed(one.actions)
          /\ Extends(one, two, {p1} \cap IndexesOf(b, Target), {}, {})
          /\ Extends(two, three, {p2} \cap IndexesOf(b, Target), {}, {})
          /\ p1 \notin FilesIn(two.dst) /\ p2 \notin FilesIn(three.dst)
    BY Case6Steps, Zenon
  <1> HIDE DEF r
  <1>6. Sound(three) BY <1>1 DEF Extends
  <1>7. r = three \/ Extends(three, r, {ThumbPath(b)}, {}, {}) BY <1>1, <1>6, RemoveThumbDoes
  <1>8. Changes(pl, three, {}, {p} \cup HereIndexes(b, Target), {})
    <2>1. ({p1} \cap IndexesOf(b, Target)) \cup ({p2} \cap IndexesOf(b, Target))
            = HereIndexes(b, Target)
      BY DEF HereIndexes
    <2> HIDE DEF p, p1, p2
    <2> QED BY <1>1, <2>1 DEF Extends, Changes
  <1>9. Changes(pl, r, {}, OnDevice(b), {})
    BY <1>7, <1>8 DEF Extends, Changes, OnDevice
  <1>10. p \in Removed(r.actions)
    BY <1>1, <1>7 DEF Extends
  <1>11. ({p} \cup HereIndexes(b, Target)) \cap FilesIn(r.dst) = {}
    <2>1. HereIndexes(b, Target) \subseteq {p1, p2} BY DEF HereIndexes
    <2> HIDE DEF p, p1, p2
    <2> QED BY <2>1, <1>1, <1>7 DEF Extends
  <1> QED BY <1>9, <1>10, <1>11 DEF OnDevice, r

(* Copying a book. *)
Case3Of(pl, b) ==
  LET p   == Source \o b
      idx == IndexPaths(p)
      one == MakeCopyActions(pl, p)
      two == CopyIndex(CopyIndex(one, idx[1]), idx[2])
  IN  CopyThumb(two, b)

(* What may be copied because of a book. *)
CopiedFor(b) ==
  {Source \o b, Source \o Index(b, 1), Source \o Index(b, 2), <<ThumbOf[Name(b)]>>}

(* Case 3 for one book, step by step. *)
LEMMA Case3Steps ==
  ASSUME NEW pl, Sound(pl), NEW b \in BookPaths
  PROVE  LET p  == Source \o b
             p1 == Source \o Index(b, 1)
             p2 == Source \o Index(b, 2)
             q1 == Target \o Index(b, 1)
             q2 == Target \o Index(b, 2)
             t  == ThumbOf[Name(b)]
             r  == Case3Of(pl, b)
         IN  \E one, two, three :
               /\ one = MakeCopyActions(pl, p)
               /\ two = CopyIndex(one, p1) /\ three = CopyIndex(two, p2)
               /\ r = CopyThumb(three, b)
               /\ Extends(pl, one, {Target \o b}, {Target \o b}, {p})
               /\ \/ p1 \notin FilesIn(one.src) /\ two = one
                  \/ Extends(one, two, {q1}, {q1}, {p1}) /\ q1 \in HereIndexes(b, Target)
               /\ \/ p2 \notin FilesIn(two.src) /\ three = two
                  \/ Extends(two, three, {q2}, {q2}, {p2}) /\ q2 \in HereIndexes(b, Target)
               /\ IF ~thumbsOn \/ t = NoThumb THEN r = three
                  ELSE Extends(three, r, {ThumbPath(b)}, {ThumbPath(b)}, {<<t>>})
  <1> DEFINE p == Source \o b
             one == MakeCopyActions(pl, p)
             p1 == Source \o Index(b, 1)
             p2 == Source \o Index(b, 2)
             q1 == Target \o Index(b, 1)
             q2 == Target \o Index(b, 2)
             two == CopyIndex(one, p1)
             three == CopyIndex(two, p2)
             r == Case3Of(pl, b)
             t == ThumbOf[Name(b)]
  <1>1. r = CopyThumb(three, b)
    <2>1. IndexPaths(p)[1] = p1 /\ IndexPaths(p)[2] = p2 BY IndexIs
    <2> QED BY <2>1, Zenon DEF Case3Of
  <1> HIDE DEF r
  <1>3. Extends(pl, one, {Target \o b}, {Target \o b}, {p})
    BY MakeCopyActionsDoes
  <1>a. one = MakeCopyActions(pl, p) OBVIOUS
  <1> HIDE DEF one
  <1>4. \/ p1 \notin FilesIn(one.src) /\ two = one
        \/ Extends(one, two, {q1}, {q1}, {p1}) /\ q1 \in HereIndexes(b, Target)
    <2>1. Sound(one) BY <1>3 DEF Extends
    <2>2. \/ p1 \notin FilesIn(one.src) /\ two = one
          \/ /\ Extends(one, two, {q1} \cap IndexesOf(b, Target),
                         {q1} \cap IndexesOf(b, Target), {p1})
             /\ {q1} \cap IndexesOf(b, Target) = {q1}
      BY <2>1, CopyIndexDoes
    <2> HIDE DEF p1, two
    <2> QED BY <2>2 DEF HereIndexes
  <1>b. two = CopyIndex(one, p1) OBVIOUS
  <1> HIDE DEF two
  <1>5. \/ p2 \notin FilesIn(two.src) /\ three = two
        \/ Extends(two, three, {q2}, {q2}, {p2}) /\ q2 \in HereIndexes(b, Target)
    <2>1. Sound(two) BY <1>3, <1>4 DEF Extends
    <2>2. \/ p2 \notin FilesIn(two.src) /\ three = two
          \/ /\ Extends(two, three, {q2} \cap IndexesOf(b, Target),
                         {q2} \cap IndexesOf(b, Target), {p2})
             /\ {q2} \cap IndexesOf(b, Target) = {q2}
      BY <2>1, CopyIndexDoes
    <2> HIDE DEF p2, three
    <2> QED BY <2>2 DEF HereIndexes
  <1>c. three = CopyIndex(two, p2) OBVIOUS
  <1> HIDE DEF three
  <1>6. IF ~thumbsOn \/ t = NoThumb THEN r = three
        ELSE Extends(three, r, {ThumbPath(b)}, {ThumbPath(b)}, {<<t>>})
    <2>1. Sound(three) BY <1>3, <1>4, <1>5 DEF Extends
    <2> QED BY <1>1, <2>1, CopyThumbDoes
  <1> QED BY <1>1, <1>3, <1>4, <1>5, <1>6, <1>a, <1>b, <1>c, Zenon DEF r

(* What case 3 plans for one book: it and its side files get onto the      *)
(* device.                                                                 *)
LEMMA Case3Does ==
  ASSUME NEW pl, Sound(pl), NEW b \in BookPaths
  PROVE  LET r == Case3Of(pl, b)
         IN  /\ Changes(pl, r, {}, OnDevice(b), CopiedFor(b))
             /\ FilesIn(pl.dst) \subseteq FilesIn(r.dst)
             /\ Source \o b \in Copies(r.actions) /\ Target \o b \in FilesIn(r.dst)
             /\ \A n \in {1, 2} : Source \o Index(b, n) \in FilesIn(pl.src) =>
                                    Target \o Index(b, n) \in FilesIn(r.dst)
             /\ thumbsOn /\ ThumbOf[Name(b)] # NoThumb => ThumbPath(b) \in FilesIn(r.dst)
  <1> DEFINE p == Source \o b
             p1 == Source \o Index(b, 1)
             p2 == Source \o Index(b, 2)
             q1 == Target \o Index(b, 1)
             q2 == Target \o Index(b, 2)
             r == Case3Of(pl, b)
             t == ThumbOf[Name(b)]
  <1>1. PICK one, two, three :
          /\ Extends(pl, one, {Target \o b}, {Target \o b}, {p})
          /\ \/ p1 \notin FilesIn(one.src) /\ two = one
             \/ Extends(one, two, {q1}, {q1}, {p1}) /\ q1 \in HereIndexes(b, Target)
          /\ \/ p2 \notin FilesIn(two.src) /\ three = two
             \/ Extends(two, three, {q2}, {q2}, {p2}) /\ q2 \in HereIndexes(b, Target)
          /\ IF ~thumbsOn \/ t = NoThumb THEN r = three
             ELSE Extends(three, r, {ThumbPath(b)}, {ThumbPath(b)}, {<<t>>})
    BY Case3Steps, Zenon
  <1> HIDE DEF r
  <1>7. one.src = pl.src /\ two.src = pl.src BY <1>1 DEF Extends
  <1>8. Changes(pl, one, {}, OnDevice(b), CopiedFor(b)) /\ FilesIn(pl.dst) \subseteq FilesIn(one.dst)
        /\ p \in Copies(one.actions) /\ Target \o b \in FilesIn(one.dst)
    BY <1>1 DEF Extends, Changes, OnDevice, CopiedFor
  <1>9. Changes(pl, two, {}, OnDevice(b), CopiedFor(b)) /\ FilesIn(one.dst) \subseteq FilesIn(two.dst)
        /\ (p1 \in FilesIn(pl.src) => q1 \in FilesIn(two.dst))
    BY <1>1, <1>7, <1>8 DEF Extends, Changes, OnDevice, CopiedFor
  <1>10. Changes(pl, three, {}, OnDevice(b), CopiedFor(b)) /\ FilesIn(two.dst) \subseteq FilesIn(three.dst)
         /\ (p2 \in FilesIn(pl.src) => q2 \in FilesIn(three.dst))
    BY <1>1, <1>7, <1>9 DEF Extends, Changes, OnDevice, CopiedFor
  <1>11. Changes(pl, r, {}, OnDevice(b), CopiedFor(b)) /\ FilesIn(three.dst) \subseteq FilesIn(r.dst)
         /\ (thumbsOn /\ t # NoThumb => ThumbPath(b) \in FilesIn(r.dst))
    BY <1>1, <1>10, SMTT(20) DEF Extends, Changes, OnDevice, CopiedFor
  <1>12. p \in Copies(r.actions)
    <2>1. Copies(one.actions) \subseteq Copies(two.actions) BY <1>1 DEF Extends
    <2>2. Copies(two.actions) \subseteq Copies(three.actions) BY <1>1 DEF Extends
    <2>3. Copies(three.actions) \subseteq Copies(r.actions) BY <1>1 DEF Extends
    <2> QED BY <1>8, <2>1, <2>2, <2>3
  <1>13. /\ FilesIn(pl.dst) \subseteq FilesIn(r.dst) /\ Target \o b \in FilesIn(r.dst)
         /\ (p1 \in FilesIn(pl.src) => q1 \in FilesIn(r.dst))
         /\ (p2 \in FilesIn(pl.src) => q2 \in FilesIn(r.dst))
    BY <1>8, <1>9, <1>10, <1>11
  <1> QED BY <1>11, <1>12, <1>13 DEF r

(***************************************************************************)
(* The invariant.                                                          *)
(***************************************************************************)
Planning == phase \in {"case7", "case6", "case3"}

(* Types; nothing is carried out while it is planned, and nothing is left  *)
(* when the run is done.                                                   *)
Types ==
  /\ phase \in {"case7", "case6", "case3", "run", "done", "failed"}
  /\ todo \subseteq BookPaths /\ localBooks \subseteq BookPaths
  /\ deviceBooks \subseteq BookPaths /\ history \subseteq BookPaths
  /\ next \in Nat \ {0}
  /\ Planning => next = 1
  /\ phase = "done" => next > Len(plan.actions)

(* Files and directories are where their names put them.                   *)
Disks ==
  /\ \A x \in local \cup device : x = [path |-> x.path, dir |-> x.dir] /\ x.dir \in BOOLEAN
  /\ \A x \in local : x.path \in IF x.dir THEN LocalDirs ELSE LocalFiles
  /\ \A x \in device : x.dir => x.path \in DeviceDirs

(* The plan, carried out up to the next action.                            *)
SoundFrom(pl, n) ==
  /\ pl \in Plans
  /\ SourceTree(pl.src) /\ TargetKnown(pl.dst) /\ ThumbsKnown(pl.thumbs)
  /\ LocalForetold(pl, n) /\ DeviceForetold(pl, n)

PlanIsSound == SoundFrom(plan, next)

(* What is still to be planned is a part of the case.                      *)
TodoIsOfCase ==
  /\ phase = "case7" => todo \subseteq Case7
  /\ phase = "case6" => todo \subseteq Case6
  /\ phase = "case3" => todo \subseteq Case3
  /\ ~Planning => todo = {}

(* The books that are planned to be in the source and on the device.       *)
LocalPlanned == IF phase = "case7" THEN localBooks \ (Case7 \ todo) ELSE localBooks

DevicePlanned ==
  CASE phase = "case7" -> deviceBooks
    [] phase = "case6" -> deviceBooks \ (Case6 \ todo)
    [] OTHER           -> deviceBooks \cup (Case3 \ todo)

(* The sets of the plan hold exactly these books. *)
BooksArePlanned ==
  \A b \in BookPaths :
    /\ Source \o b \in FilesIn(plan.src) <=> b \in LocalPlanned
    /\ Target \o b \in FilesIn(plan.dst) <=> b \in DevicePlanned

(* After Case 6 the recorded books of the device are local.                *)
RecordedAreLocal ==
  phase \notin {"case7", "case6"} => deviceBooks \cap history \subseteq localBooks

(* The books that the plan removes and copies.                             *)
Handled == IF phase = "case7" THEN Case7 \ todo ELSE BookPaths \ localBooks

ToBeDropped ==
  {b \in Handled : \/ Source \o b \in Gone(plan.actions, 1)
                   \/ Target \o b \in Removed(plan.actions)}

ToBeCopied == {b \in localBooks : Source \o b \in Copies(plan.actions)}

(* Nothing else is removed than what belongs to such a book, and           *)
(* directories below the source.                                           *)
OnlyKnownGo ==
  /\ Gone(plan.actions, 1) \subseteq
       InnerDirs \cup UNION {{Source \o b} \cup IndexesOf(b, Source) : b \in ToBeDropped}
  /\ Removed(plan.actions) \subseteq
       UNION {FilesOf(b) : b \in ToBeDropped \cup ToBeCopied}

(* The books whose copies are planned, with what goes with them.           *)
Copying == IF phase \in {"case7", "case6"} THEN {} ELSE Case3 \ todo

(* Nothing else is copied. *)
CopiesAreKnown == Copies(plan.actions) \subseteq UNION {CopiedFor(b) : b \in Copying}

(* A copy that is planned has its side files planned with it. *)
SideFilesPlanned ==
  \A b \in Copying :
    /\ \A n \in {1, 2} : Source \o Index(b, n) \in FilesIn(plan.src) =>
                           Target \o Index(b, n) \in FilesIn(plan.dst)
    /\ thumbsOn /\ ThumbOf[Name(b)] # NoThumb => ThumbPath(b) \in FilesIn(plan.dst)

(* The inductive invariant. *)
Inv ==
  /\ Types /\ Disks /\ PlanIsSound /\ TodoIsOfCase
  /\ BooksArePlanned /\ RecordedAreLocal /\ OnlyKnownGo
  /\ CopiesAreKnown /\ SideFilesPlanned

(***************************************************************************)
(* The first state.                                                        *)
(***************************************************************************)
LEMMA TreeIs ==
  ASSUME NEW root \in Path, root # << >>, NEW files \in SUBSET Path,
         \A f \in files : IsUnder(f, root),
         NEW x \in Tree(root, files)
  PROVE  /\ \/ x.path \in files /\ x = File(x.path)
            \/ /\ x = Dir(x.path)
               /\ \/ x.path = root \/ IsUnder(root, x.path)
                  \/ \E f \in files : IsUnder(f, x.path)
         /\ x.path \in Path /\ x.path # << >>
         /\ \A n \in 1..(Len(x.path) - 1) : Dir(SubSeq(x.path, 1, n)) \in Tree(root, files)
  <1> DEFINE top == {Dir(SubSeq(root, 1, n)) : n \in 1..Len(root)}
             in(f) == {Dir(SubSeq(f, 1, n)) : n \in Len(root)..(Len(f) - 1)}
             tree == Tree(root, files)
  <1>1. tree = {File(f) : f \in files} \cup top \cup UNION {in(f) : f \in files}
    BY DEF Tree
  <1> HIDE DEF tree
  <1>2. Len(root) \in Nat \ {0} BY ParentIs
  <1>3. ASSUME NEW n \in 1..Len(root)
        PROVE  /\ SubSeq(root, 1, n) \in Path /\ Len(SubSeq(root, 1, n)) = n
               /\ SubSeq(root, 1, n) = root \/ IsUnder(root, SubSeq(root, 1, n))
               /\ Dir(SubSeq(root, 1, n)) \in tree
    <2>1. n \in 0..Len(root) BY <1>2
    <2>2. SubSeq(root, 1, n) \in Path /\ Len(SubSeq(root, 1, n)) = n BY <2>1, UpIs
    <2>3. n = Len(root) => SubSeq(root, 1, n) = root BY Whole
    <2>4. n # Len(root) => IsUnder(root, SubSeq(root, 1, n)) BY <1>2, <2>2 DEF IsUnder
    <2> QED BY <1>1, <2>2, <2>3, <2>4
  <1>4. ASSUME NEW f \in files
        PROVE  /\ f \in Path /\ Len(f) \in Nat /\ Len(root) < Len(f)
               /\ SubSeq(f, 1, Len(root)) = root
    BY LenProperties DEF IsUnder, Path
  <1>5. ASSUME NEW f \in files, NEW n \in 1..(Len(f) - 1)
        PROVE  /\ SubSeq(f, 1, n) \in Path /\ Len(SubSeq(f, 1, n)) = n
               /\ n >= Len(root) => IsUnder(f, SubSeq(f, 1, n))
               /\ Dir(SubSeq(f, 1, n)) \in tree
    <2>1. n \in 0..Len(f) /\ n \in Nat /\ n < Len(f) BY <1>4
    <2>2. SubSeq(f, 1, n) \in Path /\ Len(SubSeq(f, 1, n)) = n BY <1>4, <2>1, UpIs
    <2>3. IsUnder(f, SubSeq(f, 1, n)) BY <2>1, <2>2 DEF IsUnder
    <2>4. CASE n \in Len(root)..(Len(f) - 1) BY <1>1, <2>2, <2>3, <2>4
    <2>5. CASE n \notin Len(root)..(Len(f) - 1)
      <3>1. n \in 1..Len(root) /\ n \in 0..Len(root) /\ Len(root) \in 0..Len(f)
        BY <1>2, <1>4, <2>1, <2>5
      <3>2. SubSeq(SubSeq(f, 1, Len(root)), 1, n) = SubSeq(f, 1, n) BY <1>4, <3>1, UpOfUp
      <3>3. SubSeq(f, 1, n) = SubSeq(root, 1, n) BY <1>4, <3>2
      <3> QED BY <1>3, <2>2, <2>3, <3>1, <3>3
    <2> QED BY <2>4, <2>5
  <1>6. CASE x \in {File(f) : f \in files}
    <2>1. PICK f \in files : x = File(f) BY <1>6
    <2>2. x.path = f BY <2>1 DEF File
    <2>3. f # << >>
      <3>1. Len(f) \in Nat /\ Len(f) > 0 BY <1>2, <1>4
      <3> QED BY <3>1, LongIsNotEmpty
    <2> QED BY <2>1, <2>2, <2>3, <1>4, <1>5 DEF tree
  <1>7. CASE x \in top
    <2>1. PICK n \in 1..Len(root) : x = Dir(SubSeq(root, 1, n)) BY <1>7
    <2>2. x.path = SubSeq(root, 1, n) /\ x = Dir(x.path) BY <2>1 DEF Dir
    <2>3. x.path \in Path /\ Len(x.path) = n BY <1>3, <2>2
    <2>4. x.path # << >> BY <2>3, <1>2, LongIsNotEmpty
    <2>5. ASSUME NEW k \in 1..(Len(x.path) - 1) PROVE Dir(SubSeq(x.path, 1, k)) \in tree
      <3>1. k \in 0..n /\ n \in 0..Len(root) /\ k \in 1..Len(root) BY <1>2, <2>3
      <3>2. SubSeq(x.path, 1, k) = SubSeq(root, 1, k) BY <2>2, <3>1, UpOfUp
      <3> QED BY <1>3, <3>1, <3>2
    <2> QED BY <1>3, <2>2, <2>3, <2>4, <2>5 DEF tree
  <1>8. CASE x \in UNION {in(f) : f \in files}
    <2>1. PICK f \in files : x \in in(f) BY <1>8
    <2>2. PICK n \in Len(root)..(Len(f) - 1) : x = Dir(SubSeq(f, 1, n)) BY <2>1
    <2>3. x.path = SubSeq(f, 1, n) /\ x = Dir(x.path) BY <2>2 DEF Dir
    <2>4. n \in 1..(Len(f) - 1) BY <1>2, <1>4
    <2>5. x.path \in Path /\ Len(x.path) = n BY <1>5, <2>3, <2>4
    <2>6. x.path # << >> BY <2>4, <2>5, LongIsNotEmpty
    <2>7. IsUnder(f, x.path) BY <1>2, <1>4, <1>5, <2>3, <2>4
    <2>8. ASSUME NEW k \in 1..(Len(x.path) - 1) PROVE Dir(SubSeq(x.path, 1, k)) \in tree
      <3>1. k \in 0..n /\ n \in 0..Len(f) /\ k \in 1..(Len(f) - 1) BY <1>4, <2>4, <2>5
      <3>2. SubSeq(x.path, 1, k) = SubSeq(f, 1, k) BY <1>4, <2>3, <3>1, UpOfUp
      <3> QED BY <1>5, <3>1, <3>2
    <2> QED BY <2>3, <2>5, <2>6, <2>7, <2>8 DEF tree
  <1> QED BY <1>1, <1>6, <1>7, <1>8 DEF tree

(* The files that a tree is made of are in it. *)
LEMMA FilesOfTree ==
  ASSUME NEW root, NEW files, NEW f \in files
  PROVE  File(f) \in Tree(root, files)
  BY DEF Tree

(* A file is no directory. *)
LEMMA OneOrTheOther ==
  ASSUME NEW x, x = File(x.path) \/ x = Dir(x.path)
  PROVE  /\ x = [path |-> x.path, dir |-> x.dir] /\ x.dir \in BOOLEAN
         /\ x.dir => x = Dir(x.path)
         /\ ~x.dir => x = File(x.path)
  <1> DEFINE p == x.path
  <1>1. x = File(p) \/ x = Dir(p) OBVIOUS
  <1> HIDE DEF p
  <1>2. CASE x = File(p)
    <2>1. x.path = p /\ x.dir = FALSE BY <1>2 DEF File
    <2>2. x = [path |-> x.path, dir |-> x.dir] BY <1>2, <2>1 DEF File
    <2> QED BY <1>2, <2>1, <2>2
  <1>3. CASE x = Dir(p)
    <2>1. x.path = p /\ x.dir = TRUE BY <1>3 DEF Dir
    <2>2. x = [path |-> x.path, dir |-> x.dir] BY <1>3, <2>1 DEF Dir
    <2> QED BY <1>3, <2>1, <2>2
  <1> QED BY <1>1, <1>2, <1>3

(* A scan sees what is there, and nothing else. *)
LEMMA ScanIs ==
  ASSUME NEW disk, \A x \in disk : x = File(x.path) \/ x = Dir(x.path),
         \A x \in disk : x.path \in Path /\ x.path # << >>
  PROVE  /\ Scan(disk) \subseteq Objects
         /\ Bare(Scan(disk)) = disk
         /\ \A p : p \in FilesIn(Scan(disk)) <=> File(p) \in disk
         /\ \A p : p \in DirsIn(Scan(disk)) <=> Dir(p) \in disk
  <1> DEFINE scanned(x) == [path |-> x.path, dir |-> x.dir, id |-> 0]
  <1>1. \A x \in disk : /\ x = [path |-> x.path, dir |-> x.dir] /\ x.dir \in BOOLEAN
                        /\ x.dir => x = Dir(x.path)
                        /\ ~x.dir => x = File(x.path)
    BY OneOrTheOther
  <1>2. Scan(disk) = {scanned(x) : x \in disk} BY DEF Scan
  <1>3. \A x : scanned(x).path = x.path /\ scanned(x).dir = x.dir OBVIOUS
  <1>4. \A x \in disk : scanned(x) \in Objects BY <1>1 DEF Objects
  <1> HIDE DEF scanned
  <1>5. Scan(disk) \subseteq Objects BY <1>2, <1>4
  <1>6. Bare(Scan(disk)) = disk
    <2>1. ASSUME NEW x \in disk PROVE x \in Bare(Scan(disk))
      <3>1. x = [path |-> scanned(x).path, dir |-> scanned(x).dir] BY <1>1, <1>3
      <3> QED BY <1>2, <3>1 DEF Bare
    <2>2. ASSUME NEW y \in Bare(Scan(disk)) PROVE y \in disk
      <3>1. PICK x \in disk : y = [path |-> scanned(x).path, dir |-> scanned(x).dir]
        BY <1>2 DEF Bare
      <3>2. y = [path |-> x.path, dir |-> x.dir] BY <1>3, <3>1
      <3>3. y = x BY <1>1, <3>2
      <3> QED BY <3>3
    <2> QED BY <2>1, <2>2
  <1>7. ASSUME NEW p PROVE p \in FilesIn(Scan(disk)) <=> File(p) \in disk
    <2>1. ASSUME p \in FilesIn(Scan(disk)) PROVE File(p) \in disk
      <3>1. PICK x \in disk : scanned(x).path = p /\ ~scanned(x).dir
        BY <1>2, <2>1 DEF FilesIn
      <3>2. x = File(p) BY <1>1, <1>3, <3>1
      <3> QED BY <3>2
    <2>2. ASSUME File(p) \in disk PROVE p \in FilesIn(Scan(disk))
      <3>1. File(p).path = p /\ ~File(p).dir BY DEF File
      <3>2. scanned(File(p)) \in Scan(disk) BY <1>2, <2>2
      <3> QED BY <1>3, <3>1, <3>2 DEF FilesIn
    <2> QED BY <2>1, <2>2
  <1>8. ASSUME NEW p PROVE p \in DirsIn(Scan(disk)) <=> Dir(p) \in disk
    <2>1. ASSUME p \in DirsIn(Scan(disk)) PROVE Dir(p) \in disk
      <3>1. PICK x \in disk : scanned(x).path = p /\ scanned(x).dir
        BY <1>2, <2>1 DEF DirsIn
      <3>2. x = Dir(p) BY <1>1, <1>3, <3>1
      <3> QED BY <3>2
    <2>2. ASSUME Dir(p) \in disk PROVE p \in DirsIn(Scan(disk))
      <3>1. Dir(p).path = p /\ Dir(p).dir BY DEF Dir
      <3>2. scanned(Dir(p)) \in Scan(disk) BY <1>2, <2>2
      <3> QED BY <1>3, <3>1, <3>2 DEF DirsIn
    <2> QED BY <2>1, <2>2
  <1> QED BY <1>5, <1>6, <1>7, <1>8

(* The source: a tree of books and page indexes. *)
LEMMA LocalTreeIs ==
  ASSUME NEW m \in Mixes
  PROVE  LET tree == LocalTree(m)
         IN  /\ \A x \in tree : x = File(x.path) \/ x = Dir(x.path)
             /\ \A x \in tree : x.path \in Path /\ x.path # << >>
             /\ \A x \in tree : x.path \in IF x.dir THEN LocalDirs ELSE LocalFiles
             /\ \A x \in tree : \A n \in 1..(Len(x.path) - 1) : Dir(SubSeq(x.path, 1, n)) \in tree
             /\ SourceTree(Scan(tree))
  <1> DEFINE files == {Source \o p : p \in m.books \cup m.indexes}
             tree == LocalTree(m)
  <1>1. m.books \subseteq BookPaths /\ m.books # {} /\ m.indexes \subseteq Indexes
    BY DEF Mixes
  <1>2. \A f \in files : f \in Path /\ f \in LocalFiles /\ IsUnder(f, Source)
    <2> SUFFICES ASSUME NEW q \in BookPaths \cup Indexes
                 PROVE  Source \o q \in Path /\ Source \o q \in LocalFiles /\ IsUnder(Source \o q, Source)
      BY <1>1
    <2> QED BY ConstantsArePaths, ConcatIs, UnderRoot DEF LocalFiles
  <1>3. PICK some \in files : TRUE BY <1>1
  <1>4. tree = Tree(Source, files) BY DEF LocalTree
  <1> HIDE DEF files, tree
  <1>5. ASSUME NEW x \in tree
        PROVE  /\ \/ x.path \in files /\ x = File(x.path)
                  \/ /\ x = Dir(x.path)
                     /\ \/ x.path = Source \/ IsUnder(Source, x.path)
                        \/ \E f \in files : IsUnder(f, x.path)
               /\ x.path \in Path /\ x.path # << >>
               /\ \A n \in 1..(Len(x.path) - 1) : Dir(SubSeq(x.path, 1, n)) \in tree
    BY <1>2, <1>4, ConstantsArePaths, TreeIs
  <1>6. ASSUME NEW x \in tree PROVE x.path \in IF x.dir THEN LocalDirs ELSE LocalFiles
    <2>1. CASE x.path \in files /\ x = File(x.path)
      <3>1. ~x.dir BY <2>1 DEF File
      <3> QED BY <2>1, <3>1, <1>2
    <2>2. CASE /\ x = Dir(x.path)
               /\ \/ x.path = Source \/ IsUnder(Source, x.path)
                  \/ \E f \in files : IsUnder(f, x.path)
      <3>1. x.dir BY <2>2 DEF Dir
      <3>2. x.path \in Path BY <1>5
      <3>3. \E f \in files : IsUnder(f, x.path)
        BY <1>2, <1>3, <2>2, <3>2, ConstantsArePaths, UnderUnder
      <3> QED BY <1>2, <3>1, <3>2, <3>3 DEF LocalDirs
    <2> QED BY <1>5, <2>1, <2>2
  <1>7. /\ \A x \in tree : x = File(x.path) \/ x = Dir(x.path)
        /\ \A x \in tree : x.path \in Path /\ x.path # << >>
        /\ \A x \in tree : \A n \in 1..(Len(x.path) - 1) : Dir(SubSeq(x.path, 1, n)) \in tree
    BY <1>5
  <1>8. /\ Scan(tree) \subseteq Objects
        /\ \A p : p \in FilesIn(Scan(tree)) <=> File(p) \in tree
        /\ \A p : p \in DirsIn(Scan(tree)) <=> Dir(p) \in tree
    <2>1. /\ \A x \in tree : x = File(x.path) \/ x = Dir(x.path)
          /\ \A x \in tree : x.path \in Path /\ x.path # << >>
      BY <1>7
    <2> QED BY <2>1, ScanIs
  <1>9. FilesIn(Scan(tree)) \subseteq LocalFiles /\ DirsIn(Scan(tree)) \subseteq LocalDirs
    <2>1. ASSUME NEW p, File(p) \in tree PROVE p \in LocalFiles
      <3>1. File(p).path = p /\ ~File(p).dir BY DEF File
      <3> QED BY <2>1, <3>1, <1>6
    <2>2. ASSUME NEW p, Dir(p) \in tree PROVE p \in LocalDirs
      <3>1. Dir(p).path = p /\ Dir(p).dir BY DEF Dir
      <3> QED BY <2>2, <3>1, <1>6
    <2> QED BY <1>8, <2>1, <2>2
  <1>10. Keyed(Scan(tree))
    <2> SUFFICES ASSUME NEW x \in tree, NEW y \in tree, x.path = y.path PROVE x = y
      BY DEF Keyed, Scan
    <2>1. /\ x.dir \in BOOLEAN /\ (x.dir => x = Dir(x.path)) /\ (~x.dir => x = File(x.path))
          /\ y.dir \in BOOLEAN /\ (y.dir => y = Dir(y.path)) /\ (~y.dir => y = File(y.path))
      BY <1>7, OneOrTheOther
    <2>2. x.dir <=> y.dir BY <1>6, <2>1, LocalFileIsNoDir
    <2> QED BY <2>1, <2>2
  <1>11. Closed(Scan(tree))
    <2> SUFFICES ASSUME NEW o \in Scan(tree), NEW n \in 1..(Len(o.path) - 1)
                 PROVE  \E d \in Scan(tree) : d.path = SubSeq(o.path, 1, n) /\ d.dir
      BY DEF Closed
    <2>1. PICK x \in tree : x.path = o.path BY DEF Scan
    <2>2. Dir(SubSeq(o.path, 1, n)) \in tree BY <1>7, <2>1
    <2>3. SubSeq(o.path, 1, n) \in DirsIn(Scan(tree)) BY <1>8, <2>2
    <2> QED BY <2>3 DEF DirsIn
  <1> QED BY <1>6, <1>7, <1>9, <1>10, <1>11 DEF SourceTree, tree

(* The device: what has a place on it. *)
LEMMA DeviceTreeIs ==
  ASSUME NEW m \in Mixes
  PROVE  LET tree == DeviceTree(m)
         IN  /\ \A x \in tree : x = File(x.path) \/ x = Dir(x.path)
             /\ \A x \in tree : x.path \in Path /\ x.path # << >>
             /\ \A x \in tree : x.path \in IF x.dir THEN DeviceDirs ELSE DeviceFiles
  <1> DEFINE books == {Target \o p : p \in m.bookCopies \cup m.indexCopies \cup m.own}
             thumbs == {Append(ThumbFolder, t) : t \in m.thumbs}
  <1> SUFFICES ASSUME NEW x \in DeviceTree(m)
               PROVE  /\ x = File(x.path) \/ x = Dir(x.path)
                      /\ x.path \in Path /\ x.path # << >>
                      /\ x.path \in IF x.dir THEN DeviceDirs ELSE DeviceFiles
    OBVIOUS
  <1>1. /\ m.bookCopies \subseteq BookPaths /\ m.indexCopies \subseteq Indexes
        /\ m.own \subseteq DeviceOwn
        /\ m.thumbs \subseteq {ThumbOf[Name(b)] : b \in BookPaths}
    BY DEF Mixes
  <1>2. \A f \in books : f \in Path /\ f \in DeviceFiles /\ IsUnder(f, Target)
                         /\ \E q \in Files : f = Target \o q
    <2> SUFFICES ASSUME NEW q \in Files
                 PROVE  Target \o q \in Path /\ Target \o q \in DeviceFiles /\ IsUnder(Target \o q, Target)
      BY <1>1 DEF Files
    <2> QED BY ConstantsArePaths, ConcatIs, UnderRoot DEF DeviceFiles
  <1>3. \A f \in thumbs : f \in Path /\ f \in DeviceFiles /\ IsUnder(f, ThumbFolder)
                          /\ Parent(f) = ThumbFolder
    <2> SUFFICES ASSUME NEW b \in BookPaths
                 PROVE  /\ ThumbPath(b) \in Path /\ ThumbPath(b) \in DeviceFiles
                        /\ IsUnder(ThumbPath(b), ThumbFolder) /\ Parent(ThumbPath(b)) = ThumbFolder
      BY <1>1 DEF ThumbPath
    <2> QED BY ThumbPathIs DEF DeviceFiles, ThumbPath
  <1>4. CASE \E p \in Stock : x = Dir(p)
    <2>1. PICK p \in Stock : x = Dir(p) BY <1>4
    <2>2. x.path = p /\ x.dir /\ x = Dir(x.path) BY <2>1 DEF Dir
    <2> QED BY <2>2, PathsAssumption DEF DeviceDirs, PathsFit
  <1>5. CASE books # {} /\ x \in Tree(Target, books)
    <2>1. PICK some \in books : TRUE BY <1>5
    <2> HIDE DEF books
    <2>2. /\ \/ x.path \in books /\ x = File(x.path)
             \/ /\ x = Dir(x.path)
                /\ \/ x.path = Target \/ IsUnder(Target, x.path)
                   \/ \E f \in books : IsUnder(f, x.path)
          /\ x.path \in Path /\ x.path # << >>
      <3>1. books \in SUBSET Path /\ \A f \in books : IsUnder(f, Target) BY <1>2
      <3> QED BY <1>5, <3>1, ConstantsArePaths, TreeIs
    <2>3. CASE x.path \in books /\ x = File(x.path)
      <3>1. ~x.dir BY <2>3 DEF File
      <3> QED BY <1>2, <2>2, <2>3, <3>1
    <2>4. CASE /\ x = Dir(x.path)
               /\ \/ x.path = Target \/ IsUnder(Target, x.path)
                  \/ \E f \in books : IsUnder(f, x.path)
      <3>1. x.dir BY <2>4 DEF Dir
      <3>2. \E f \in books : IsUnder(f, x.path)
        BY <1>2, <2>1, <2>2, <2>4, ConstantsArePaths, UnderUnder
      <3>3. x.path \in DeviceDirs BY <1>2, <2>2, <3>2 DEF DeviceDirs
      <3> QED BY <2>2, <2>4, <3>1, <3>3
    <2> QED BY <2>2, <2>3, <2>4
  <1>6. CASE x \in Tree(ThumbFolder, thumbs)
    <2> HIDE DEF thumbs
    <2>1. /\ \/ x.path \in thumbs /\ x = File(x.path)
             \/ /\ x = Dir(x.path)
                /\ \/ x.path = ThumbFolder \/ IsUnder(ThumbFolder, x.path)
                   \/ \E f \in thumbs : IsUnder(f, x.path)
          /\ x.path \in Path /\ x.path # << >>
      <3>1. thumbs \in SUBSET Path /\ \A f \in thumbs : IsUnder(f, ThumbFolder) BY <1>3
      <3> QED BY <1>6, <3>1, ConstantsArePaths, TreeIs
    <2>2. CASE x.path \in thumbs /\ x = File(x.path)
      <3>1. ~x.dir BY <2>2 DEF File
      <3> QED BY <1>3, <2>1, <2>2, <3>1
    <2>3. CASE /\ x = Dir(x.path)
               /\ \/ x.path = ThumbFolder \/ IsUnder(ThumbFolder, x.path)
                  \/ \E f \in thumbs : IsUnder(f, x.path)
      <3>1. x.dir BY <2>3 DEF Dir
      <3>2. x.path = ThumbFolder \/ IsUnder(ThumbFolder, x.path)
        <4> SUFFICES ASSUME NEW f \in thumbs, IsUnder(f, x.path)
                     PROVE  x.path = ThumbFolder \/ IsUnder(ThumbFolder, x.path)
          BY <2>3
        <4>1. f \in Path /\ Parent(f) = ThumbFolder /\ IsUnder(f, ThumbFolder) BY <1>3
        <4>2. ~IsUnder(x.path, ThumbFolder)
          <5>1. Len(x.path) \in Nat /\ Len(f) \in Nat /\ Len(ThumbFolder) \in Nat /\ f # << >>
            <6>1. Len(x.path) \in Nat /\ Len(f) \in Nat /\ Len(ThumbFolder) \in Nat
              BY <2>1, <4>1, ConstantsArePaths, LenProperties DEF Path
            <6> QED BY <4>1, <6>1, LongIsNotEmpty DEF IsUnder
          <5>2. Len(ThumbFolder) = Len(f) - 1 BY <4>1, <5>1, ParentIs
          <5> QED BY <5>1, <5>2 DEF IsUnder
        <4> QED BY <2>1, <4>1, <4>2, ConstantsArePaths, AboveOne
      <3>3. x.path \in DeviceDirs BY <2>1, <3>2 DEF DeviceDirs
      <3> QED BY <2>1, <2>3, <3>1, <3>3
    <2> QED BY <2>1, <2>2, <2>3
  <1>7. \/ \E p \in Stock : x = Dir(p)
        \/ books # {} /\ x \in Tree(Target, books)
        \/ x \in Tree(ThumbFolder, thumbs)
    BY DEF DeviceTree
  <1> QED BY <1>4, <1>5, <1>6, <1>7

(* What is found as a book is a file under the path of that book. *)
LEMMA BooksUnderIs ==
  ASSUME NEW ois \in SUBSET Objects, NEW root \in {Source, Target}
  PROVE  \A b \in BookPaths :
           b \in BooksUnder(ois, root) => root \o b \in FilesIn(ois)
  BY DEF BooksUnder, SubsetByPath, FilesIn

(* A book of the set is found under the root. *)
LEMMA BookIsUnder ==
  ASSUME NEW ois, NEW root \in {Source, Target}, NEW b \in BookPaths,
         root \o b \in FilesIn(ois)
  PROVE  b \in BooksUnder(ois, root)
  <1> DEFINE p == root \o b
  <1>1. PICK o \in ois : o.path = p /\ ~o.dir BY DEF FilesIn
  <1>2. root \in Path /\ root # << >> /\ b \in Path /\ b # << >> /\ root \in {Source, Target} \cup Files
    BY ConstantsArePaths
  <1>3. /\ p \in Path /\ Len(p) = Len(root) + Len(b)
        /\ Len(root) \in Nat \ {0} /\ Len(b) \in Nat \ {0}
        /\ \A k \in 1..Len(root) : p[k] = root[k]
    BY <1>2, ConcatIs, ParentIs
  <1>4. SubSeq(p, 1, Len(root)) = root BY <1>2, UnderRoot DEF IsUnder
  <1> HIDE DEF p
  <1>5. p # << >> BY <1>3, LongIsNotEmpty
  <1>6. /\ Parent(p) \in Path /\ Len(Parent(p)) = Len(p) - 1
        /\ \A k \in 1..(Len(p) - 1) : Parent(p)[k] = p[k]
    BY <1>3, <1>5, ParentIs
  <1> DEFINE n == Len(root)
  <1>7. n \in 1..Len(Parent(p)) /\ n \in 0..(Len(p) - 1) /\ Len(p) - 1 \in 0..Len(p) /\ n \in 1..n
    BY <1>3, <1>6
  <1>8. SubSeq(Parent(p), 1, n) = root
    <2>1. SubSeq(SubSeq(p, 1, Len(p) - 1), 1, n) = SubSeq(p, 1, n) BY <1>3, <1>7, UpOfUp
    <2> QED BY <1>4, <2>1 DEF Parent
  <1>9. Parent(p)[n] = root[n] BY <1>3, <1>6, <1>7
  <1>10. StartsWith(root[n], root[n])
    <2>1. n \in DOMAIN root BY <1>2, <1>3, LenProperties DEF Path
    <2> QED BY <2>1, PathsAssumption DEF PathsFit
  <1>11. HasPrefix(Parent(p), root)
    <2>1. HasPrefix(Parent(p), SubSeq(Parent(p), 1, n)) BY <1>6, <1>7, <1>9, <1>10, HasPrefixOfUp
    <2> QED BY <1>8, <2>1
  <1> QED BY <1>1, <1>11 DEF BooksUnder, SubsetByPath, p

(* A run that has read its sets is planned soundly: nothing has been       *)
(* planned, so what is foretold is what was read.                          *)
LEMMA BeginsSound ==
  ASSUME NEW m \in Mixes, local = LocalTree(m), device = DeviceTree(m),
         Begin(Scan(local), Scan(device))
  PROVE  Disks /\ PlanIsSound /\ next = 1 /\ plan.actions = << >>
  <1>1. /\ plan = [actions |-> << >>, src |-> Scan(local), dst |-> Scan(device),
                   thumbs |-> ThumbsAmong(Scan(device))]
        /\ next = 1
    BY DEF Begin
  <1>2. /\ plan.actions = << >> /\ plan.src = Scan(local) /\ plan.dst = Scan(device)
        /\ plan.thumbs = ThumbsAmong(Scan(device))
    BY <1>1
  <1>3. /\ \A x \in local : x = File(x.path) \/ x = Dir(x.path)
        /\ \A x \in local : x.path \in Path /\ x.path # << >>
        /\ \A x \in local : x.path \in IF x.dir THEN LocalDirs ELSE LocalFiles
        /\ SourceTree(Scan(local))
    BY LocalTreeIs
  <1>4. /\ \A x \in device : x = File(x.path) \/ x = Dir(x.path)
        /\ \A x \in device : x.path \in Path /\ x.path # << >>
        /\ \A x \in device : x.path \in IF x.dir THEN DeviceDirs ELSE DeviceFiles
    BY DeviceTreeIs
  <1>5. Disks
    <2>1. \A x \in local \cup device : x = [path |-> x.path, dir |-> x.dir] /\ x.dir \in BOOLEAN
      BY <1>3, <1>4, OneOrTheOther
    <2>2. \A x \in local : x.path \in IF x.dir THEN LocalDirs ELSE LocalFiles BY <1>3
    <2>3. \A x \in device : x.dir => x.path \in DeviceDirs BY <1>4
    <2> QED BY <2>1, <2>2, <2>3 DEF Disks
  <1>6. /\ Scan(local) \subseteq Objects /\ Bare(Scan(local)) = local
    BY <1>3, ScanIs
  <1>7. /\ Scan(device) \subseteq Objects
        /\ \A p : p \in FilesIn(Scan(device)) <=> File(p) \in device
        /\ \A p : p \in DirsIn(Scan(device)) <=> Dir(p) \in device
    BY <1>4, ScanIs
  <1>8. TargetKnown(Scan(device))
    <2>1. ASSUME NEW p, File(p) \in device PROVE p \in DeviceFiles
      <3>1. File(p).path = p /\ ~File(p).dir BY DEF File
      <3> QED BY <2>1, <3>1, <1>4
    <2>2. ASSUME NEW p, Dir(p) \in device PROVE p \in DeviceDirs
      <3>1. Dir(p).path = p /\ Dir(p).dir BY DEF Dir
      <3> QED BY <2>2, <3>1, <1>4
    <2> QED BY <1>7, <2>1, <2>2 DEF TargetKnown
  <1>9. ASSUME NEW e \in ThumbsAmong(Scan(device))
        PROVE  e \in Thumbs /\ (Len(e.key) = 1 => e.object.path = Append(ThumbFolder, e.key[1]))
    <2>1. PICK o \in Scan(device) :
             ~o.dir /\ Parent(o.path) = ThumbFolder /\ e = [key |-> <<Name(o.path)>>, object |-> o]
      BY DEF ThumbsAmong
    <2>2. o \in Objects /\ o.path \in Path /\ o.path # << >> BY <1>7, <2>1 DEF Objects
    <2>3. e.key = <<Name(o.path)>> /\ e.object = o BY <2>1
    <2>4. Name(o.path) \in STRING BY <2>2, ParentIs
    <2>5. <<Name(o.path)>> \in Path
      <3> DEFINE t == Name(o.path)
      <3>1. t \in STRING BY <2>4
      <3> HIDE DEF t
      <3>2. <<t>> \in Path BY <3>1, OneIs DEF Path
      <3> QED BY <3>2 DEF t
    <2>6. o.path = Append(ThumbFolder, Name(o.path))
      <3> DEFINE a == Append(ThumbFolder, Name(o.path))
      <3>1. a \in Path /\ a # << >> /\ Parent(a) = ThumbFolder /\ Name(a) = Name(o.path)
        BY <2>4, ConstantsArePaths, AppendIs
      <3> HIDE DEF a
      <3> QED BY <2>1, <2>2, <3>1, SameParts DEF a
    <2>7. e.key[1] = Name(o.path) BY <2>3
    <2>8. e.object.path = Append(ThumbFolder, e.key[1]) BY <2>3, <2>6, <2>7
    <2>9. e \in Thumbs BY <2>1, <2>2, <2>5 DEF Thumbs
    <2> QED BY <2>8, <2>9
  <1>10. plan \in Plans
    <2>1. << >> \in Seq(Actions) BY EmptySeq
    <2>2. ThumbsAmong(Scan(device)) \subseteq Thumbs BY <1>9
    <2> QED BY <1>1, <1>6, <1>7, <2>1, <2>2 DEF Plans
  <1>11. Gone(plan.actions, next) = {}
    <2>1. Len(plan.actions) = 0 BY <1>2
    <2>2. next..Len(plan.actions) = {} BY <1>1, <2>1
    <2> QED BY <2>2 DEF Gone
  <1>12. LocalForetold(plan, next) BY <1>2, <1>6, <1>11 DEF LocalForetold
  <1>13. DeviceForetold(plan, next)
    <2>1. Len(plan.actions) = 0 BY <1>2
    <2>2. next..Len(plan.actions) = {} BY <1>1, <2>1
    <2>3. \A p : WillBe(plan.actions, next, device, p) <=> File(p) \in device
      BY <2>2 DEF WillBe, WillStay, WillBeMade
    <2> QED BY <2>3, <1>2, <1>7 DEF DeviceForetold
  <1>14. ThumbsKnown(plan.thumbs) BY <1>2, <1>9 DEF ThumbsKnown
  <1> QED BY <1>1, <1>2, <1>3, <1>5, <1>8, <1>10, <1>12, <1>13, <1>14 DEF PlanIsSound, SoundFrom

(* The invariant holds when a run begins. *)
LEMMA InitInv == Init => Inv
  <1> SUFFICES ASSUME Init PROVE Inv OBVIOUS
  <1>1. PICK m \in Mixes :
          /\ local = LocalTree(m) /\ device = DeviceTree(m)
          /\ history \in SUBSET BookPaths
          /\ Begin(Scan(local), Scan(device))
    BY Zenon DEF Init
  <1>2. Disks /\ PlanIsSound /\ next = 1 /\ plan.actions = << >> BY <1>1, BeginsSound
  <1>3. /\ phase = "case7" /\ todo = Case7
        /\ localBooks = BooksUnder(plan.src, Source)
        /\ deviceBooks = BooksUnder(plan.dst, Target)
    BY <1>1 DEF Begin
  <1>4. localBooks \subseteq BookPaths /\ deviceBooks \subseteq BookPaths
    BY <1>3 DEF BooksUnder
  <1>5. Types
    BY <1>1, <1>2, <1>3, <1>4 DEF Types, Case7
  <1>6. TodoIsOfCase BY <1>3 DEF TodoIsOfCase, Planning
  <1>7. BooksArePlanned
    <2>1. plan.src \subseteq Objects /\ plan.dst \subseteq Objects
      BY <1>2 DEF PlanIsSound, SoundFrom, Plans
    <2>2. LocalPlanned = localBooks /\ DevicePlanned = deviceBooks
      BY <1>3 DEF LocalPlanned, DevicePlanned
    <2>3. ASSUME NEW b \in BookPaths
          PROVE  Source \o b \in FilesIn(plan.src) <=> b \in localBooks
      BY <1>3, <2>1, BooksUnderIs, BookIsUnder
    <2>4. ASSUME NEW b \in BookPaths
          PROVE  Target \o b \in FilesIn(plan.dst) <=> b \in deviceBooks
      BY <1>3, <2>1, BooksUnderIs, BookIsUnder
    <2> QED BY <2>2, <2>3, <2>4 DEF BooksArePlanned
  <1>8. RecordedAreLocal BY <1>3 DEF RecordedAreLocal
  <1>9. OnlyKnownGo
    <2>1. Len(plan.actions) = 0 /\ DOMAIN plan.actions = {} BY <1>2
    <2>2. Gone(plan.actions, 1) = {} BY <2>1 DEF Gone
    <2>3. Removed(plan.actions) = {} BY <2>1 DEF Removed
    <2> QED BY <2>2, <2>3 DEF OnlyKnownGo
  <1>10. CopiesAreKnown
    <2>1. DOMAIN plan.actions = {} BY <1>2
    <2> QED BY <2>1 DEF CopiesAreKnown, Copies
  <1>11. SideFilesPlanned BY <1>3 DEF SideFilesPlanned, Copying
  <1> QED BY <1>2, <1>5, <1>6, <1>7, <1>8, <1>9, <1>10, <1>11 DEF Inv

(***************************************************************************)
(* Planning keeps the invariant.                                           *)
(***************************************************************************)
LEMMA SoundWhilePlanning ==
  ASSUME NEW pl
  PROVE  SoundFrom(pl, 1) <=> Sound(pl)
  BY DEF SoundFrom, Sound

(* The files of the plan that are books, after a change that touches none  *)
(* of the books but one.                                                   *)
OthersStay(pl, r, b) ==
  \A c \in BookPaths \ {b} :
    /\ Source \o c \in FilesIn(r.src) <=> Source \o c \in FilesIn(pl.src)
    /\ Target \o c \in FilesIn(r.dst) <=> Target \o c \in FilesIn(pl.dst)

(* The plan of one book leaves the other books alone. *)
LEMMA BooksAfter ==
  ASSUME NEW pl, NEW r, NEW b \in BookPaths, NEW gone, NEW there, NEW copied,
         gone \subseteq {Source \o b} \cup HereIndexes(b, Source),
         there \subseteq OnDevice(b),
         Changes(pl, r, gone, there, copied)
  PROVE  OthersStay(pl, r, b)
  <1> SUFFICES ASSUME NEW c \in BookPaths, c # b
               PROVE  Source \o c \notin gone /\ Target \o c \notin there
    BY DEF Changes, OthersStay
  <1>1. Source \o c \notin HereIndexes(b, Source) /\ Target \o c \notin HereIndexes(b, Target)
    BY IndexIsNoBook
  <1>2. Target \o c # ThumbPath(b) BY ConstantsArePaths, NoBookIsThumb
  <1>3. Source \o c # Source \o b /\ Target \o c # Target \o b
    BY ConstantsArePaths, ConcatInjective
  <1> QED BY <1>1, <1>2, <1>3 DEF OnDevice

(* What a plan does because of a book is within the files of that book. *)
LEMMA ThereIsOfBook ==
  ASSUME NEW b \in BookPaths
  PROVE  /\ OnDevice(b) \subseteq FilesOf(b)
         /\ HereIndexes(b, Source) \subseteq IndexesOf(b, Source)
  BY DEF OnDevice, FilesOf, HereIndexes, ThumbPath

(* Planning to delete a local book keeps the invariant. *)
LEMMA PlanCase7Inv ==
  ASSUME Inv, NEW b \in BookPaths, PlanCase7(b)
  PROVE  Inv'
  <1>1. /\ phase = "case7" /\ phase' = "case7" /\ b \in todo /\ todo' = todo \ {b}
        /\ plan' = Case7Of(plan, b)
        /\ UNCHANGED <<localBooks, deviceBooks, local, device, history, changed, thumbsOn, next>>
    BY Zenon DEF PlanCase7, PlanBook, PlanKeeps, Case7Of
  <1>2. next = 1 /\ Types /\ Disks BY <1>1 DEF Inv, Types, Planning
  <1>3. Sound(plan) BY <1>2, SoundWhilePlanning DEF Inv, PlanIsSound
  <1>4. b \in Case7 /\ todo \subseteq Case7 BY <1>1 DEF Inv, TodoIsOfCase
  <1>5. Case7' = Case7 BY <1>1 DEF Case7
  <1>6. b \in localBooks /\ b \in LocalPlanned BY <1>1, <1>4 DEF Case7, LocalPlanned
  <1>7. Source \o b \in FilesIn(plan.src) BY <1>6 DEF Inv, BooksArePlanned
  <1> DEFINE gone == {Source \o b} \cup HereIndexes(b, Source)
             there == {ThumbPath(b)}
             r == Case7Of(plan, b)
  <1>8. Changes(plan, r, gone, there, {}) /\ Source \o b \in Gone(r.actions, 1)
    BY <1>3, <1>7, Case7Does
  <1>9. there \subseteq OnDevice(b) /\ Target \o b \notin there
    BY ConstantsArePaths, NoBookIsThumb DEF OnDevice
  <1> HIDE DEF r, there
  <1>10. Sound(r) BY <1>8 DEF Changes
  <1>11. plan' = r BY <1>1 DEF r
  <1>12. Types'
    BY <1>1, <1>2 DEF Types, Planning
  <1>13. Disks' BY <1>1, <1>2 DEF Disks
  <1>14. PlanIsSound'
    <2>1. SoundFrom(r, next) BY <1>2, <1>10, SoundWhilePlanning
    <2> QED BY <1>1, <1>11, <2>1 DEF PlanIsSound, SoundFrom, LocalForetold, DeviceForetold
  <1>15. TodoIsOfCase' BY <1>1, <1>4, <1>5 DEF TodoIsOfCase, Planning
  <1>16. BooksArePlanned'
    <2>1. LocalPlanned' = LocalPlanned \ {b} /\ DevicePlanned' = DevicePlanned
      <3>1. LocalPlanned = localBooks \ (Case7 \ todo) BY <1>1 DEF LocalPlanned
      <3>2. LocalPlanned' = localBooks \ (Case7 \ (todo \ {b})) BY <1>1, <1>5 DEF LocalPlanned
      <3>3. DevicePlanned' = DevicePlanned BY <1>1 DEF DevicePlanned
      <3> QED BY <1>4, <3>1, <3>2, <3>3
    <2>2. OthersStay(plan, r, b)
      <3>1. gone \subseteq {Source \o b} \cup HereIndexes(b, Source) OBVIOUS
      <3> HIDE DEF gone
      <3> QED BY <1>8, <1>9, <3>1, BooksAfter
    <2>3. /\ Source \o b \notin FilesIn(r.src)
          /\ Target \o b \in FilesIn(r.dst) <=> Target \o b \in FilesIn(plan.dst)
      BY <1>8, <1>9 DEF Changes
    <2>4. ASSUME NEW c \in BookPaths
          PROVE  /\ Source \o c \in FilesIn(r.src) <=> c \in LocalPlanned \ {b}
                 /\ Target \o c \in FilesIn(r.dst) <=> c \in DevicePlanned
      BY <2>2, <2>3 DEF Inv, BooksArePlanned, OthersStay
    <2> QED BY <1>11, <2>1, <2>4 DEF BooksArePlanned
  <1>17. RecordedAreLocal' BY <1>1 DEF RecordedAreLocal
  <1>18. OnlyKnownGo'
    <2>1. Handled = Case7 \ todo /\ Handled' = Case7 \ (todo \ {b})
      BY <1>1, <1>5 DEF Handled
    <2>2. ToBeDropped' = {c \in Case7 \ (todo \ {b}) :
              Source \o c \in Gone(r.actions, 1) \/ Target \o c \in Removed(r.actions)}
      BY <1>11, <2>1 DEF ToBeDropped
    <2>3. ToBeDropped \cup {b} \subseteq ToBeDropped'
      <3>1. Gone(plan.actions, 1) \subseteq Gone(r.actions, 1)
            /\ Removed(plan.actions) \subseteq Removed(r.actions)
        BY <1>8 DEF Changes
      <3>2. ToBeDropped = {c \in Case7 \ todo :
              Source \o c \in Gone(plan.actions, 1) \/ Target \o c \in Removed(plan.actions)}
        BY <2>1 DEF ToBeDropped
      <3> QED BY <1>4, <1>8, <2>2, <3>1, <3>2
    <2>4. ToBeCopied \subseteq ToBeCopied'
      <3>1. Copies(plan.actions) \subseteq Copies(r.actions) BY <1>8 DEF Changes
      <3> QED BY <1>1, <1>11, <3>1 DEF ToBeCopied
    <2>5. Gone(r.actions, 1) \subseteq InnerDirs \cup
            UNION {{Source \o c} \cup IndexesOf(c, Source) : c \in ToBeDropped'}
      <3>1. Gone(r.actions, 1) \subseteq Gone(plan.actions, 1) \cup gone \cup InnerDirs
        BY <1>8 DEF Changes
      <3>2. gone \subseteq {Source \o b} \cup IndexesOf(b, Source) BY ThereIsOfBook
      <3> QED BY <2>3, <3>1, <3>2 DEF Inv, OnlyKnownGo
    <2>6. Removed(r.actions) \subseteq
            UNION {FilesOf(c) : c \in ToBeDropped' \cup ToBeCopied'}
      <3>1. Removed(r.actions) \subseteq Removed(plan.actions) \cup there
        BY <1>8 DEF Changes
      <3>2. there \subseteq FilesOf(b) BY <1>9, ThereIsOfBook
      <3> QED BY <2>3, <2>4, <3>1, <3>2 DEF Inv, OnlyKnownGo
    <2> QED BY <1>11, <2>5, <2>6 DEF OnlyKnownGo
  <1>19. CopiesAreKnown'
    <2>1. Copies(r.actions) \subseteq Copies(plan.actions) BY <1>8 DEF Changes
    <2> QED BY <1>1, <1>11, <2>1 DEF Inv, CopiesAreKnown, Copying
  <1>20. SideFilesPlanned' BY <1>1 DEF SideFilesPlanned, Copying
  <1> QED BY <1>12, <1>13, <1>14, <1>15, <1>16, <1>17, <1>18, <1>19, <1>20 DEF Inv

(* Planning to delete a book of the device keeps the invariant. *)
LEMMA PlanCase6Inv ==
  ASSUME Inv, NEW b \in BookPaths, PlanCase6(b)
  PROVE  Inv'
  <1>1. /\ phase = "case6" /\ phase' = "case6" /\ b \in todo /\ todo' = todo \ {b}
        /\ plan' = Case6Of(plan, b)
        /\ UNCHANGED <<localBooks, deviceBooks, local, device, history, changed, thumbsOn, next>>
    BY Zenon DEF PlanCase6, PlanBook, PlanKeeps, Case6Of
  <1>2. next = 1 /\ Types /\ Disks BY <1>1 DEF Inv, Types, Planning
  <1>3. Sound(plan) BY <1>2, SoundWhilePlanning DEF Inv, PlanIsSound
  <1>4. b \in Case6 /\ todo \subseteq Case6 BY <1>1 DEF Inv, TodoIsOfCase
  <1>5. Case6' = Case6 BY <1>1 DEF Case6
  <1>6. b \notin localBooks /\ b \in DevicePlanned
    BY <1>1, <1>4 DEF Case6, DevicePlanned
  <1>7. Target \o b \in FilesIn(plan.dst) BY <1>6 DEF Inv, BooksArePlanned
  <1> DEFINE r == Case6Of(plan, b)
  <1>8. /\ Changes(plan, r, {}, OnDevice(b), {}) /\ Target \o b \in Removed(r.actions)
        /\ Target \o b \notin FilesIn(r.dst)
    <2>1. /\ Changes(plan, r, {}, OnDevice(b), {}) /\ Target \o b \in Removed(r.actions)
          /\ (OnDevice(b) \ {ThumbPath(b)}) \cap FilesIn(r.dst) = {}
      BY <1>3, <1>7, Case6Does
    <2>2. Target \o b \in OnDevice(b) \ {ThumbPath(b)}
      BY ConstantsArePaths, NoBookIsThumb DEF OnDevice
    <2> QED BY <2>1, <2>2
  <1> HIDE DEF r
  <1>10. Sound(r) BY <1>8 DEF Changes
  <1>11. plan' = r BY <1>1 DEF r
  <1>12. Types'
    BY <1>1, <1>2 DEF Types, Planning
  <1>13. Disks' BY <1>1, <1>2 DEF Disks
  <1>14. PlanIsSound'
    <2>1. SoundFrom(r, next) BY <1>2, <1>10, SoundWhilePlanning
    <2> QED BY <1>1, <1>11, <2>1 DEF PlanIsSound, SoundFrom, LocalForetold, DeviceForetold
  <1>15. TodoIsOfCase' BY <1>1, <1>4, <1>5 DEF TodoIsOfCase, Planning
  <1>16. BooksArePlanned'
    <2>1. LocalPlanned' = LocalPlanned /\ DevicePlanned' = DevicePlanned \ {b}
      <3>1. DevicePlanned = deviceBooks \ (Case6 \ todo) BY <1>1 DEF DevicePlanned
      <3>2. DevicePlanned' = deviceBooks \ (Case6 \ (todo \ {b})) BY <1>1, <1>5 DEF DevicePlanned
      <3>3. LocalPlanned' = LocalPlanned BY <1>1 DEF LocalPlanned
      <3> QED BY <1>4, <3>1, <3>2, <3>3
    <2>2. OthersStay(plan, r, b)
      <3>1. {} \subseteq {Source \o b} \cup HereIndexes(b, Source) OBVIOUS
      <3>2. OnDevice(b) \subseteq OnDevice(b) OBVIOUS
      <3> QED BY <1>8, <3>1, <3>2, BooksAfter
    <2>3. Source \o b \in FilesIn(r.src) <=> Source \o b \in FilesIn(plan.src)
      BY <1>8 DEF Changes
    <2>4. ASSUME NEW c \in BookPaths
          PROVE  /\ Source \o c \in FilesIn(r.src) <=> c \in LocalPlanned
                 /\ Target \o c \in FilesIn(r.dst) <=> c \in DevicePlanned \ {b}
      BY <1>8, <2>2, <2>3 DEF Inv, BooksArePlanned, OthersStay
    <2> QED BY <1>11, <2>1, <2>4 DEF BooksArePlanned
  <1>17. RecordedAreLocal' BY <1>1 DEF RecordedAreLocal
  <1>18. OnlyKnownGo'
    <2>1. Handled = BookPaths \ localBooks /\ Handled' = BookPaths \ localBooks
      BY <1>1 DEF Handled
    <2>2. ToBeDropped' = {c \in BookPaths \ localBooks :
              Source \o c \in Gone(r.actions, 1) \/ Target \o c \in Removed(r.actions)}
      BY <1>11, <2>1 DEF ToBeDropped
    <2>3. ToBeDropped \cup {b} \subseteq ToBeDropped'
      <3>1. Gone(plan.actions, 1) \subseteq Gone(r.actions, 1)
            /\ Removed(plan.actions) \subseteq Removed(r.actions)
        BY <1>8 DEF Changes
      <3>2. ToBeDropped = {c \in BookPaths \ localBooks :
              Source \o c \in Gone(plan.actions, 1) \/ Target \o c \in Removed(plan.actions)}
        BY <2>1 DEF ToBeDropped
      <3> QED BY <1>6, <1>8, <2>2, <3>1, <3>2
    <2>4. ToBeCopied \subseteq ToBeCopied'
      <3>1. Copies(plan.actions) \subseteq Copies(r.actions) BY <1>8 DEF Changes
      <3> QED BY <1>1, <1>11, <3>1 DEF ToBeCopied
    <2>5. Gone(r.actions, 1) \subseteq InnerDirs \cup
            UNION {{Source \o c} \cup IndexesOf(c, Source) : c \in ToBeDropped'}
      <3>1. Gone(r.actions, 1) \subseteq Gone(plan.actions, 1) \cup {} \cup InnerDirs
        BY <1>8 DEF Changes
      <3> QED BY <2>3, <3>1 DEF Inv, OnlyKnownGo
    <2>6. Removed(r.actions) \subseteq
            UNION {FilesOf(c) : c \in ToBeDropped' \cup ToBeCopied'}
      <3>1. Removed(r.actions) \subseteq Removed(plan.actions) \cup OnDevice(b)
        BY <1>8 DEF Changes
      <3>2. OnDevice(b) \subseteq FilesOf(b) BY ThereIsOfBook
      <3> QED BY <2>3, <2>4, <3>1, <3>2 DEF Inv, OnlyKnownGo
    <2> QED BY <1>11, <2>5, <2>6 DEF OnlyKnownGo
  <1>19. CopiesAreKnown'
    <2>1. Copies(r.actions) \subseteq Copies(plan.actions) BY <1>8 DEF Changes
    <2> QED BY <1>1, <1>11, <2>1 DEF Inv, CopiesAreKnown, Copying
  <1>20. SideFilesPlanned' BY <1>1 DEF SideFilesPlanned, Copying
  <1> QED BY <1>12, <1>13, <1>14, <1>15, <1>16, <1>17, <1>18, <1>19, <1>20 DEF Inv

(* Planning to copy a book keeps the invariant. *)
LEMMA PlanCase3Inv ==
  ASSUME Inv, NEW b \in BookPaths, PlanCase3(b)
  PROVE  Inv'
  <1>1. /\ phase = "case3" /\ phase' = "case3" /\ b \in todo /\ todo' = todo \ {b}
        /\ plan' = Case3Of(plan, b)
        /\ UNCHANGED <<localBooks, deviceBooks, local, device, history, changed, thumbsOn, next>>
    BY Zenon DEF PlanCase3, PlanBook, PlanKeeps, Case3Of
  <1>2. next = 1 /\ Types /\ Disks BY <1>1 DEF Inv, Types, Planning
  <1>3. Sound(plan) BY <1>2, SoundWhilePlanning DEF Inv, PlanIsSound
  <1>4. b \in Case3 /\ todo \subseteq Case3 BY <1>1 DEF Inv, TodoIsOfCase
  <1>5. Case3' = Case3 BY <1>1 DEF Case3
  <1>6. b \in localBooks BY <1>4 DEF Case3
  <1> DEFINE r == Case3Of(plan, b)
  <1>8. /\ Changes(plan, r, {}, OnDevice(b), CopiedFor(b))
        /\ Source \o b \in Copies(r.actions) /\ Target \o b \in FilesIn(r.dst)
    BY <1>3, Case3Does
  <1>9. /\ FilesIn(plan.dst) \subseteq FilesIn(r.dst)
        /\ \A n \in {1, 2} : Source \o Index(b, n) \in FilesIn(plan.src) =>
                               Target \o Index(b, n) \in FilesIn(r.dst)
        /\ thumbsOn /\ ThumbOf[Name(b)] # NoThumb => ThumbPath(b) \in FilesIn(r.dst)
    BY <1>3, Case3Does
  <1> HIDE DEF r
  <1>10. Sound(r) BY <1>8 DEF Changes
  <1>11. plan' = r BY <1>1 DEF r
  <1>12. Types'
    BY <1>1, <1>2 DEF Types, Planning
  <1>13. Disks' BY <1>1, <1>2 DEF Disks
  <1>14. PlanIsSound'
    <2>1. SoundFrom(r, next) BY <1>2, <1>10, SoundWhilePlanning
    <2> QED BY <1>1, <1>11, <2>1 DEF PlanIsSound, SoundFrom, LocalForetold, DeviceForetold
  <1>15. TodoIsOfCase' BY <1>1, <1>4, <1>5 DEF TodoIsOfCase, Planning
  <1>16. BooksArePlanned'
    <2>1. LocalPlanned' = LocalPlanned /\ DevicePlanned' = DevicePlanned \cup {b}
      <3>1. DevicePlanned = deviceBooks \cup (Case3 \ todo) BY <1>1 DEF DevicePlanned
      <3>2. DevicePlanned' = deviceBooks \cup (Case3 \ (todo \ {b}))
        BY <1>1, <1>5 DEF DevicePlanned
      <3>3. LocalPlanned' = LocalPlanned BY <1>1 DEF LocalPlanned
      <3> QED BY <1>4, <3>1, <3>2, <3>3
    <2>2. OthersStay(plan, r, b)
      <3>1. {} \subseteq {Source \o b} \cup HereIndexes(b, Source) OBVIOUS
      <3>2. OnDevice(b) \subseteq OnDevice(b) OBVIOUS
      <3> QED BY <1>8, <3>1, <3>2, BooksAfter
    <2>3. Source \o b \in FilesIn(r.src) <=> Source \o b \in FilesIn(plan.src)
      BY <1>8 DEF Changes
    <2>4. ASSUME NEW c \in BookPaths
          PROVE  /\ Source \o c \in FilesIn(r.src) <=> c \in LocalPlanned
                 /\ Target \o c \in FilesIn(r.dst) <=> c \in DevicePlanned \cup {b}
      BY <1>8, <2>2, <2>3 DEF Inv, BooksArePlanned, OthersStay
    <2> QED BY <1>11, <2>1, <2>4 DEF BooksArePlanned
  <1>17. RecordedAreLocal' BY <1>1 DEF RecordedAreLocal, Inv
  <1>18. OnlyKnownGo'
    <2>1. Handled = BookPaths \ localBooks /\ Handled' = BookPaths \ localBooks
      BY <1>1 DEF Handled
    <2>2. /\ Gone(plan.actions, 1) \subseteq Gone(r.actions, 1)
          /\ Removed(plan.actions) \subseteq Removed(r.actions)
          /\ Copies(plan.actions) \subseteq Copies(r.actions)
      BY <1>8 DEF Changes
    <2>3. ToBeDropped \subseteq ToBeDropped'
      BY <1>11, <2>1, <2>2 DEF ToBeDropped
    <2>4. ToBeCopied \cup {b} \subseteq ToBeCopied'
      BY <1>1, <1>6, <1>8, <1>11, <2>2 DEF ToBeCopied
    <2>5. Gone(r.actions, 1) \subseteq InnerDirs \cup
            UNION {{Source \o c} \cup IndexesOf(c, Source) : c \in ToBeDropped'}
      <3>1. Gone(r.actions, 1) \subseteq Gone(plan.actions, 1) \cup {} \cup InnerDirs
        BY <1>8 DEF Changes
      <3> QED BY <2>3, <3>1 DEF Inv, OnlyKnownGo
    <2>6. Removed(r.actions) \subseteq
            UNION {FilesOf(c) : c \in ToBeDropped' \cup ToBeCopied'}
      <3>1. Removed(r.actions) \subseteq Removed(plan.actions) \cup OnDevice(b)
        BY <1>8 DEF Changes
      <3>2. OnDevice(b) \subseteq FilesOf(b) BY ThereIsOfBook
      <3> QED BY <2>3, <2>4, <3>1, <3>2 DEF Inv, OnlyKnownGo
    <2> QED BY <1>11, <2>5, <2>6 DEF OnlyKnownGo
  <1>19. Copying' = Copying \cup {b} BY <1>1, <1>4, <1>5 DEF Copying
  <1>20. CopiesAreKnown'
    <2>1. Copies(r.actions) \subseteq Copies(plan.actions) \cup CopiedFor(b)
      BY <1>8 DEF Changes
    <2> QED BY <1>11, <1>19, <2>1 DEF Inv, CopiesAreKnown
  <1>21. SideFilesPlanned'
    <2>1. ASSUME NEW c \in Copying \cup {b}
          PROVE  /\ \A n \in {1, 2} : Source \o Index(c, n) \in FilesIn(r.src) =>
                                         Target \o Index(c, n) \in FilesIn(r.dst)
                 /\ thumbsOn /\ ThumbOf[Name(c)] # NoThumb => ThumbPath(c) \in FilesIn(r.dst)
      <3>1. FilesIn(r.src) = FilesIn(plan.src) BY <1>8 DEF Changes
      <3>2. CASE c = b BY <1>9, <3>1, <3>2
      <3>3. CASE c \in Copying BY <1>9, <3>1, <3>3 DEF Inv, SideFilesPlanned
      <3> QED BY <3>2, <3>3
    <2> QED BY <1>1, <1>11, <1>19, <2>1 DEF SideFilesPlanned
  <1> QED BY <1>12, <1>13, <1>14, <1>15, <1>16, <1>17, <1>18, <1>19, <1>20, <1>21 DEF Inv

(* After case 7 its books are none of localBooks any more. *)
LEMMA EndCase7Inv == Inv /\ EndCase7 => Inv'
  <1> SUFFICES ASSUME Inv, EndCase7 PROVE Inv' OBVIOUS
  <1>1. /\ phase = "case7" /\ todo = {} /\ phase' = "case6" /\ todo' = Case6'
        /\ localBooks' = localBooks \ Case7
        /\ UNCHANGED <<deviceBooks, plan, local, device, history, changed, thumbsOn, next>>
    BY DEF EndCase7, PlanKeeps
  <1>2. Types'
    BY <1>1 DEF Inv, Types, Planning, Case6
  <1>3. Disks' BY <1>1 DEF Inv, Disks
  <1>4. PlanIsSound'
    BY <1>1 DEF Inv, PlanIsSound, SoundFrom, LocalForetold, DeviceForetold
  <1>5. TodoIsOfCase' BY <1>1 DEF TodoIsOfCase, Planning
  <1>6. BooksArePlanned'
    <2>1. LocalPlanned' = LocalPlanned BY <1>1 DEF LocalPlanned
    <2>2. DevicePlanned' = DevicePlanned BY <1>1 DEF DevicePlanned
    <2> QED BY <1>1, <2>1, <2>2 DEF Inv, BooksArePlanned
  <1>7. RecordedAreLocal' BY <1>1 DEF RecordedAreLocal
  <1>8. OnlyKnownGo'
    <2>1. Handled \subseteq Handled' BY <1>1 DEF Handled, Case7, Inv, Types
    <2>2. ToBeDropped \subseteq ToBeDropped' BY <1>1, <2>1 DEF ToBeDropped
    <2>3. ToBeCopied = {} BY <1>1 DEF ToBeCopied, Inv, CopiesAreKnown, Copying
    <2> QED BY <1>1, <2>2, <2>3 DEF Inv, OnlyKnownGo
  <1>9. CopiesAreKnown' /\ SideFilesPlanned'
    BY <1>1 DEF Inv, CopiesAreKnown, SideFilesPlanned, Copying
  <1> QED BY <1>2, <1>3, <1>4, <1>5, <1>6, <1>7, <1>8, <1>9 DEF Inv

(* After case 6 its books are none of deviceBooks any more. *)
LEMMA EndCase6Inv == Inv /\ EndCase6 => Inv'
  <1> SUFFICES ASSUME Inv, EndCase6 PROVE Inv' OBVIOUS
  <1>1. /\ phase = "case6" /\ todo = {} /\ phase' = "case3" /\ todo' = Case3'
        /\ deviceBooks' = deviceBooks \ Case6
        /\ UNCHANGED <<localBooks, plan, local, device, history, changed, thumbsOn, next>>
    BY DEF EndCase6, PlanKeeps
  <1>2. Types'
    BY <1>1 DEF Inv, Types, Planning, Case3
  <1>3. Disks' BY <1>1 DEF Inv, Disks
  <1>4. PlanIsSound'
    BY <1>1 DEF Inv, PlanIsSound, SoundFrom, LocalForetold, DeviceForetold
  <1>5. TodoIsOfCase' BY <1>1 DEF TodoIsOfCase, Planning
  <1>6. BooksArePlanned'
    <2>1. LocalPlanned' = LocalPlanned BY <1>1 DEF LocalPlanned
    <2>2. DevicePlanned' = DevicePlanned BY <1>1 DEF DevicePlanned
    <2> QED BY <1>1, <2>1, <2>2 DEF Inv, BooksArePlanned
  <1>7. RecordedAreLocal' BY <1>1 DEF RecordedAreLocal, Case6
  <1>8. OnlyKnownGo'
    BY <1>1 DEF Inv, OnlyKnownGo, ToBeDropped, ToBeCopied, Handled
  <1>9. CopiesAreKnown' /\ SideFilesPlanned'
    BY <1>1 DEF Inv, CopiesAreKnown, SideFilesPlanned, Copying
  <1> QED BY <1>2, <1>3, <1>4, <1>5, <1>6, <1>7, <1>8, <1>9 DEF Inv

(* A step that leaves the plan, the disks and the books alone.             *)
LEMMA PhaseInv ==
  ASSUME Inv, todo = {}, phase \in {"case3", "run"},
         phase' \in {"run", "done", "failed"},
         phase' = "done" => next > Len(plan.actions),
         UNCHANGED <<local, device, history, changed, thumbsOn, todo, localBooks,
                     deviceBooks, plan, next>>
  PROVE  Inv'
  <1>1. Types' BY DEF Inv, Types, Planning
  <1>2. Disks' BY DEF Inv, Disks
  <1>3. PlanIsSound' BY DEF Inv, PlanIsSound, SoundFrom, LocalForetold, DeviceForetold
  <1>4. TodoIsOfCase' BY DEF TodoIsOfCase, Planning
  <1>5. Case3' = Case3 BY DEF Case3
  <1>6. BooksArePlanned'
    <2>1. LocalPlanned' = LocalPlanned BY DEF LocalPlanned
    <2>2. DevicePlanned' = DevicePlanned BY <1>5 DEF DevicePlanned
    <2> QED BY <2>1, <2>2 DEF Inv, BooksArePlanned
  <1>7. RecordedAreLocal' BY DEF Inv, RecordedAreLocal
  <1>8. OnlyKnownGo' BY DEF Inv, OnlyKnownGo, ToBeDropped, ToBeCopied, Handled
  <1>9. CopiesAreKnown' /\ SideFilesPlanned'
    <2>1. Copying' = Copying BY <1>5 DEF Copying
    <2> QED BY <2>1 DEF Inv, CopiesAreKnown, SideFilesPlanned
  <1> QED BY <1>1, <1>2, <1>3, <1>4, <1>6, <1>7, <1>8, <1>9 DEF Inv

(***************************************************************************)
(* Carrying out keeps the invariant.                                       *)
(***************************************************************************)
LEMMA EffectIs ==
  ASSUME NEW disk, NEW a \in Actions
  PROVE  \A x : x \in Effect(disk, a.op, a.object) <=>
                  IF a.op = "Remove" THEN x \in disk /\ x.path # a.object.path
                  ELSE \/ x \in disk
                       \/ x = [path |-> a.object.path, dir |-> a.object.dir]
  BY DEF Effect

(* An action carried out on the device leaves what will be there in the    *)
(* end as it was foretold.                                                 *)
LEMMA DeviceStep ==
  ASSUME NEW acts \in Seq(Actions), NEW n \in 1..Len(acts), NEW disk,
         acts[n].on = "device", NEW p
  PROVE  WillBe(acts, n + 1, Effect(disk, acts[n].op, acts[n].object), p)
           <=> WillBe(acts, n, disk, p)
  <1> DEFINE a == acts[n]
             N == Len(acts)
             new == Effect(disk, a.op, a.object)
  <1>1. N \in Nat /\ n \in Nat /\ n <= N /\ a \in Actions
    BY LenProperties
  <1>2. \A i : i \in n..N <=> i = n \/ i \in (n + 1)..N BY <1>1
  <1>3. File(p) \in new <=>
          IF a.op = "Remove" THEN File(p) \in disk /\ p # a.object.path
          ELSE File(p) \in disk \/ (p = a.object.path /\ ~a.object.dir)
    <2>1. File(p).path = p BY DEF File
    <2>2. a.object.dir \in BOOLEAN BY <1>1 DEF Actions, Objects
    <2>3. File(p) = [path |-> a.object.path, dir |-> a.object.dir]
            <=> p = a.object.path /\ ~a.object.dir
      BY <2>2 DEF File
    <2> HIDE DEF a, new
    <2> QED BY <1>1, <2>1, <2>3, EffectIs DEF new
  <1> DEFINE later == \E i \in (n + 1)..N : Settles(acts[i], p)
  <1>4. WillBeMade(acts, n, p) <=>
          \/ WillBeMade(acts, n + 1, p)
          \/ Settles(a, p) /\ a.op = "Copy" /\ ~later
    <2> HIDE DEF N
    <2>1. WillBeMade(acts, n, p) <=>
            \E i \in n..N : /\ Settles(acts[i], p) /\ acts[i].op = "Copy"
                            /\ \A j \in (i + 1)..N : ~Settles(acts[j], p)
      BY DEF WillBeMade, N
    <2>2. WillBeMade(acts, n + 1, p) <=>
            \E i \in (n + 1)..N : /\ Settles(acts[i], p) /\ acts[i].op = "Copy"
                                  /\ \A j \in (i + 1)..N : ~Settles(acts[j], p)
      BY DEF WillBeMade, N
    <2> QED BY <1>2, <2>1, <2>2
  <1>5. WillStay(acts, n, disk, p) <=> File(p) \in disk /\ ~Settles(a, p) /\ ~later
    <2> HIDE DEF N
    <2>1. WillStay(acts, n, disk, p) <=>
            File(p) \in disk /\ \A i \in n..N : ~Settles(acts[i], p)
      BY DEF WillStay, N
    <2> QED BY <1>2, <2>1
  <1>6. WillStay(acts, n + 1, new, p) <=> File(p) \in new /\ ~later
    BY DEF WillStay
  <1>7. Settles(a, p) <=> a.op # "MkDir" /\ a.object.path = p BY DEF Settles
  <1>8. a.op \in {"Remove", "MkDir", "Copy"} /\ (a.op = "MkDir" => a.object.dir)
        /\ (a.op = "Copy" => ~a.object.dir)
    BY <1>1 DEF Actions
  <1> HIDE DEF a, N, new, later
  <1>9. CASE Settles(a, p) /\ a.op = "Copy"
    BY <1>3, <1>4, <1>5, <1>6, <1>7, <1>8, <1>9 DEF WillBe, new, a
  <1>10. CASE Settles(a, p) /\ a.op # "Copy"
    BY <1>3, <1>4, <1>5, <1>6, <1>7, <1>8, <1>10 DEF WillBe, new, a
  <1>11. CASE ~Settles(a, p)
    BY <1>3, <1>4, <1>5, <1>6, <1>7, <1>8, <1>11 DEF WillBe, new, a
  <1> QED BY <1>9, <1>10, <1>11

(* An action on the one side leaves the other side's outlook alone.        *)
LEMMA OtherStep ==
  ASSUME NEW acts \in Seq(Actions), NEW n \in 1..Len(acts), NEW disk
  PROVE  /\ acts[n].on = "local" =>
              /\ \A p : WillBe(acts, n + 1, disk, p) <=> WillBe(acts, n, disk, p)
              /\ Gone(acts, n) = Gone(acts, n + 1) \cup {acts[n].object.path}
         /\ acts[n].on = "device" => Gone(acts, n) = Gone(acts, n + 1)
  <1> DEFINE N == Len(acts)
  <1>1. N \in Nat /\ n \in Nat /\ n <= N BY LenProperties
  <1>2. \A i : i \in n..N <=> i = n \/ i \in (n + 1)..N BY <1>1
  <1> HIDE DEF N
  <1>3. ASSUME acts[n].on = "local", NEW p
        PROVE  WillBe(acts, n + 1, disk, p) <=> WillBe(acts, n, disk, p)
    <2>1. ~Settles(acts[n], p) BY <1>3 DEF Settles
    <2>2. WillBeMade(acts, n, p) <=> WillBeMade(acts, n + 1, p)
      <3>1. WillBeMade(acts, n, p) <=>
              \E i \in n..N : /\ Settles(acts[i], p) /\ acts[i].op = "Copy"
                              /\ \A j \in (i + 1)..N : ~Settles(acts[j], p)
        BY DEF WillBeMade, N
      <3>2. WillBeMade(acts, n + 1, p) <=>
              \E i \in (n + 1)..N : /\ Settles(acts[i], p) /\ acts[i].op = "Copy"
                                    /\ \A j \in (i + 1)..N : ~Settles(acts[j], p)
        BY DEF WillBeMade, N
      <3> QED BY <1>2, <2>1, <3>1, <3>2
    <2>3. WillStay(acts, n, disk, p) <=> WillStay(acts, n + 1, disk, p)
      BY <1>2, <2>1 DEF WillStay, N
    <2> QED BY <2>2, <2>3 DEF WillBe
  <1>4. Gone(acts, n) = Gone(acts, n + 1) \cup
          (IF acts[n].on = "local" THEN {acts[n].object.path} ELSE {})
    BY <1>2 DEF Gone, N
  <1> QED BY <1>3, <1>4

(* Carrying out one action keeps the invariant. *)
LEMMA CarryOutInv ==
  ASSUME Inv, phase = "run", next <= Len(plan.actions), CarryOut(plan.actions[next]),
         UNCHANGED <<history, changed, thumbsOn, todo, localBooks, deviceBooks, plan>>
  PROVE  Inv'
  <1> DEFINE a == plan.actions[next]
  <1>1. /\ next' = next + 1 /\ phase' = phase /\ next \in Nat \ {0}
        /\ plan.actions \in Seq(Actions) /\ Len(plan.actions) \in Nat
        /\ next \in 1..Len(plan.actions)
    <2>1. next \in Nat \ {0} /\ plan.actions \in Seq(Actions)
      BY DEF Inv, Types, PlanIsSound, SoundFrom, Plans
    <2>2. Len(plan.actions) \in Nat BY <2>1, LenProperties
    <2> QED BY <2>1, <2>2 DEF CarryOut
  <1>2. a \in Actions BY <1>1, LenProperties
  <1>3. a.on \in {"local", "device"} /\ (a.on = "local" => a.op = "Remove")
    BY <1>2 DEF Actions
  <1>4. /\ a.on = "local" => local' = Effect(local, a.op, a.object) /\ device' = device
        /\ a.on = "device" => device' = Effect(device, a.op, a.object) /\ local' = local
    BY DEF CarryOut
  <1>5. Types' BY <1>1 DEF Inv, Types, Planning
  <1>6. Case3' = Case3 BY DEF Case3
  <1>7. /\ a.object \in Objects /\ a.object.dir \in BOOLEAN
        /\ a.op = "MkDir" => a.object.path \in DeviceDirs
        /\ a.op = "Copy" => ~a.object.dir
        /\ a.op \in {"Remove", "MkDir", "Copy"}
    BY <1>2 DEF Actions, Objects
  <1>8. \A disk : \A x : x \in Effect(disk, a.op, a.object) <=>
                  IF a.op = "Remove" THEN x \in disk /\ x.path # a.object.path
                  ELSE \/ x \in disk
                       \/ x = [path |-> a.object.path, dir |-> a.object.dir]
    BY <1>2, EffectIs
  <1>9. Disks'
    <2>1. local' \subseteq local BY <1>3, <1>4, <1>8
    <2>2. \A x \in device' : x \in device \/
             (a.op # "Remove" /\ x = [path |-> a.object.path, dir |-> a.object.dir])
      BY <1>3, <1>4, <1>8
    <2>3. ASSUME NEW x \in device'
          PROVE  /\ x = [path |-> x.path, dir |-> x.dir] /\ x.dir \in BOOLEAN
                 /\ x.dir => x.path \in DeviceDirs
      <3>1. CASE x \in device BY <3>1 DEF Inv, Disks
      <3>2. CASE a.op # "Remove" /\ x = [path |-> a.object.path, dir |-> a.object.dir]
        <4>1. x.path = a.object.path /\ x.dir = a.object.dir BY <3>2
        <4> QED BY <1>7, <3>2, <4>1
      <3> QED BY <2>2, <3>1, <3>2
    <2> QED BY <2>1, <2>3 DEF Inv, Disks
  <1>10. LocalForetold(plan, next)
         /\ DeviceForetold(plan, next)
    BY DEF Inv, PlanIsSound, SoundFrom
  <1>11. Bare(plan.src) = {x \in local' : x.path \notin Gone(plan.actions, next + 1)}
    <2>1. Bare(plan.src) = {x \in local : x.path \notin Gone(plan.actions, next)}
      BY <1>10 DEF LocalForetold
    <2>2. CASE a.on = "local"
      <3>1. Gone(plan.actions, next) = Gone(plan.actions, next + 1) \cup {a.object.path}
        BY <1>1, <2>2, OtherStep
      <3>2. local' = {x \in local : x.path # a.object.path} BY <1>3, <1>4, <1>8, <2>2
      <3> QED BY <2>1, <3>1, <3>2
    <2>3. CASE a.on = "device"
      <3>1. Gone(plan.actions, next) = Gone(plan.actions, next + 1)
        BY <1>1, <2>3, OtherStep
      <3> QED BY <1>4, <2>1, <2>3, <3>1
    <2> QED BY <1>3, <2>2, <2>3
  <1>12. \A p : WillBe(plan.actions, next + 1, device', p) <=> WillBe(plan.actions, next, device, p)
    <2>1. CASE a.on = "local"
      <3>1. \A p : WillBe(plan.actions, next + 1, device, p) <=> WillBe(plan.actions, next, device, p)
        BY <1>1, <2>1, OtherStep
      <3> QED BY <1>4, <2>1, <3>1
    <2>2. CASE a.on = "device"
      <3>1. \A p : WillBe(plan.actions, next + 1, Effect(device, a.op, a.object), p)
                     <=> WillBe(plan.actions, next, device, p)
        BY <1>1, <2>2, DeviceStep
      <3> QED BY <1>4, <2>2, <3>1
    <2> QED BY <1>3, <2>1, <2>2
  <1> HIDE DEF a
  <1>13. PlanIsSound'
    <2>1. LocalForetold(plan, next)' BY <1>1, <1>11 DEF LocalForetold
    <2>2. DeviceForetold(plan, next)'
      BY <1>1, <1>10, <1>12 DEF DeviceForetold
    <2> QED BY <2>1, <2>2 DEF Inv, PlanIsSound, SoundFrom
  <1>14. TodoIsOfCase' BY <1>1 DEF Inv, TodoIsOfCase, Planning
  <1>15. BooksArePlanned'
    <2>1. LocalPlanned' = LocalPlanned BY <1>1 DEF LocalPlanned
    <2>2. DevicePlanned' = DevicePlanned BY <1>1, <1>6 DEF DevicePlanned
    <2> QED BY <2>1, <2>2 DEF Inv, BooksArePlanned
  <1>16. RecordedAreLocal' BY <1>1 DEF Inv, RecordedAreLocal
  <1>17. OnlyKnownGo' BY <1>1 DEF Inv, OnlyKnownGo, ToBeDropped, ToBeCopied, Handled
  <1>18. CopiesAreKnown' /\ SideFilesPlanned'
    <2>1. Copying' = Copying BY <1>1, <1>6 DEF Copying
    <2> QED BY <2>1 DEF Inv, CopiesAreKnown, SideFilesPlanned
  <1> QED BY <1>5, <1>9, <1>13, <1>14, <1>15, <1>16, <1>17, <1>18 DEF Inv

(* The invariant is inductive. *)
LEMMA NextInv == Inv /\ [Next]_vars => Inv'
  <1> SUFFICES ASSUME Inv, [Next]_vars PROVE Inv' OBVIOUS
  <1>1. CASE \E b \in BookPaths : PlanCase7(b) BY <1>1, PlanCase7Inv
  <1>2. CASE \E b \in BookPaths : PlanCase6(b) BY <1>2, PlanCase6Inv
  <1>3. CASE \E b \in BookPaths : PlanCase3(b) BY <1>3, PlanCase3Inv
  <1>4. CASE EndCase7 BY <1>4, EndCase7Inv
  <1>5. CASE EndCase6 BY <1>5, EndCase6Inv
  <1>6. CASE EndCase3
    BY <1>6, PhaseInv DEF EndCase3, PlanKeeps
  <1>7. CASE RunAction
    <2>1. /\ phase = "run" /\ next <= Len(plan.actions)
          /\ \/ CarryOut(plan.actions[next])
             \/ phase' = "failed" /\ UNCHANGED <<local, device, next>>
          /\ UNCHANGED <<history, changed, thumbsOn, todo, localBooks, deviceBooks, plan>>
      BY <1>7 DEF RunAction
    <2>2. todo = {} BY <2>1 DEF Inv, TodoIsOfCase, Planning
    <2>3. CASE CarryOut(plan.actions[next]) BY <2>1, <2>3, CarryOutInv
    <2>4. CASE phase' = "failed" /\ UNCHANGED <<local, device, next>>
      BY <2>1, <2>2, <2>4, PhaseInv
    <2> QED BY <2>1, <2>3, <2>4
  <1>8. CASE Finish
    <2>1. todo = {} BY <1>8 DEF Finish, Inv, TodoIsOfCase, Planning
    <2> QED BY <1>8, <2>1, PhaseInv DEF Finish
  <1>9. CASE UNCHANGED vars
    <2>1. Case3' = Case3 /\ Case6' = Case6 /\ Case7' = Case7
      BY <1>9 DEF vars, Case3, Case6, Case7
    <2>2. Types' /\ Disks' BY <1>9 DEF vars, Inv, Types, Planning, Disks
    <2>3. PlanIsSound'
      BY <1>9 DEF vars, Inv, PlanIsSound, SoundFrom, LocalForetold, DeviceForetold
    <2>4. TodoIsOfCase' BY <1>9, <2>1 DEF vars, Inv, TodoIsOfCase, Planning
    <2>5. BooksArePlanned'
      BY <1>9, <2>1 DEF vars, Inv, BooksArePlanned, LocalPlanned, DevicePlanned
    <2>6. RecordedAreLocal' BY <1>9 DEF vars, Inv, RecordedAreLocal
    <2>7. OnlyKnownGo'
      BY <1>9, <2>1 DEF vars, Inv, OnlyKnownGo, ToBeDropped, ToBeCopied, Handled
    <2>8. CopiesAreKnown' /\ SideFilesPlanned'
      BY <1>9, <2>1 DEF vars, Inv, CopiesAreKnown, SideFilesPlanned, Copying
    <2> QED BY <2>2, <2>3, <2>4, <2>5, <2>6, <2>7, <2>8 DEF Inv
  <1> QED BY <1>1, <1>2, <1>3, <1>4, <1>5, <1>6, <1>7, <1>8, <1>9 DEF Next

(***************************************************************************)
(* What follows.                                                           *)
(***************************************************************************)
LEMMA PlannedIsDone ==
  ASSUME Inv, Done
  PROVE  /\ \A p : File(p) \in local <=> p \in FilesIn(plan.src)
         /\ \A p \in Path : File(p) \in device <=> p \in FilesIn(plan.dst)
  <1>1. next > Len(plan.actions) /\ next \in Nat /\ plan.actions \in Seq(Actions)
    BY DEF Inv, Types, Done, PlanIsSound, SoundFrom, Plans
  <1>2. next..Len(plan.actions) = {} BY <1>1, LenProperties
  <1>3. Bare(plan.src) = local
    BY <1>2 DEF Inv, PlanIsSound, SoundFrom, LocalForetold, Gone
  <1>4. plan.src \subseteq Objects BY DEF Inv, PlanIsSound, SoundFrom, Plans
  <1>5. ASSUME NEW p PROVE File(p) \in local <=> p \in FilesIn(plan.src)
    <2>1. ASSUME File(p) \in local PROVE p \in FilesIn(plan.src)
      <3>1. PICK o \in plan.src : File(p) = [path |-> o.path, dir |-> o.dir]
        BY <1>3, <2>1 DEF Bare
      <3>2. o.path = p /\ ~o.dir BY <3>1 DEF File
      <3> QED BY <3>2 DEF FilesIn
    <2>2. ASSUME p \in FilesIn(plan.src) PROVE File(p) \in local
      <3>1. PICK o \in plan.src : o.path = p /\ ~o.dir BY <2>2 DEF FilesIn
      <3>2. o.dir = FALSE BY <1>4, <3>1 DEF Objects
      <3>3. [path |-> o.path, dir |-> o.dir] \in local BY <1>3, <3>1 DEF Bare
      <3> QED BY <3>1, <3>2, <3>3 DEF File
    <2> QED BY <2>1, <2>2
  <1>6. ASSUME NEW p \in Path PROVE File(p) \in device <=> p \in FilesIn(plan.dst)
    <2>1. p \in FilesIn(plan.dst) <=> WillBe(plan.actions, next, device, p)
      BY DEF Inv, PlanIsSound, SoundFrom, DeviceForetold
    <2> QED BY <1>2, <2>1 DEF WillBe, WillStay, WillBeMade
  <1> QED BY <1>5, <1>6

(* The planned sides agree, and the disks have become the planned sides. *)
LEMMA DoneAgrees == Inv => BothSidesAgree
  <1> SUFFICES ASSUME Inv, Done, NEW b \in BookPaths
               PROVE  /\ File(Source \o b) \in local => File(Target \o b) \in device
                      /\ b \in history /\ File(Target \o b) \in device =>
                           File(Source \o b) \in local
    BY DEF BothSidesAgree
  <1>1. phase = "done" /\ todo = {} BY DEF Done, Inv, TodoIsOfCase, Planning
  <1>2. Source \o b \in FilesIn(plan.src) <=> b \in localBooks
    BY <1>1 DEF Inv, BooksArePlanned, LocalPlanned
  <1>3. Target \o b \in FilesIn(plan.dst) <=> b \in deviceBooks \cup Case3
    BY <1>1 DEF Inv, BooksArePlanned, DevicePlanned
  <1>4. Target \o b \in Path BY ConstantsArePaths, ConcatIs
  <1>5. b \in localBooks => b \in deviceBooks \cup Case3 BY DEF Case3
  <1>6. b \in history /\ b \in deviceBooks \cup Case3 => b \in localBooks
    BY <1>1 DEF Inv, RecordedAreLocal, Case3
  <1> QED BY <1>2, <1>3, <1>4, <1>5, <1>6, PlannedIsDone

(* A page index of a book is in one of two places. *)
LEMMA OneOfTwo ==
  ASSUME NEW b \in BookPaths, NEW j \in Indexes, Name(j) = IndexOf[Name(b)],
         Parent(j) \in {Parent(b), Append(Parent(b), SdrOf[Name(b)])}
  PROVE  \E n \in {1, 2} : j = Index(b, n)
  <1>1. j \in Path /\ j # << >> BY ConstantsArePaths
  <1>2. CASE Parent(j) = Parent(b)
    <2>1. /\ Index(b, 1) \in Path /\ Index(b, 1) # << >>
          /\ Name(Index(b, 1)) = IndexOf[Name(b)] /\ Parent(Index(b, 1)) = Parent(b)
      BY IndexIs
    <2>2. j = Index(b, 1) BY <1>1, <1>2, <2>1, SameParts
    <2> QED BY <2>2
  <1>3. CASE Parent(j) = Append(Parent(b), SdrOf[Name(b)])
    <2>1. /\ Index(b, 2) \in Path /\ Index(b, 2) # << >>
          /\ Name(Index(b, 2)) = IndexOf[Name(b)]
          /\ Parent(Index(b, 2)) = Append(Parent(b), SdrOf[Name(b)])
      BY IndexIs
    <2>2. j = Index(b, 2) BY <1>1, <1>3, <2>1, SameParts
    <2> QED BY <2>2
  <1> QED BY <1>2, <1>3

(* The page indexes of a book are where a plan looks for them. *)
LEMMA IndexesAreHere ==
  ASSUME NEW b \in BookPaths, NEW root \in {Source, Target}, NEW p \in IndexesOf(b, root)
  PROVE  \E n \in {1, 2} : p = root \o Index(b, n) /\ p \in HereIndexes(b, root)
  <1>1. PICK j \in Indexes :
           /\ p = root \o j /\ Name(j) = IndexOf[Name(b)]
           /\ Parent(j) \in {Parent(b), Append(Parent(b), SdrOf[Name(b)])}
    BY DEF IndexesOf
  <1>2. PICK n \in {1, 2} : j = Index(b, n) BY <1>1, OneOfTwo
  <1> QED BY <1>1, <1>2 DEF HereIndexes

(* A book that is copied was planned in case 3. *)
LEMMA CopiedIsPlanned ==
  ASSUME Inv, NEW b \in Copied
  PROVE  b \in Copying /\ b \in BookPaths
  <1>1. b \in localBooks /\ Source \o b \in Copies(plan.actions) BY DEF Copied, Copies
  <1>2. b \in BookPaths BY <1>1 DEF Inv, Types
  <1>3. PICK c \in Copying : Source \o b \in CopiedFor(c)
    BY <1>1 DEF Inv, CopiesAreKnown
  <1>4. c \in BookPaths BY <1>3 DEF Copying, Case3, Inv, Types
  <1>5. ASSUME NEW n \in {1, 2} PROVE Source \o b # Source \o Index(c, n)
    <2>1. Index(c, n) \in Path /\ b \in Path /\ Source \in Path
      BY <1>2, <1>4, IndexIs, ConstantsArePaths
    <2>2. Index(c, n) \notin BookPaths BY <1>4, NamesAssumption DEF Index, NamesFit
    <2> QED BY <1>2, <2>1, <2>2, ConcatInjective
  <1>6. Source \o b # <<ThumbOf[Name(c)]>>
    <2>1. Len(Source \o b) = Len(Source) + Len(b) /\ Len(Source) \in Nat \ {0} /\ Len(b) \in Nat \ {0}
      BY <1>2, ConstantsArePaths, ConcatIs, ParentIs
    <2>2. Len(<<ThumbOf[Name(c)]>>) = 1 OBVIOUS
    <2>3. Len(Source \o b) # 1 BY <2>1
    <2> QED BY <2>2, <2>3, Zenon
  <1>7. Source \o b = Source \o c BY <1>3, <1>5, <1>6 DEF CopiedFor
  <1>8. b = c BY <1>2, <1>4, <1>7, ConstantsArePaths, ConcatInjective
  <1> QED BY <1>2, <1>3, <1>8

(* The source does not lie under itself. *)
LEMMA SourceIsNotUnderItself == ~IsUnder(Source, Source)
  <1>1. Len(Source) \in Nat BY ConstantsArePaths, LenProperties DEF Path
  <1> QED BY <1>1 DEF IsUnder

(* What the plan says of side files has become true. *)
LEMMA DoneIsCopied == Inv => SideFilesAreCopied
  <1> SUFFICES ASSUME Inv, Done, NEW b \in Copied
               PROVE  /\ \A p \in IndexesOf(b, Source) :
                           File(p) \in local => File(Reroot(p, Source, Target)) \in device
                      /\ thumbsOn /\ ThumbOf[Name(b)] # NoThumb =>
                           File(Append(ThumbFolder, ThumbOf[Name(b)])) \in device
    BY DEF SideFilesAreCopied
  <1>1. b \in Copying /\ b \in BookPaths BY CopiedIsPlanned
  <1>2. /\ \A n \in {1, 2} : Source \o Index(b, n) \in FilesIn(plan.src) =>
                               Target \o Index(b, n) \in FilesIn(plan.dst)
        /\ thumbsOn /\ ThumbOf[Name(b)] # NoThumb => ThumbPath(b) \in FilesIn(plan.dst)
    BY <1>1 DEF Inv, SideFilesPlanned
  <1>3. ASSUME NEW p \in IndexesOf(b, Source), File(p) \in local
        PROVE  File(Reroot(p, Source, Target)) \in device
    <2>1. PICK n \in {1, 2} : p = Source \o Index(b, n) BY <1>1, IndexesAreHere
    <2>2. Index(b, n) \in Path /\ Source \in Path /\ Target \in Path
      BY <1>1, IndexIs, ConstantsArePaths
    <2>3. Reroot(p, Source, Target) = Target \o Index(b, n) BY <2>1, <2>2, RerootIs
    <2>4. Target \o Index(b, n) \in FilesIn(plan.dst) BY <1>2, <1>3, <2>1, PlannedIsDone
    <2>5. Target \o Index(b, n) \in Path BY <2>2, ConcatIs
    <2> QED BY <2>3, <2>4, <2>5, PlannedIsDone
  <1>4. ASSUME thumbsOn, ThumbOf[Name(b)] # NoThumb
        PROVE  File(Append(ThumbFolder, ThumbOf[Name(b)])) \in device
    <2>1. ThumbPath(b) \in Path /\ ThumbPath(b) \in FilesIn(plan.dst)
      BY <1>1, <1>2, <1>4, ThumbPathIs
    <2>2. File(ThumbPath(b)) \in device BY <2>1, PlannedIsDone
    <2> QED BY <2>2 DEF ThumbPath
  <1> QED BY <1>3, <1>4

(* What the step of OthersUntouched says. *)
Untouched ==
  /\ \A x \in device \ device' :
       ~x.dir /\ \E b \in Copied \cup Dropped : x.path \in FilesOf(b)
  /\ \A x \in local \ local' :
       /\ x.path # Source
       /\ x.dir \/ \E b \in Dropped : x.path \in {Source \o b} \cup IndexesOf(b, Source)

(* While the plan is carried out, the books that it is about are those     *)
(* that the actions name.                                                  *)
LEMMA PlannedAreActedOn ==
  ASSUME Inv, phase = "run"
  PROVE  ToBeCopied \subseteq Copied /\ ToBeDropped \subseteq Dropped
  <1>1. ToBeCopied \subseteq Copied BY DEF ToBeCopied, Copied, Copies
  <1>2. ASSUME NEW b \in ToBeDropped PROVE b \in Dropped
    <2>1. b \in BookPaths \ localBooks BY DEF ToBeDropped, Handled
    <2>2. plan.actions \in Seq(Actions) BY DEF Inv, PlanIsSound, SoundFrom, Plans
    <2>3. DOMAIN plan.actions = 1..Len(plan.actions) BY <2>2, LenProperties
    <2>4. \A i \in DOMAIN plan.actions : plan.actions[i] \in Actions
      BY <2>2, <2>3, LenProperties
    <2>5. DOMAIN Sides = {1, 2} /\ Sides[1] = Source /\ Sides[2] = Target BY DEF Sides
    <2>6. CASE Source \o b \in Gone(plan.actions, 1)
      <3>1. PICK i \in DOMAIN plan.actions :
               plan.actions[i].on = "local" /\ plan.actions[i].object.path = Source \o b
        BY <2>3, <2>6 DEF Gone
      <3>2. plan.actions[i].op = "Remove" BY <2>4, <3>1 DEF Actions
      <3>3. b \in DroppedOn(1) BY <2>1, <2>5, <3>1, <3>2 DEF DroppedOn
      <3> QED BY <2>5, <3>3 DEF Dropped
    <2>7. CASE Target \o b \in Removed(plan.actions)
      <3>1. PICK i \in DOMAIN plan.actions :
               /\ plan.actions[i].on = "device" /\ plan.actions[i].op = "Remove"
               /\ plan.actions[i].object.path = Target \o b
        BY <2>7 DEF Removed
      <3>2. b \in DroppedOn(2) BY <2>1, <2>5, <3>1 DEF DroppedOn
      <3> QED BY <2>5, <3>2 DEF Dropped
    <2> QED BY <2>6, <2>7 DEF ToBeDropped
  <1> QED BY <1>1, <1>2

(* Each action removes what belongs to a book acted on, or an emptied      *)
(* directory of the source.                                                *)
LEMMA StepUntouched == Inv /\ [Next]_vars => Untouched
  <1> SUFFICES ASSUME Inv, [Next]_vars PROVE Untouched OBVIOUS
  <1>1. CASE UNCHANGED <<local, device>>
    BY <1>1 DEF Untouched
  <1>2. CASE RunAction /\ ~UNCHANGED <<local, device>>
    <2> DEFINE a == plan.actions[next]
    <2>1. /\ phase = "run" /\ next <= Len(plan.actions) /\ CarryOut(plan.actions[next])
      BY <1>2 DEF RunAction
    <2>2. /\ plan.actions \in Seq(Actions) /\ next \in 1..Len(plan.actions)
          /\ DOMAIN plan.actions = 1..Len(plan.actions)
      <3>1. next \in Nat \ {0} /\ plan.actions \in Seq(Actions)
        BY DEF Inv, Types, PlanIsSound, SoundFrom, Plans
      <3> QED BY <2>1, <3>1, LenProperties
    <2>3. a \in Actions BY <2>2, LenProperties
    <2>4. /\ a.on = "local" => local' = Effect(local, a.op, a.object) /\ device' = device
          /\ a.on = "device" => device' = Effect(device, a.op, a.object) /\ local' = local
          /\ a.on \in {"local", "device"} /\ (a.on = "local" => a.op = "Remove")
      BY <2>1, <2>3 DEF CarryOut, Actions
    <2>5. ToBeCopied \subseteq Copied /\ ToBeDropped \subseteq Dropped
      BY <2>1, PlannedAreActedOn
    <2>6. ToBeDropped \subseteq BookPaths /\ ToBeCopied \subseteq BookPaths
      BY DEF ToBeDropped, ToBeCopied, Handled, Inv, Types, Case7
    <2>7. \A disk : \A x : x \in Effect(disk, a.op, a.object) <=>
                  IF a.op = "Remove" THEN x \in disk /\ x.path # a.object.path
                  ELSE \/ x \in disk
                       \/ x = [path |-> a.object.path, dir |-> a.object.dir]
      BY <2>3, EffectIs
    <2>8. ASSUME NEW x \in device \ device'
          PROVE  ~x.dir /\ \E b \in Copied \cup Dropped : x.path \in FilesOf(b)
      <3>1. a.on = "device" /\ a.op = "Remove" /\ x.path = a.object.path BY <2>4, <2>7
      <3>2. x.path \in Removed(plan.actions) BY <2>2, <3>1 DEF Removed
      <3>3. PICK b \in ToBeDropped \cup ToBeCopied : x.path \in FilesOf(b)
        BY <3>2 DEF Inv, OnlyKnownGo
      <3>4. x.path \in DeviceFiles
        <4>1. b \in BookPaths BY <2>6
        <4>2. x.path = Target \o b \/ x.path = Append(ThumbFolder, ThumbOf[Name(b)])
              \/ \E j \in Indexes : x.path = Target \o j
          BY <3>3 DEF FilesOf, IndexesOf
        <4> QED BY <4>1, <4>2 DEF DeviceFiles, Files
      <3>5. ~x.dir
        <4>1. x.dir => x.path \in DeviceDirs BY DEF Inv, Disks
        <4> QED BY <3>4, <4>1, DeviceFileIsNoDir
      <3> QED BY <2>5, <3>3, <3>5
    <2>9. ASSUME NEW x \in local \ local'
          PROVE  /\ x.path # Source
                 /\ x.dir \/ \E b \in Dropped : x.path \in {Source \o b} \cup IndexesOf(b, Source)
      <3>1. a.on = "local" /\ x.path = a.object.path BY <2>4, <2>7
      <3>2. x.path \in Gone(plan.actions, 1) BY <2>2, <3>1 DEF Gone
      <3>3. CASE x.path \in InnerDirs
        <4>1. x.dir
          <5>1. x.dir \in BOOLEAN /\ x.path \in IF x.dir THEN LocalDirs ELSE LocalFiles
            BY DEF Inv, Disks
          <5> QED BY <3>3, <5>1, LocalFileIsNoDir DEF InnerDirs
        <4>2. x.path # Source
          <5>1. IsUnder(x.path, Source) BY <3>3 DEF InnerDirs
          <5>2. Len(Source) \in Nat BY ConstantsArePaths, LenProperties DEF Path
          <5> QED BY <5>1, <5>2 DEF IsUnder
        <4> QED BY <4>1, <4>2
      <3>4. CASE \E b \in ToBeDropped : x.path \in {Source \o b} \cup IndexesOf(b, Source)
        <4>1. PICK b \in ToBeDropped : x.path \in {Source \o b} \cup IndexesOf(b, Source)
          BY <3>4
        <4>2. PICK q \in Files : x.path = Source \o q
          BY <2>6, <4>1 DEF IndexesOf, Files
        <4>3. x.path # Source
          <5>1. IsUnder(Source \o q, Source) BY ConstantsArePaths, UnderRoot
          <5>2. Source \o q # Source BY <5>1, SourceIsNotUnderItself, Zenon
          <5> QED BY <4>2, <5>2, Zenon
        <4> QED BY <2>5, <4>1, <4>3
      <3> QED BY <3>2, <3>3, <3>4 DEF Inv, OnlyKnownGo
    <2> QED BY <2>8, <2>9 DEF Untouched
  <1> QED BY <1>1, <1>2 DEF Next, vars, PlanCase7, PlanCase6, PlanCase3, PlanBook,
                            PlanKeeps, EndCase7, EndCase6, EndCase3, Finish

(* The invariant holds throughout. *)
LEMMA Invariance == Spec => []Inv
  BY InitInv, NextInv, PTL DEF Spec

(* After a complete run every local book is on the device, and every       *)
(* recorded book of the device is local.                                   *)
THEOREM SidesAgree == Spec => []BothSidesAgree
  BY Invariance, DoneAgrees, PTL

(* What is copied is copied with its page index and its thumbnail.         *)
THEOREM CopiesAreComplete == Spec => []SideFilesAreCopied
  BY Invariance, DoneIsCopied, PTL

(* Nothing is removed but what belongs to a book that is copied or removed *)
(* and, in the source, directories below it.                               *)
THEOREM OthersStayUntouched == Spec => OthersUntouched
  <1>1. Inv /\ [Next]_vars => [Untouched]_vars BY StepUntouched
  <1> QED BY <1>1, Invariance, PTL DEF Spec, OthersUntouched, Untouched

-----------------------------------------------------------------------------
(***************************************************************************)
(* No directory stays empty.                                               *)
(***************************************************************************)
(* No name in the source begins with another one of them.                  *)
PlainNames ==
  \A p, q \in {Source} \cup BookPaths \cup Indexes :
    \A i \in DOMAIN p, j \in DOMAIN q : StartsWith(p[i], q[j]) => p[i] = q[j]

(* So it is with the whole paths.                                          *)
PlainPaths ==
  \A p, q \in LocalFiles \cup LocalDirs :
    \A i \in 1..Len(p), j \in 1..Len(q) : StartsWith(p[i], q[j]) => p[i] = q[j]

(* Every name in a path of the source is one of the source, of a book or   *)
(* of a page index.                                                        *)
LEMMA NamesOfPaths ==
  ASSUME NEW p \in LocalFiles \cup LocalDirs, NEW i \in 1..Len(p)
  PROVE  \E q \in {Source} \cup BookPaths \cup Indexes : \E j \in DOMAIN q : p[i] = q[j]
  <1>1. ASSUME NEW q \in BookPaths \cup Indexes, NEW k \in 1..Len(Source \o q)
        PROVE  \E s \in {Source} \cup BookPaths \cup Indexes :
                 \E j \in DOMAIN s : (Source \o q)[k] = s[j]
    <2>1. Source \in Path /\ q \in Path BY ConstantsArePaths
    <2>2. /\ Len(Source \o q) = Len(Source) + Len(q) /\ Len(Source) \in Nat /\ Len(q) \in Nat
          /\ \A n \in 1..Len(Source) : (Source \o q)[n] = Source[n]
          /\ \A n \in 1..Len(q) : (Source \o q)[Len(Source) + n] = q[n]
      BY <2>1, ConcatIs
    <2>3. DOMAIN Source = 1..Len(Source) /\ DOMAIN q = 1..Len(q)
      BY <2>1, LenProperties DEF Path
    <2>4. CASE k \in 1..Len(Source) BY <2>2, <2>3, <2>4
    <2>5. CASE k \notin 1..Len(Source)
      <3>1. k - Len(Source) \in 1..Len(q) /\ k = Len(Source) + (k - Len(Source))
        BY <2>2, <2>5
      <3>2. (Source \o q)[k] = q[k - Len(Source)] BY <2>2, <3>1
      <3> QED BY <2>3, <3>1, <3>2
    <2> QED BY <2>4, <2>5
  <1>2. CASE p \in LocalFiles BY <1>1, <1>2 DEF LocalFiles
  <1>3. CASE p \in LocalDirs
    <2>1. PICK f \in LocalFiles : IsUnder(f, p) BY <1>3 DEF LocalDirs
    <2>2. PICK q \in BookPaths \cup Indexes : f = Source \o q BY <2>1 DEF LocalFiles
    <2>3. f \in Path /\ p \in Path BY <1>3, <2>2, ConstantsArePaths, ConcatIs DEF LocalDirs
    <2>4. Len(p) \in Nat /\ Len(f) \in Nat /\ Len(p) < Len(f) /\ SubSeq(f, 1, Len(p)) = p
      BY <2>1, <2>3, LenProperties DEF IsUnder, Path
    <2>5. Len(p) \in 0..Len(f) /\ i \in 1..Len(f) BY <2>4
    <2>6. p[i] = f[i] BY <2>3, <2>4, <2>5, UpIs
    <2> QED BY <1>1, <2>2, <2>5, <2>6
  <1> QED BY <1>2, <1>3

(* What holds of the names holds of the whole paths. *)
LEMMA PathsArePlain == PlainNames => PlainPaths
  <1> SUFFICES ASSUME PlainNames, NEW p \in LocalFiles \cup LocalDirs,
                      NEW q \in LocalFiles \cup LocalDirs,
                      NEW i \in 1..Len(p), NEW j \in 1..Len(q), StartsWith(p[i], q[j])
               PROVE  p[i] = q[j]
    BY DEF PlainPaths
  <1>1. PICK s \in {Source} \cup BookPaths \cup Indexes : \E k \in DOMAIN s : p[i] = s[k]
    BY NamesOfPaths
  <1>2. PICK t \in {Source} \cup BookPaths \cup Indexes : \E k \in DOMAIN t : q[j] = t[k]
    BY NamesOfPaths
  <1> QED BY <1>1, <1>2 DEF PlainNames

(* Every directory below the source and above it has something in it.      *)
Occupied(ois) ==
  \A d \in ois : d.dir /\ d.path # Source => \E y \in ois : IsUnder(y.path, d.path)

(* With plain names, strings.HasPrefix finds only what is in a directory.  *)
LEMMA PrefixIsAbove ==
  ASSUME PlainPaths, NEW p \in LocalFiles \cup LocalDirs, NEW d \in LocalDirs,
         NEW n \in 1..Len(p), p \in Path, d \in Path, d # << >>,
         HasPrefix(SubSeq(p, 1, n), d)
  PROVE  Len(d) <= n /\ SubSeq(p, 1, Len(d)) = d
  <1> DEFINE k == Len(d)
             u == SubSeq(p, 1, n)
  <1>1. Len(p) \in Nat /\ k \in Nat /\ n \in 0..Len(p) BY LenProperties DEF Path
  <1>2. u \in Path /\ Len(u) = n /\ \A i \in 1..n : u[i] = p[i] BY <1>1, UpIs
  <1>3. k <= n /\ SubSeq(u, 1, k - 1) = Parent(d) /\ StartsWith(u[k], Name(d))
    BY <1>2 DEF HasPrefix
  <1>4. k # 0
    BY ParentIs
  <1>5. k \in 1..n /\ k \in 0..Len(p) /\ k - 1 \in 0..n /\ k \in 1..Len(p) /\ k \in 1..Len(d)
    BY <1>1, <1>3, <1>4
  <1>6. /\ SubSeq(p, 1, k) \in Path /\ Len(SubSeq(p, 1, k)) = k
        /\ \A i \in 1..k : SubSeq(p, 1, k)[i] = p[i]
    BY <1>5, UpIs
  <1>7. p[k] = d[k]
    <2>1. StartsWith(p[k], d[k]) BY <1>2, <1>3, <1>5 DEF Name
    <2> QED BY <1>5, <2>1 DEF PlainPaths
  <1>8. ASSUME NEW i \in 1..(k - 1) PROVE p[i] = d[i]
    <2>1. i \in 1..n /\ i \in 0..n BY <1>1, <1>5
    <2>2. SubSeq(u, 1, k - 1)[i] = u[i] BY <1>2, <1>5, UpIs
    <2>3. Parent(d)[i] = d[i]
      BY ParentIs
    <2> QED BY <1>2, <1>3, <2>1, <2>2, <2>3
  <1>9. \A i \in 1..k : SubSeq(p, 1, k)[i] = d[i] BY <1>1, <1>5, <1>6, <1>7, <1>8
  <1> QED BY <1>3, <1>6, <1>9, SamePath

(* Removing a file with the directories above it that it leaves empty.     *)
LEMMA RemovingLeavesOccupied ==
  ASSUME PlainPaths, NEW pl, Sound(pl), Occupied(pl.src), NEW q \in BookPaths \cup Indexes,
         NEW o \in Objects, o.path = Source \o q, Source \o q \in FilesIn(pl.src)
  PROVE  Occupied(MakeRemoveActions(pl, o).src)
  <1> DEFINE p == Source \o q
             dir == Parent(p)
             m == TakeFromSource(pl, o)
             r == MakeRemoveActions(pl, o)
  <1>1. /\ p \in Path \ {<< >>} /\ dir \in Path
        /\ Len(dir) = Len(p) - 1 /\ Len(p) \in Nat /\ Len(Source) \in Nat \ {0}
        /\ Len(Source) <= Len(dir)
        /\ \A n \in 0..Len(dir) : SubSeq(dir, 1, n) = SubSeq(p, 1, n)
        /\ SubSeq(p, 1, Len(Source)) = Source
    BY UpsOfLocal, ConstantsArePaths, UnderRoot DEF IsUnder
  <1>2. /\ m.src = {x \in pl.src : x.path # p} /\ StandsIn(m.src, dir)
        /\ \E stop \in Len(Source)..Len(dir) : RemovesUpTo(m, r, dir, stop)
    BY MakeRemoveActionsRemoves, ZenonT(30)
  <1>3. PICK stop \in Len(Source)..Len(dir) : RemovesUpTo(m, r, dir, stop) BY <1>2
  <1> HIDE DEF m, r
  <1>4. r.src = {x \in pl.src : x.path # p /\ x.path \notin Emptied(dir, stop)}
    BY <1>2, <1>3 DEF RemovesUpTo
  <1>5. stop = Len(Source) \/ SubsetByPath(r.src, SubSeq(dir, 1, stop)) # {}
    BY <1>3 DEF RemovesUpTo
  <1>6. /\ pl.src \subseteq Objects
        /\ \A x \in pl.src : x.path \in Path /\ x.path # << >> /\ x.dir \in BOOLEAN
                             /\ x.path \in LocalFiles \cup LocalDirs
                             /\ (x.dir => x.path \in LocalDirs)
    BY DEF Sound, SourceTree, Plans, Objects, FilesIn, DirsIn
  <1> HIDE DEF p, dir
  <1> SUFFICES ASSUME NEW d \in r.src, d.dir, d.path # Source
               PROVE  \E y \in r.src : IsUnder(y.path, d.path)
    BY DEF Occupied, r
  <1>7. d \in pl.src /\ d.path \in Path /\ d.path # << >> /\ d.path \in LocalDirs
        /\ d.path # p /\ d.path \notin Emptied(dir, stop) /\ Len(d.path) \in Nat \ {0}
    BY <1>4, <1>6, ParentIs
  <1>8. PICK y \in pl.src : IsUnder(y.path, d.path) BY <1>7 DEF Occupied
  <1>9. CASE y \in r.src BY <1>8, <1>9
  <1>10. CASE y \notin r.src
    <2> DEFINE n == Len(d.path)
    <2>1. d.path = SubSeq(dir, 1, n) /\ n \in 1..Len(dir)
      <3>1. CASE y.path = p
        <4>1. n < Len(p) /\ SubSeq(p, 1, n) = d.path BY <1>8, <3>1 DEF IsUnder
        <4>2. n \in 1..Len(dir) /\ n \in 0..Len(dir) BY <1>1, <1>7, <4>1
        <4> QED BY <1>1, <4>1, <4>2
      <3>2. CASE y.path \in Emptied(dir, stop)
        <4>1. PICK k \in (stop + 1)..Len(dir) : y.path = SubSeq(dir, 1, k) BY <3>2 DEF Emptied
        <4>2. k \in 0..Len(dir) /\ k \in Nat BY <1>1
        <4>3. Len(y.path) = k BY <1>1, <4>1, <4>2, UpIs
        <4>4. n < k /\ SubSeq(y.path, 1, n) = d.path BY <1>8, <4>3 DEF IsUnder
        <4>5. n \in 0..k /\ n \in 1..Len(dir) BY <1>7, <4>2, <4>4
        <4>6. SubSeq(y.path, 1, n) = SubSeq(dir, 1, n) BY <1>1, <4>1, <4>2, <4>5, UpOfUp
        <4> QED BY <4>4, <4>5, <4>6
      <3> QED BY <1>4, <1>10, <3>1, <3>2
    <2>2. n <= stop
      <3>1. n > stop => n \in (stop + 1)..Len(dir) BY <2>1, <1>1
      <3>2. n > stop => d.path \in Emptied(dir, stop) BY <2>1, <3>1 DEF Emptied
      <3> QED BY <1>1, <1>7, <2>1, <3>2
    <2>3. CASE n < stop
      <3>1. stop \in 1..Len(dir) /\ stop \in 0..Len(dir) BY <1>1, <1>7, <2>3
      <3>2. PICK x \in m.src : x.path = SubSeq(dir, 1, stop) /\ x.dir
        BY <1>2, <3>1 DEF StandsIn
      <3>3. Len(x.path) = stop BY <1>1, <3>1, <3>2, UpIs
      <3>4. x.path \notin Emptied(dir, stop)
        <4>1. ASSUME NEW k \in (stop + 1)..Len(dir) PROVE Len(SubSeq(dir, 1, k)) = k
          <5>1. k \in 0..Len(dir) BY <1>1, <3>1
          <5> QED BY <1>1, <5>1, UpIs
        <4>2. \A k \in (stop + 1)..Len(dir) : SubSeq(dir, 1, k) # x.path BY <3>1, <3>3, <4>1
        <4> QED BY <4>2 DEF Emptied
      <3>5. x \in r.src BY <1>2, <1>4, <3>2, <3>4
      <3>6. IsUnder(x.path, d.path)
        <4>1. n \in 0..stop BY <1>7, <2>3
        <4>2. SubSeq(x.path, 1, n) = SubSeq(dir, 1, n) BY <1>1, <3>1, <3>2, <4>1, UpOfUp
        <4> QED BY <2>1, <2>3, <3>3, <4>2 DEF IsUnder
      <3> QED BY <3>5, <3>6
    <2>4. CASE n = stop
      <3>1. stop # Len(Source)
        <4>1. stop = Len(Source) => d.path = Source
          <5>1. Len(Source) \in 0..Len(dir) BY <1>1
          <5> QED BY <1>1, <2>1, <2>4, <5>1
        <4> QED BY <1>7, <4>1
      <3>2. PICK x \in SubsetByPath(r.src, d.path) : TRUE BY <1>5, <2>1, <2>4, <3>1
      <3>3. /\ x \in r.src /\ (x.dir => x.path # d.path)
            /\ HasPrefix(IF x.dir THEN x.path ELSE Parent(x.path), d.path)
        BY <3>2 DEF SubsetByPath
      <3>4. x \in pl.src BY <1>4, <3>3
      <3>5. /\ x.path \in Path /\ x.path # << >> /\ x.dir \in BOOLEAN
            /\ x.path \in LocalFiles \cup LocalDirs /\ Len(x.path) \in Nat \ {0}
        BY <1>6, <3>4, ParentIs
      <3> DEFINE k == IF x.dir THEN Len(x.path) ELSE Len(x.path) - 1
      <3>6. HasPrefix(SubSeq(x.path, 1, k), d.path) BY <3>3, <3>5, Whole DEF Parent
      <3>7. k \in 1..Len(x.path)
        <4>1. k \in 0..Len(x.path) BY <3>5
        <4>2. Len(SubSeq(x.path, 1, k)) = k BY <3>5, <4>1, UpIs
        <4>3. n <= k BY <3>6, <4>2 DEF HasPrefix
        <4> HIDE DEF k
        <4> QED BY <1>7, <3>5, <4>1, <4>3
      <3>8. n <= k /\ SubSeq(x.path, 1, n) = d.path
        <4> HIDE DEF k
        <4> QED BY <1>7, <3>5, <3>6, <3>7, PrefixIsAbove
      <3>9. n < Len(x.path)
        <4>1. CASE x.dir
          <5>1. n = Len(x.path) => x.path = d.path BY <3>5, <3>8, Whole
          <5> QED BY <1>7, <3>3, <3>5, <3>8, <4>1, <5>1
        <4>2. CASE ~x.dir BY <1>7, <3>5, <3>8, <4>2
        <4> QED BY <4>1, <4>2
      <3> QED BY <3>3, <3>8, <3>9 DEF IsUnder
    <2> QED BY <1>1, <1>7, <2>2, <2>3, <2>4
  <1> QED BY <1>9, <1>10

(* So does the removal of a page index. *)
LEMMA RemoveLocalIndexLeavesOccupied ==
  ASSUME PlainPaths, NEW pl, Sound(pl), Occupied(pl.src), NEW b \in BookPaths, NEW n \in {1, 2}
  PROVE  Occupied(RemoveLocalIndex(pl, Source \o Index(b, n)).src)
  <1> DEFINE p == Source \o Index(b, n)
             o == CHOOSE o \in Find(pl.src, p) : TRUE
  <1>1. CASE Find(pl.src, p) = {} BY <1>1 DEF RemoveLocalIndex
  <1>2. CASE Find(pl.src, p) # {}
    <2>1. o \in Find(pl.src, p) BY <1>2
    <2>2. o \in Objects /\ o.path = p BY <2>1 DEF Find, Sound, Plans
    <2>3. RemoveLocalIndex(pl, p) = MakeRemoveActions(pl, o) BY <1>2 DEF RemoveLocalIndex
    <2>4. p \in FilesIn(pl.src) /\ Index(b, n) \in Indexes BY <1>2, FoundIndex
    <2> HIDE DEF o
    <2> QED BY <2>2, <2>3, <2>4, RemovingLeavesOccupied
  <1> QED BY <1>1, <1>2

(* So does all that goes with a book of case 7. *)
LEMMA Case7LeavesOccupied ==
  ASSUME PlainPaths, NEW pl, Sound(pl), Occupied(pl.src), NEW b \in BookPaths,
         Source \o b \in FilesIn(pl.src)
  PROVE  Occupied(Case7Of(pl, b).src)
  <1> DEFINE p == Source \o b
             o == [path |-> p, dir |-> FALSE, id |-> 0]
             p1 == Source \o Index(b, 1)
             p2 == Source \o Index(b, 2)
             r == Case7Of(pl, b)
  <1>1. PICK one, two, three :
          /\ one = MakeRemoveActions(pl, o)
          /\ two = RemoveLocalIndex(one, p1) /\ three = RemoveLocalIndex(two, p2)
          /\ r = RemoveThumb(three, b)
          /\ Shrinks(pl, one, {p})
          /\ Shrinks(one, two, {p1} \cap IndexesOf(b, Source))
          /\ Shrinks(two, three, {p2} \cap IndexesOf(b, Source))
    BY Case7Steps, Zenon
  <1>2. o \in Objects /\ o.path = p
    BY ConstantsArePaths, UpsOfLocal DEF Objects
  <1> HIDE DEF o, r
  <1>3. Sound(one) /\ Sound(two) /\ Sound(three) BY <1>1 DEF Shrinks
  <1>4. Occupied(one.src) BY <1>1, <1>2, RemovingLeavesOccupied
  <1>5. Occupied(two.src) BY <1>1, <1>3, <1>4, RemoveLocalIndexLeavesOccupied
  <1>6. Occupied(three.src) BY <1>1, <1>3, <1>5, RemoveLocalIndexLeavesOccupied
  <1>7. r.src = three.src BY <1>1, <1>3, RemoveThumbDoes DEF Extends
  <1> QED BY <1>6, <1>7 DEF r

(* A scanned source has no empty directory.                                *)
LEMMA TreeIsOccupied ==
  ASSUME NEW m \in Mixes
  PROVE  Occupied(Scan(LocalTree(m)))
  <1> DEFINE files == {Source \o p : p \in m.books \cup m.indexes}
             tree == LocalTree(m)
  <1>1. m.books \subseteq BookPaths /\ m.books # {} /\ m.indexes \subseteq Indexes
    BY DEF Mixes
  <1>2. \A f \in files : f \in Path /\ IsUnder(f, Source)
    <2> SUFFICES ASSUME NEW q \in BookPaths \cup Indexes
                 PROVE  Source \o q \in Path /\ IsUnder(Source \o q, Source)
      BY <1>1
    <2> QED BY ConstantsArePaths, ConcatIs, UnderRoot
  <1>3. PICK some \in files : TRUE BY <1>1
  <1>4. tree = Tree(Source, files) BY DEF LocalTree
  <1> HIDE DEF files, tree
  <1> SUFFICES ASSUME NEW d \in Scan(tree), d.dir, d.path # Source
               PROVE  \E y \in Scan(tree) : IsUnder(y.path, d.path)
    BY DEF Occupied, tree
  <1>5. PICK x \in tree : d = [path |-> x.path, dir |-> x.dir, id |-> 0] BY DEF Scan
  <1>6. d.path = x.path /\ x.dir BY <1>5
  <1>7. /\ \/ x.path \in files /\ x = File(x.path)
           \/ /\ x = Dir(x.path)
              /\ \/ x.path = Source \/ IsUnder(Source, x.path)
                 \/ \E f \in files : IsUnder(f, x.path)
        /\ x.path \in Path
    BY <1>2, <1>4, ConstantsArePaths, TreeIs
  <1>8. x # File(x.path) BY <1>6 DEF File
  <1>9. PICK f \in files : IsUnder(f, x.path)
    BY <1>2, <1>3, <1>6, <1>7, <1>8, ConstantsArePaths, UnderUnder
  <1>10. File(f) \in tree BY <1>4, FilesOfTree
  <1>11. [path |-> f, dir |-> FALSE, id |-> 0] \in Scan(tree)
    <2>1. File(f).path = f /\ File(f).dir = FALSE BY DEF File
    <2> QED BY <1>10, <2>1 DEF Scan
  <1> QED BY <1>6, <1>9, <1>11

(* While the plan is made, it leaves no directory of the source empty.     *)
LEMMA OccupiedInvariant ==
  ASSUME PlainNames
  PROVE  Spec => []Occupied(plan.src)
  <1>1. PlainPaths BY PathsArePlain
  <1>2. Init => Occupied(plan.src)
    <2> SUFFICES ASSUME Init PROVE Occupied(plan.src) OBVIOUS
    <2>1. PICK m \in Mixes : local = LocalTree(m) /\ Begin(Scan(local), Scan(device))
      BY Zenon DEF Init
    <2>2. plan.src = Scan(local) BY <2>1 DEF Begin
    <2> QED BY <2>1, <2>2, TreeIsOccupied
  <1>3. Occupied(plan.src) /\ Inv /\ [Next]_vars => Occupied(plan.src)'
    <2> SUFFICES ASSUME Occupied(plan.src), Inv, [Next]_vars
                 PROVE  Occupied(plan.src)'
      OBVIOUS
    <2>1. CASE \E b \in BookPaths : PlanCase7(b)
      <3>1. PICK b \in BookPaths : PlanCase7(b) BY <2>1
      <3>2. phase = "case7" /\ b \in todo /\ plan' = Case7Of(plan, b)
        BY <3>1, Zenon DEF PlanCase7, PlanBook, Case7Of
      <3>3. Sound(plan) /\ Source \o b \in FilesIn(plan.src)
        BY <3>2, SoundWhilePlanning
           DEF Inv, Types, Planning, PlanIsSound, TodoIsOfCase, BooksArePlanned,
               LocalPlanned, Case7
      <3> QED BY <1>1, <3>2, <3>3, Case7LeavesOccupied
    <2>2. CASE \E b \in BookPaths : PlanCase6(b)
      <3>1. PICK b \in BookPaths : PlanCase6(b) BY <2>2
      <3>2. phase = "case6" /\ b \in todo /\ plan' = Case6Of(plan, b)
        BY <3>1, Zenon DEF PlanCase6, PlanBook, Case6Of
      <3>3. Sound(plan) /\ Target \o b \in FilesIn(plan.dst)
        BY <3>2, SoundWhilePlanning
           DEF Inv, Types, Planning, PlanIsSound, TodoIsOfCase, BooksArePlanned,
               DevicePlanned, Case6
      <3>4. Case6Of(plan, b).src = plan.src
        <4>1. PICK o, one, two, three :
                /\ Case6Of(plan, b) = RemoveThumb(three, b)
                /\ one.src = plan.src /\ two.src = one.src /\ three.src = two.src /\ Sound(three)
          BY <3>3, Case6Steps DEF Extends
        <4> QED BY <4>1, RemoveThumbDoes DEF Extends
      <3> QED BY <3>2, <3>4
    <2>3. CASE \E b \in BookPaths : PlanCase3(b)
      <3>1. PICK b \in BookPaths : PlanCase3(b) BY <2>3
      <3>2. phase = "case3" /\ b \in todo /\ plan' = Case3Of(plan, b)
        BY <3>1, Zenon DEF PlanCase3, PlanBook, Case3Of
      <3>3. Sound(plan)
        BY <3>2, SoundWhilePlanning DEF Inv, Types, Planning, PlanIsSound
      <3>4. Case3Of(plan, b).src = plan.src
        <4> DEFINE r == Case3Of(plan, b)
                   known(x, y) == y = x \/ \E lost, made, copied : Extends(x, y, lost, made, copied)
        <4>1. \E one, two, three :
                known(plan, one) /\ known(one, two) /\ known(two, three) /\ known(three, r)
          <5> DEFINE p  == Source \o b
                     p1 == Source \o Index(b, 1)
                     p2 == Source \o Index(b, 2)
                     q1 == Target \o Index(b, 1)
                     q2 == Target \o Index(b, 2)
                     t  == ThumbOf[Name(b)]
          <5>1. PICK one, two, three :
                  /\ Extends(plan, one, {Target \o b}, {Target \o b}, {p})
                  /\ \/ p1 \notin FilesIn(one.src) /\ two = one
                     \/ Extends(one, two, {q1}, {q1}, {p1}) /\ q1 \in HereIndexes(b, Target)
                  /\ \/ p2 \notin FilesIn(two.src) /\ three = two
                     \/ Extends(two, three, {q2}, {q2}, {p2}) /\ q2 \in HereIndexes(b, Target)
                  /\ IF ~thumbsOn \/ t = NoThumb THEN r = three
                     ELSE Extends(three, r, {ThumbPath(b)}, {ThumbPath(b)}, {<<t>>})
            BY <3>3, Case3Steps, Zenon
          <5>2. known(plan, one) /\ known(one, two) /\ known(two, three) /\ known(three, r)
            <6> HIDE DEF r, p, p1, p2, q1, q2, t
            <6> QED BY <5>1
          <5> HIDE DEF known
          <5> QED BY <5>2
        <4>2. \A x, y : known(x, y) => y.src = x.src BY DEF Extends
        <4> HIDE DEF r, known
        <4> QED BY <4>1, <4>2 DEF r
      <3> QED BY <3>2, <3>4
    <2>4. CASE plan' = plan BY <2>4
    <2> QED BY <2>1, <2>2, <2>3, <2>4
          DEF Next, vars, EndCase7, EndCase6, EndCase3, PlanKeeps, RunAction, Finish
  <1> QED BY <1>2, <1>3, Invariance, PTL DEF Spec

(* At the end the source is the planned source. *)
LEMMA DoneIsOccupied == Inv /\ Occupied(plan.src) => NoEmptyDirectory
  <1> SUFFICES ASSUME Inv, Occupied(plan.src), Done, NEW x \in local, x.dir, x.path # Source
               PROVE  \E y \in local : IsUnder(y.path, x.path)
    BY DEF NoEmptyDirectory
  <1>1. next > Len(plan.actions) /\ next \in Nat /\ plan.actions \in Seq(Actions)
    BY DEF Inv, Types, Done, PlanIsSound, SoundFrom, Plans
  <1>2. next..Len(plan.actions) = {} BY <1>1, LenProperties
  <1>3. Bare(plan.src) = local
    BY <1>2 DEF Inv, PlanIsSound, SoundFrom, LocalForetold, Gone
  <1>4. PICK o \in plan.src : x = [path |-> o.path, dir |-> o.dir] BY <1>3 DEF Bare
  <1>5. PICK y \in plan.src : IsUnder(y.path, o.path) BY <1>4 DEF Occupied
  <1>6. [path |-> y.path, dir |-> y.dir] \in local BY <1>3, <1>5 DEF Bare
  <1> QED BY <1>4, <1>5, <1>6

(* Unless the name of a directory begins with the one of another, removing *)
(* books leaves no empty directory in the source.                          *)
THEOREM NoDirectoryStaysEmpty ==
  ASSUME PlainNames
  PROVE  Spec => []NoEmptyDirectory
  BY OccupiedInvariant, Invariance, DoneIsOccupied, PTL

(***************************************************************************)
(* Side files go with their book.                                          *)
(***************************************************************************)
(* No two books have the same thumbnail or the same page index.            *)
OwnSideFiles ==
  \A b, c \in BookPaths : b # c =>
    /\ ThumbOf[Name(b)] = ThumbOf[Name(c)] => ThumbOf[Name(b)] = NoThumb
    /\ \A n, k \in {1, 2} : Index(b, n) # Index(c, k)

(* Every thumbnail that the plan leaves on the device can be looked up.    *)
Listed(pl) ==
  \A c \in BookPaths : ThumbPath(c) \in FilesIn(pl.dst) => ThumbEntries(pl, c) # {}

(* Removing files leaves the other thumbnails where they can be looked up. *)
LEMMA ListedBefore ==
  ASSUME NEW pl, NEW r, Listed(pl), FilesIn(r.dst) \subseteq FilesIn(pl.dst),
         r.thumbs = pl.thumbs
  PROVE  Listed(r)
  BY DEF Listed, ThumbEntries

(* The thumbnail that is looked up is the one that is there. *)
LEMMA RemoveThumbClears ==
  ASSUME NEW pl, Sound(pl), Listed(pl), NEW b \in BookPaths
  PROVE  LET r == RemoveThumb(pl, b)
         IN  /\ ThumbPath(b) \notin FilesIn(r.dst) /\ Listed(r)
             /\ FilesIn(r.dst) \subseteq FilesIn(pl.dst)
  <1> DEFINE r == RemoveThumb(pl, b)
  <1>1. CASE ThumbEntries(pl, b) = {} /\ r = pl BY <1>1 DEF Listed
  <1>2. CASE /\ Extends(pl, r, {ThumbPath(b)}, {}, {})
             /\ \E e \in ThumbEntries(pl, b) : r.thumbs = pl.thumbs \ {e}
    <2>1. PICK e \in ThumbEntries(pl, b) : r.thumbs = pl.thumbs \ {e} BY <1>2
    <2>2. e.key = <<ThumbOf[Name(b)]>> BY <2>1 DEF ThumbEntries
    <2> HIDE DEF r
    <2>3. FilesIn(r.dst) = FilesIn(pl.dst) \ {ThumbPath(b)} BY <1>2 DEF Extends
    <2>4. ASSUME NEW c \in BookPaths, ThumbPath(c) \in FilesIn(r.dst)
          PROVE  ThumbEntries(r, c) # {}
      <3>1. ThumbPath(c) \in FilesIn(pl.dst) /\ ThumbPath(c) # ThumbPath(b) BY <2>3, <2>4
      <3>2. PICK x \in ThumbEntries(pl, c) : TRUE BY <3>1 DEF Listed
      <3>3. x.object.path = ThumbPath(c) /\ e.object.path = ThumbPath(b)
        BY <3>2, ThumbEntryIs
      <3>4. x \in r.thumbs BY <2>1, <3>1, <3>2, <3>3 DEF ThumbEntries
      <3> QED BY <3>2, <3>4 DEF ThumbEntries
    <2> QED BY <2>3, <2>4 DEF Listed, r
  <1> QED BY <1>1, <1>2, RemoveThumbDoes

(* The folder of the thumbnails was read whole.                            *)
LEMMA BeginsListed ==
  ASSUME NEW m \in Mixes, device = DeviceTree(m), Begin(Scan(local), Scan(device))
  PROVE  Listed(plan)
  <1> SUFFICES ASSUME NEW c \in BookPaths, ThumbPath(c) \in FilesIn(plan.dst)
               PROVE  ThumbEntries(plan, c) # {}
    BY DEF Listed
  <1> DEFINE books == {Target \o p : p \in m.bookCopies \cup m.indexCopies \cup m.own}
             thumbs == {Append(ThumbFolder, t) : t \in m.thumbs}
             p == ThumbPath(c)
  <1>1. plan.dst = Scan(device) /\ plan.thumbs = ThumbsAmong(plan.dst)
        /\ thumbsOn = (Find(plan.dst, ThumbFolder) # {})
    <2>1. plan = [actions |-> << >>, src |-> Scan(local), dst |-> Scan(device),
                  thumbs |-> ThumbsAmong(Scan(device))]
          /\ thumbsOn = (Find(Scan(device), ThumbFolder) # {})
      BY DEF Begin
    <2> QED BY <2>1
  <1>2. /\ \A x \in device : x = File(x.path) \/ x = Dir(x.path)
        /\ \A x \in device : x.path \in Path /\ x.path # << >>
    BY DeviceTreeIs
  <1>3. \A f : /\ f \in FilesIn(Scan(device)) <=> File(f) \in device
               /\ f \in DirsIn(Scan(device)) <=> Dir(f) \in device
    BY <1>2, ScanIs
  <1>4. File(p) \in device BY <1>1, <1>3
  <1>5. p \in Path /\ p # << >> /\ Parent(p) = ThumbFolder /\ Name(p) = ThumbOf[Name(c)]
        /\ IsUnder(p, ThumbFolder)
    BY ThumbPathIs
  <1>6. /\ \A f \in books : f \in Path /\ IsUnder(f, Target)
        /\ m.bookCopies \subseteq BookPaths /\ m.indexCopies \subseteq Indexes
        /\ m.own \subseteq DeviceOwn
    <2>1. m.bookCopies \subseteq BookPaths /\ m.indexCopies \subseteq Indexes
          /\ m.own \subseteq DeviceOwn
      BY DEF Mixes
    <2>2. ASSUME NEW q \in Files PROVE Target \o q \in Path /\ IsUnder(Target \o q, Target)
      BY ConstantsArePaths, ConcatIs, UnderRoot
    <2> QED BY <2>1, <2>2 DEF Files
  <1> HIDE DEF p, books
  <1>7. File(p).path = p /\ ~File(p).dir BY DEF File
  <1>8. m.folder
    <2> SUFFICES ASSUME ~m.folder PROVE FALSE OBVIOUS
    <2>1. File(p) \in {Dir(q) : q \in Stock}
          \/ (books # {} /\ File(p) \in Tree(Target, books))
      BY <1>4 DEF DeviceTree, books
    <2>2. File(p) \notin {Dir(q) : q \in Stock} BY <1>7 DEF Dir
    <2>3. \/ File(p).path \in books /\ File(p) = File(File(p).path)
          \/ File(p) = Dir(File(p).path)
      <3>1. books \in SUBSET Path /\ \A f \in books : IsUnder(f, Target) BY <1>6
      <3> QED BY <2>1, <2>2, <3>1, ConstantsArePaths, TreeIs
    <2>4. File(p) # Dir(File(p).path) BY <1>7 DEF Dir
    <2>5. p \in books BY <1>7, <2>3, <2>4
    <2> QED BY <1>5, <1>6, <2>5, FoldersApart
  <1>9. Dir(ThumbFolder) \in device
    <2>1. Len(ThumbFolder) \in 1..Len(ThumbFolder)
          /\ SubSeq(ThumbFolder, 1, Len(ThumbFolder)) = ThumbFolder
      BY ConstantsArePaths, ParentIs, Whole
    <2>2. Dir(ThumbFolder) \in Tree(ThumbFolder, thumbs) BY <2>1 DEF Tree
    <2> QED BY <1>8, <2>2 DEF DeviceTree
  <1>10. thumbsOn
    <2>1. ThumbFolder \in DirsIn(plan.dst) BY <1>1, <1>3, <1>9
    <2> QED BY <1>1, <2>1 DEF DirsIn, Find
  <1>11. PICK o \in plan.dst : o.path = p /\ ~o.dir
    BY DEF FilesIn, p
  <1>12. [key |-> <<Name(o.path)>>, object |-> o] \in plan.thumbs
    BY <1>1, <1>5, <1>11 DEF ThumbsAmong
  <1>13. [key |-> <<Name(o.path)>>, object |-> o].key = <<ThumbOf[Name(c)]>>
    BY <1>5, <1>11
  <1> QED BY <1>10, <1>12, <1>13 DEF ThumbEntries

(* What the plan of a book of case 7 leaves of the side files. *)
LEMMA Case7Clears ==
  ASSUME NEW pl, Sound(pl), Listed(pl), NEW b \in BookPaths, Source \o b \in FilesIn(pl.src)
  PROVE  LET r == Case7Of(pl, b)
         IN  /\ ThumbPath(b) \notin FilesIn(r.dst) /\ Listed(r)
             /\ FilesIn(r.dst) \subseteq FilesIn(pl.dst)
  <1> DEFINE p == Source \o b
             p1 == Source \o Index(b, 1)
             p2 == Source \o Index(b, 2)
             r == Case7Of(pl, b)
  <1>1. PICK one, two, three :
          /\ r = RemoveThumb(three, b)
          /\ Shrinks(pl, one, {p})
          /\ Shrinks(one, two, {p1} \cap IndexesOf(b, Source))
          /\ Shrinks(two, three, {p2} \cap IndexesOf(b, Source))
    BY Case7Steps, Zenon
  <1> HIDE DEF r, p, p1, p2
  <1>2. Sound(three) /\ three.dst = pl.dst /\ three.thumbs = pl.thumbs BY <1>1 DEF Shrinks
  <1>3. Listed(three) BY <1>2, ListedBefore
  <1> QED BY <1>1, <1>2, <1>3, RemoveThumbClears DEF r

(* What the plan of a book of case 6 leaves of the side files. *)
LEMMA Case6Clears ==
  ASSUME NEW pl, Sound(pl), Listed(pl), NEW b \in BookPaths, Target \o b \in FilesIn(pl.dst)
  PROVE  LET r == Case6Of(pl, b)
         IN  /\ OnDevice(b) \cap FilesIn(r.dst) = {} /\ Listed(r)
             /\ FilesIn(r.dst) \subseteq FilesIn(pl.dst)
             /\ FilesIn(r.src) = FilesIn(pl.src)
  <1> DEFINE p == Target \o b
             p1 == Target \o Index(b, 1)
             p2 == Target \o Index(b, 2)
             r == Case6Of(pl, b)
  <1>1. PICK o, one, two, three :
          /\ r = RemoveThumb(three, b)
          /\ Extends(pl, one, {p}, {}, {})
          /\ Extends(one, two, {p1} \cap IndexesOf(b, Target), {}, {})
          /\ Extends(two, three, {p2} \cap IndexesOf(b, Target), {}, {})
          /\ three.thumbs = pl.thumbs
    BY Case6Steps, Zenon
  <1>2. /\ Changes(pl, r, {}, OnDevice(b), {})
        /\ (OnDevice(b) \ {ThumbPath(b)}) \cap FilesIn(r.dst) = {}
    BY Case6Does
  <1> HIDE DEF r, p, p1, p2
  <1>3. Sound(three) /\ FilesIn(three.dst) \subseteq FilesIn(pl.dst) BY <1>1 DEF Extends
  <1>4. Listed(three) BY <1>1, <1>3, ListedBefore
  <1>5. /\ ThumbPath(b) \notin FilesIn(r.dst) /\ Listed(r)
        /\ FilesIn(r.dst) \subseteq FilesIn(three.dst)
    BY <1>1, <1>3, <1>4, RemoveThumbClears
  <1>6. FilesIn(r.src) = FilesIn(pl.src) BY <1>2 DEF Changes
  <1> QED BY <1>2, <1>3, <1>5, <1>6 DEF r

(* What copying a book may put on the device. *)
PutFor(b) ==
  {Target \o b} \cup HereIndexes(b, Target) \cup
    (IF ThumbOf[Name(b)] = NoThumb THEN {} ELSE {ThumbPath(b)})

(* A book that is copied puts nothing else on the device. *)
LEMMA Case3Puts ==
  ASSUME NEW pl, Sound(pl), NEW b \in BookPaths
  PROVE  LET r == Case3Of(pl, b)
         IN  /\ FilesIn(r.dst) \subseteq FilesIn(pl.dst) \cup PutFor(b)
             /\ FilesIn(r.src) = FilesIn(pl.src)
  <1> DEFINE p  == Source \o b
             p1 == Source \o Index(b, 1)
             p2 == Source \o Index(b, 2)
             q1 == Target \o Index(b, 1)
             q2 == Target \o Index(b, 2)
             t  == ThumbOf[Name(b)]
             r  == Case3Of(pl, b)
  <1>1. PICK one, two, three :
          /\ Extends(pl, one, {Target \o b}, {Target \o b}, {p})
          /\ \/ p1 \notin FilesIn(one.src) /\ two = one
             \/ Extends(one, two, {q1}, {q1}, {p1}) /\ q1 \in HereIndexes(b, Target)
          /\ \/ p2 \notin FilesIn(two.src) /\ three = two
             \/ Extends(two, three, {q2}, {q2}, {p2}) /\ q2 \in HereIndexes(b, Target)
          /\ IF ~thumbsOn \/ t = NoThumb THEN r = three
             ELSE Extends(three, r, {ThumbPath(b)}, {ThumbPath(b)}, {<<t>>})
    BY Case3Steps, Zenon
  <1>2. FilesIn(r.src) = FilesIn(pl.src)
    <2>1. Changes(pl, r, {}, OnDevice(b), CopiedFor(b)) BY Case3Does
    <2> QED BY <2>1 DEF Changes
  <1> HIDE DEF r, p, p1, p2, q1, q2
  <1>3. FilesIn(one.dst) \subseteq FilesIn(pl.dst) \cup PutFor(b)
    BY <1>1 DEF Extends, PutFor
  <1>4. FilesIn(two.dst) \subseteq FilesIn(one.dst) \cup PutFor(b)
    BY <1>1 DEF Extends, PutFor
  <1>5. FilesIn(three.dst) \subseteq FilesIn(two.dst) \cup PutFor(b)
    BY <1>1 DEF Extends, PutFor
  <1>6. FilesIn(r.dst) \subseteq FilesIn(three.dst) \cup PutFor(b)
    BY <1>1 DEF Extends, PutFor
  <1> QED BY <1>2, <1>3, <1>4, <1>5, <1>6 DEF r

(* None of it belongs to another book. *)
LEMMA PutIsOwn ==
  ASSUME OwnSideFiles, NEW b \in BookPaths, NEW c \in BookPaths, b # c
  PROVE  ({ThumbPath(c)} \cup HereIndexes(c, Target)) \cap PutFor(b) = {}
  <1>1. ASSUME NEW x \in HereIndexes(b, Target) PROVE \E n \in {1, 2} : x = Target \o Index(b, n)
    BY <1>1 DEF HereIndexes
  <1>2. ASSUME NEW x \in HereIndexes(c, Target) PROVE \E n \in {1, 2} : x = Target \o Index(c, n)
    BY <1>2 DEF HereIndexes
  <1>3. Target \o b \notin HereIndexes(c, Target) BY IndexIsNoBook
  <1>4. ThumbPath(c) # Target \o b BY ConstantsArePaths, NoBookIsThumb
  <1>5. ThumbPath(c) \notin HereIndexes(b, Target)
    <2>1. ASSUME NEW n \in {1, 2} PROVE Target \o Index(b, n) # ThumbPath(c)
      BY IndexIs, NoBookIsThumb
    <2> QED BY <1>1, <2>1
  <1>6. ThumbPath(b) \notin HereIndexes(c, Target)
    <2>1. ASSUME NEW n \in {1, 2} PROVE Target \o Index(c, n) # ThumbPath(b)
      BY IndexIs, NoBookIsThumb
    <2> QED BY <1>2, <2>1
  <1>7. HereIndexes(b, Target) \cap HereIndexes(c, Target) = {}
    <2>1. ASSUME NEW n \in {1, 2}, NEW k \in {1, 2}
          PROVE  Target \o Index(b, n) # Target \o Index(c, k)
      <3>1. Index(b, n) \in Path /\ Index(c, k) \in Path /\ Target \in Path
        BY IndexIs, ConstantsArePaths
      <3>2. Index(b, n) # Index(c, k) BY DEF OwnSideFiles
      <3> QED BY <3>1, <3>2, ConcatInjective
    <2> QED BY <1>1, <1>2, <2>1
  <1>8. ThumbOf[Name(b)] # NoThumb => ThumbPath(b) # ThumbPath(c)
    BY ThumbPathIs DEF OwnSideFiles
  <1> QED BY <1>3, <1>4, <1>5, <1>6, <1>7, <1>8 DEF PutFor

(* The side files of what is planned to go.                                *)
LocalCleared ==
  \A b \in BookPaths : Source \o b \in Gone(plan.actions, 1) =>
    /\ ThumbPath(b) \notin FilesIn(plan.dst)
    /\ HereIndexes(b, Source) \cap FilesIn(plan.src) = {}

(* On the device as well; a book may be removed there to be copied again. *)
DeviceCleared ==
  \A b \in (IF phase = "case7" THEN BookPaths ELSE BookPaths \ localBooks) :
    Target \o b \in Removed(plan.actions) =>
      ({ThumbPath(b)} \cup HereIndexes(b, Target)) \cap FilesIn(plan.dst) = {}

(* The inductive part of SideFilesAreRemoved. *)
Cleared ==
  /\ phase \in {"case7", "case6"} => Listed(plan)
  /\ LocalCleared /\ DeviceCleared

(* A book whose removal is planned is none of the source's any more.       *)
LEMMA GoneIsGone ==
  ASSUME NEW pl, Sound(pl), NEW p \in Gone(pl.actions, 1)
  PROVE  p \notin FilesIn(pl.src)
  <1> SUFFICES ASSUME NEW o \in pl.src, o.path = p PROVE FALSE BY DEF FilesIn
  <1>1. [path |-> o.path, dir |-> o.dir] \in Bare(pl.src) BY DEF Bare
  <1>2. [path |-> o.path, dir |-> o.dir].path \notin Gone(pl.actions, 1)
    BY <1>1 DEF Sound, LocalForetold
  <1> QED BY <1>2

(* Nothing is planned yet. *)
LEMMA InitCleared == Init => Cleared
  <1> SUFFICES ASSUME Init PROVE Cleared OBVIOUS
  <1>1. PICK m \in Mixes :
          local = LocalTree(m) /\ device = DeviceTree(m) /\ Begin(Scan(local), Scan(device))
    BY Zenon DEF Init
  <1>2. plan.actions = << >> BY <1>1 DEF Begin
  <1>3. Len(plan.actions) = 0 /\ DOMAIN plan.actions = {} BY <1>2
  <1>4. Gone(plan.actions, 1) = {} BY <1>3 DEF Gone
  <1>5. Removed(plan.actions) = {} BY <1>3 DEF Removed
  <1>6. Listed(plan) BY <1>1, BeginsListed
  <1> QED BY <1>4, <1>5, <1>6 DEF Cleared, LocalCleared, DeviceCleared

(* Planning to delete a local book. *)
LEMMA PlanCase7Clears ==
  ASSUME Inv, Cleared, NEW b \in BookPaths, PlanCase7(b)
  PROVE  Cleared'
  <1>1. phase = "case7" /\ phase' = "case7" /\ b \in todo /\ plan' = Case7Of(plan, b)
        /\ localBooks' = localBooks /\ thumbsOn' = thumbsOn
    BY Zenon DEF PlanCase7, PlanBook, PlanKeeps, Case7Of
  <1>2. Sound(plan) /\ Source \o b \in FilesIn(plan.src)
    BY <1>1, SoundWhilePlanning
       DEF Inv, Types, Planning, PlanIsSound, TodoIsOfCase, BooksArePlanned, LocalPlanned, Case7
  <1>3. Listed(plan) BY <1>1 DEF Cleared
  <1> DEFINE r == Case7Of(plan, b)
  <1>4. /\ Changes(plan, r, {Source \o b} \cup HereIndexes(b, Source), {ThumbPath(b)}, {})
        /\ ThumbPath(b) \notin FilesIn(r.dst) /\ Listed(r)
        /\ FilesIn(r.dst) \subseteq FilesIn(plan.dst)
    BY <1>2, <1>3, Case7Does, Case7Clears
  <1>5. plan' = r BY <1>1
  <1> HIDE DEF r
  <1>6. Listed(plan)'
    <2>1. \A c : ThumbEntries(plan, c)' = ThumbEntries(r, c) BY <1>1, <1>5 DEF ThumbEntries
    <2> QED BY <1>4, <1>5, <2>1 DEF Listed
  <1>7. LocalCleared'
    <2> SUFFICES ASSUME NEW c \in BookPaths, Source \o c \in Gone(r.actions, 1)
                 PROVE  /\ ThumbPath(c) \notin FilesIn(r.dst)
                        /\ HereIndexes(c, Source) \cap FilesIn(r.src) = {}
      BY <1>5 DEF LocalCleared
    <2>1. FilesIn(r.src) = FilesIn(plan.src) \ ({Source \o b} \cup HereIndexes(b, Source))
          /\ Gone(r.actions, 1) \subseteq
               Gone(plan.actions, 1) \cup ({Source \o b} \cup HereIndexes(b, Source)) \cup InnerDirs
      BY <1>4 DEF Changes
    <2>2. CASE c = b BY <1>4, <2>1, <2>2
    <2>3. CASE c # b
      <3>1. Source \o c # Source \o b BY <2>3, ConstantsArePaths, ConcatInjective
      <3>2. Source \o c \notin HereIndexes(b, Source) BY IndexIsNoBook
      <3>3. Source \o c \notin InnerDirs BY LocalFileIsNoDir DEF InnerDirs, LocalFiles
      <3>4. Source \o c \in Gone(plan.actions, 1) BY <2>1, <3>1, <3>2, <3>3
      <3> QED BY <1>4, <2>1, <3>4 DEF Cleared, LocalCleared
    <2> QED BY <2>2, <2>3
  <1>8. DeviceCleared'
    <2> SUFFICES ASSUME NEW c \in BookPaths, Target \o c \in Removed(r.actions)
                 PROVE  ({ThumbPath(c)} \cup HereIndexes(c, Target)) \cap FilesIn(r.dst) = {}
      BY <1>1, <1>5 DEF DeviceCleared
    <2>1. Target \o c # ThumbPath(b) BY ConstantsArePaths, NoBookIsThumb
    <2>2. Target \o c \in Removed(plan.actions) BY <1>4, <2>1 DEF Changes
    <2> QED BY <1>1, <1>4, <2>2 DEF Cleared, DeviceCleared
  <1> QED BY <1>6, <1>7, <1>8 DEF Cleared

(* Planning to delete a book of the device. *)
LEMMA PlanCase6Clears ==
  ASSUME Inv, Cleared, NEW b \in BookPaths, PlanCase6(b)
  PROVE  Cleared'
  <1>1. phase = "case6" /\ phase' = "case6" /\ b \in todo /\ plan' = Case6Of(plan, b)
        /\ localBooks' = localBooks /\ thumbsOn' = thumbsOn
    BY Zenon DEF PlanCase6, PlanBook, PlanKeeps, Case6Of
  <1>2. Sound(plan) /\ Target \o b \in FilesIn(plan.dst)
    BY <1>1, SoundWhilePlanning
       DEF Inv, Types, Planning, PlanIsSound, TodoIsOfCase, BooksArePlanned, DevicePlanned, Case6
  <1>3. Listed(plan) BY <1>1 DEF Cleared
  <1> DEFINE r == Case6Of(plan, b)
  <1>4. /\ Changes(plan, r, {}, OnDevice(b), {})
        /\ OnDevice(b) \cap FilesIn(r.dst) = {} /\ Listed(r)
        /\ FilesIn(r.dst) \subseteq FilesIn(plan.dst) /\ FilesIn(r.src) = FilesIn(plan.src)
    BY <1>2, <1>3, Case6Does, Case6Clears
  <1>5. plan' = r BY <1>1
  <1> HIDE DEF r
  <1>6. Listed(plan)'
    <2>1. \A c : ThumbEntries(plan, c)' = ThumbEntries(r, c) BY <1>1, <1>5 DEF ThumbEntries
    <2> QED BY <1>4, <1>5, <2>1 DEF Listed
  <1>7. LocalCleared'
    <2> SUFFICES ASSUME NEW c \in BookPaths, Source \o c \in Gone(r.actions, 1)
                 PROVE  /\ ThumbPath(c) \notin FilesIn(r.dst)
                        /\ HereIndexes(c, Source) \cap FilesIn(r.src) = {}
      BY <1>5 DEF LocalCleared
    <2>1. Source \o c \notin InnerDirs BY LocalFileIsNoDir DEF InnerDirs, LocalFiles
    <2>2. Source \o c \in Gone(plan.actions, 1) BY <1>4, <2>1 DEF Changes
    <2> QED BY <1>4, <2>2 DEF Cleared, LocalCleared
  <1>8. DeviceCleared'
    <2> SUFFICES ASSUME NEW c \in BookPaths \ localBooks, Target \o c \in Removed(r.actions)
                 PROVE  ({ThumbPath(c)} \cup HereIndexes(c, Target)) \cap FilesIn(r.dst) = {}
      BY <1>1, <1>5 DEF DeviceCleared
    <2>1. CASE c = b BY <1>4, <2>1 DEF OnDevice
    <2>2. CASE c # b
      <3>1. Target \o c \notin OnDevice(b)
        <4>1. Target \o c # Target \o b BY <2>2, ConstantsArePaths, ConcatInjective
        <4>2. Target \o c \notin HereIndexes(b, Target) BY IndexIsNoBook
        <4>3. Target \o c # ThumbPath(b) BY ConstantsArePaths, NoBookIsThumb
        <4> QED BY <4>1, <4>2, <4>3 DEF OnDevice
      <3>2. Target \o c \in Removed(plan.actions) BY <1>4, <3>1 DEF Changes
      <3> QED BY <1>1, <1>4, <3>2 DEF Cleared, DeviceCleared
    <2> QED BY <2>1, <2>2
  <1> QED BY <1>6, <1>7, <1>8 DEF Cleared

(* Planning to copy a book does not put back what was removed with another *)
(* one.                                                                    *)
LEMMA PlanCase3Clears ==
  ASSUME OwnSideFiles, Inv, Cleared, NEW b \in BookPaths, PlanCase3(b)
  PROVE  Cleared'
  <1>1. phase = "case3" /\ phase' = "case3" /\ b \in todo /\ plan' = Case3Of(plan, b)
        /\ localBooks' = localBooks
    BY Zenon DEF PlanCase3, PlanBook, PlanKeeps, Case3Of
  <1>2. Sound(plan) /\ b \in localBooks
    BY <1>1, SoundWhilePlanning DEF Inv, Types, Planning, PlanIsSound, TodoIsOfCase, Case3
  <1> DEFINE r == Case3Of(plan, b)
  <1>3. /\ Changes(plan, r, {}, OnDevice(b), CopiedFor(b))
        /\ FilesIn(r.dst) \subseteq FilesIn(plan.dst) \cup PutFor(b)
        /\ FilesIn(r.src) = FilesIn(plan.src)
    BY <1>2, Case3Does, Case3Puts
  <1>4. plan' = r BY <1>1
  <1> HIDE DEF r
  <1>5. LocalCleared'
    <2> SUFFICES ASSUME NEW c \in BookPaths, Source \o c \in Gone(r.actions, 1)
                 PROVE  /\ ThumbPath(c) \notin FilesIn(r.dst)
                        /\ HereIndexes(c, Source) \cap FilesIn(r.src) = {}
      BY <1>4 DEF LocalCleared
    <2>1. Source \o c \notin InnerDirs BY LocalFileIsNoDir DEF InnerDirs, LocalFiles
    <2>2. Source \o c \in Gone(plan.actions, 1) BY <1>3, <2>1 DEF Changes
    <2>3. Source \o c \notin FilesIn(plan.src) BY <1>2, <2>2, GoneIsGone
    <2>4. c \notin localBooks BY <1>1, <2>3 DEF Inv, BooksArePlanned, LocalPlanned
    <2>5. ({ThumbPath(c)} \cup HereIndexes(c, Target)) \cap PutFor(b) = {}
      BY <1>2, <2>4, PutIsOwn
    <2> QED BY <1>3, <2>2, <2>5 DEF Cleared, LocalCleared
  <1>6. DeviceCleared'
    <2> SUFFICES ASSUME NEW c \in BookPaths \ localBooks, Target \o c \in Removed(r.actions)
                 PROVE  ({ThumbPath(c)} \cup HereIndexes(c, Target)) \cap FilesIn(r.dst) = {}
      BY <1>1, <1>4 DEF DeviceCleared
    <2>1. c # b BY <1>2
    <2>2. Target \o c \notin OnDevice(b)
      <3>1. Target \o c # Target \o b BY <2>1, ConstantsArePaths, ConcatInjective
      <3>2. Target \o c \notin HereIndexes(b, Target) BY IndexIsNoBook
      <3>3. Target \o c # ThumbPath(b) BY ConstantsArePaths, NoBookIsThumb
      <3> QED BY <3>1, <3>2, <3>3 DEF OnDevice
    <2>3. Target \o c \in Removed(plan.actions) BY <1>3, <2>2 DEF Changes
    <2>4. ({ThumbPath(c)} \cup HereIndexes(c, Target)) \cap FilesIn(plan.dst) = {}
      BY <1>1, <2>3 DEF Cleared, DeviceCleared
    <2>5. ({ThumbPath(c)} \cup HereIndexes(c, Target)) \cap PutFor(b) = {}
      BY <2>1, PutIsOwn
    <2> QED BY <1>3, <2>4, <2>5
  <1> QED BY <1>1, <1>5, <1>6 DEF Cleared

(* What is removed stays removed. *)
LEMMA NextCleared ==
  ASSUME OwnSideFiles
  PROVE  Inv /\ Cleared /\ [Next]_vars => Cleared'
  <1> SUFFICES ASSUME Inv, Cleared, [Next]_vars PROVE Cleared' OBVIOUS
  <1>1. CASE \E b \in BookPaths : PlanCase7(b) BY <1>1, PlanCase7Clears
  <1>2. CASE \E b \in BookPaths : PlanCase6(b) BY <1>2, PlanCase6Clears
  <1>3. CASE \E b \in BookPaths : PlanCase3(b) BY <1>3, PlanCase3Clears
  <1>4. CASE /\ plan' = plan /\ thumbsOn' = thumbsOn
             /\ localBooks' \subseteq localBooks
             /\ \/ localBooks' = localBooks /\ phase' = phase
                \/ phase = "case7" /\ phase' = "case6"
                \/ /\ localBooks' = localBooks /\ phase # "case7"
                   /\ phase' \notin {"case7", "case6"}
    <2>1. phase' \in {"case7", "case6"} => Listed(plan)'
      <3>1. phase' \in {"case7", "case6"} => phase \in {"case7", "case6"} BY <1>4
      <3>2. Listed(plan)' <=> Listed(plan) BY <1>4 DEF Listed, ThumbEntries
      <3> QED BY <3>1, <3>2 DEF Cleared
    <2>2. LocalCleared' BY <1>4 DEF Cleared, LocalCleared
    <2>3. DeviceCleared' BY <1>4 DEF Cleared, DeviceCleared, Inv, Types
    <2> QED BY <2>1, <2>2, <2>3 DEF Cleared
  <1>5. CASE EndCase7 \/ EndCase6 \/ EndCase3
    BY <1>4, <1>5 DEF EndCase7, EndCase6, EndCase3, PlanKeeps
  <1>6. CASE RunAction BY <1>4, <1>6 DEF RunAction, CarryOut
  <1>7. CASE Finish BY <1>4, <1>7 DEF Finish
  <1>8. CASE UNCHANGED vars BY <1>4, <1>8 DEF vars
  <1> QED BY <1>1, <1>2, <1>3, <1>5, <1>6, <1>7, <1>8 DEF Next

(* At the end the disks are the planned sides. *)
LEMMA DoneIsCleared == Inv /\ Cleared => SideFilesAreRemoved
  <1> SUFFICES ASSUME Inv, Cleared, Done, NEW b \in Dropped
               PROVE  /\ Append(ThumbFolder, ThumbOf[Name(b)]) \notin {x.path : x \in device}
                      /\ \A n \in DOMAIN Sides : b \in DroppedOn(n) =>
                           \A p \in IndexesOf(b, Sides[n]) : File(p) \notin <<local, device>>[n]
    BY DEF SideFilesAreRemoved
  <1>1. DOMAIN Sides = {1, 2} /\ Sides[1] = Source /\ Sides[2] = Target BY DEF Sides
  <1>2. b \in BookPaths \ localBooks BY <1>1 DEF Dropped, DroppedOn
  <1>3. plan.actions \in Seq(Actions) BY DEF Inv, PlanIsSound, SoundFrom, Plans
  <1>4. DOMAIN plan.actions = 1..Len(plan.actions) BY <1>3, LenProperties
  <1>5. b \in DroppedOn(1) => Source \o b \in Gone(plan.actions, 1)
    BY <1>1, <1>4 DEF DroppedOn, Gone
  <1>6. b \in DroppedOn(2) => Target \o b \in Removed(plan.actions)
    BY <1>1 DEF DroppedOn, Removed
  <1>7. b \in DroppedOn(1) \/ b \in DroppedOn(2) BY <1>1 DEF Dropped
  <1>8. phase # "case7" BY DEF Done
  <1>9. b \in DroppedOn(1) =>
          /\ ThumbPath(b) \notin FilesIn(plan.dst)
          /\ HereIndexes(b, Source) \cap FilesIn(plan.src) = {}
    BY <1>2, <1>5 DEF Cleared, LocalCleared
  <1>10. b \in DroppedOn(2) =>
          ({ThumbPath(b)} \cup HereIndexes(b, Target)) \cap FilesIn(plan.dst) = {}
    BY <1>2, <1>6, <1>8 DEF Cleared, DeviceCleared
  <1>11. ASSUME NEW x \in device, x.path = ThumbPath(b) PROVE FALSE
    <2>1. x = [path |-> x.path, dir |-> x.dir] /\ x.dir \in BOOLEAN /\ (x.dir => x.path \in DeviceDirs)
      BY DEF Inv, Disks
    <2>2. x.dir = FALSE BY <1>2, <1>11, <2>1, ThumbIsNoDir
    <2>3. x = File(ThumbPath(b)) BY <1>11, <2>1, <2>2 DEF File
    <2>4. ThumbPath(b) \in FilesIn(plan.dst) BY <1>2, <2>3, ThumbPathIs, PlannedIsDone
    <2> QED BY <1>7, <1>9, <1>10, <2>4
  <1>12. ASSUME b \in DroppedOn(1), NEW p \in IndexesOf(b, Source) PROVE File(p) \notin local
    <2>1. p \in HereIndexes(b, Source) BY <1>2, IndexesAreHere
    <2> QED BY <1>9, <1>12, <2>1, PlannedIsDone
  <1>13. ASSUME b \in DroppedOn(2), NEW p \in IndexesOf(b, Target) PROVE File(p) \notin device
    <2>1. PICK n \in {1, 2} : p = Target \o Index(b, n) /\ p \in HereIndexes(b, Target)
      BY <1>2, IndexesAreHere
    <2>2. p \in Path BY <1>2, <2>1, IndexIs, ConstantsArePaths, ConcatIs
    <2> QED BY <1>10, <1>13, <2>1, <2>2, PlannedIsDone
  <1>14. <<local, device>>[1] = local /\ <<local, device>>[2] = device OBVIOUS
  <1> QED BY <1>1, <1>11, <1>12, <1>13, <1>14 DEF ThumbPath

(* Unless two books have the same thumbnail or the same page index, a book *)
(* that is removed leaves no thumbnail and no page index behind.           *)
THEOREM SideFilesGo ==
  ASSUME OwnSideFiles
  PROVE  Spec => []SideFilesAreRemoved
  <1>1. Spec => []Cleared BY InitCleared, NextCleared, Invariance, PTL DEF Spec
  <1> QED BY <1>1, Invariance, DoneIsCleared, PTL

(***************************************************************************)
(* A plan runs to its end.                                                 *)
(***************************************************************************)
(* The action can be carried out on the disk, beside this source, and a    *)
(* copy takes the place of nothing.                                        *)
Fits(source, disk, a) ==
  /\ a.op = "Remove" => /\ \E x \in disk : x.path = a.object.path
                        /\ \A x \in disk : ~IsUnder(x.path, a.object.path)
  /\ a.op = "MkDir"  => /\ \A x \in disk : x.path # a.object.path
                        /\ HasParent(disk, a.object.path)
  /\ a.op = "Copy"   => /\ File(a.from) \in source \/ Len(a.from) = 1
                        /\ HasParent(disk, a.object.path)
                        /\ \A x \in disk : x.path # a.object.path

(* It takes the two disks to these. *)
Leads(a, src, dst, src1, dst1) ==
  IF a.on = "local" THEN Fits(src, src, a) /\ src1 = Effect(src, a.op, a.object) /\ dst1 = dst
  ELSE Fits(src, dst, a) /\ dst1 = Effect(dst, a.op, a.object) /\ src1 = src

(* The actions from the n-th on can be carried out one after the other, by *)
(* way of the disks S[i] and D[i], and lead from the one pair to the other. *)
Runs(acts, n, src, dst, src1, dst1) ==
  \E S, D :
    /\ S[n] = src /\ D[n] = dst /\ S[Len(acts) + 1] = src1 /\ D[Len(acts) + 1] = dst1
    /\ \A i \in n..Len(acts) : Leads(acts[i], S[i], D[i], S[i + 1], D[i + 1])

(* Nothing to do. *)
LEMMA NothingRuns ==
  ASSUME NEW acts, Len(acts) = 0, NEW src, NEW dst
  PROVE  Runs(acts, 1, src, dst, src, dst)
  <1> DEFINE S == [i \in {1} |-> src]
             D == [i \in {1} |-> dst]
  <1>1. S[1] = src /\ D[1] = dst OBVIOUS
  <1>2. 1..Len(acts) = {} /\ Len(acts) + 1 = 1 OBVIOUS
  <1> HIDE DEF S, D
  <1> QED BY <1>1, <1>2 DEF Runs

(* More actions at the end. *)
LEMMA LongerRuns ==
  ASSUME NEW acts, NEW r, NEW N \in Nat, NEW M \in Nat, Len(acts) = N, Len(r) = N + M,
         \A i \in 1..N : r[i] = acts[i],
         NEW src, NEW dst, NEW T, NEW E,
         Runs(acts, 1, src, dst, T[1], E[1]),
         \A i \in 1..M : Leads(r[N + i], T[i], E[i], T[i + 1], E[i + 1])
  PROVE  Runs(r, 1, src, dst, T[M + 1], E[M + 1])
  <1>1. PICK S, D :
          /\ S[1] = src /\ D[1] = dst /\ S[N + 1] = T[1] /\ D[N + 1] = E[1]
          /\ \A i \in 1..N : Leads(acts[i], S[i], D[i], S[i + 1], D[i + 1])
    BY DEF Runs
  <1> DEFINE S2 == [i \in 1..(N + M + 1) |-> IF i <= N THEN S[i] ELSE T[i - N]]
             D2 == [i \in 1..(N + M + 1) |-> IF i <= N THEN D[i] ELSE E[i - N]]
  <1>2. /\ \A i \in 1..N : S2[i] = S[i] /\ D2[i] = D[i]
        /\ \A i \in 1..(M + 1) : S2[N + i] = T[i] /\ D2[N + i] = E[i]
    <2>1. ASSUME NEW i \in 1..N PROVE S2[i] = S[i] /\ D2[i] = D[i]
      <3>1. i \in 1..(N + M + 1) /\ i <= N OBVIOUS
      <3> QED BY <3>1
    <2>2. ASSUME NEW i \in 1..(M + 1) PROVE S2[N + i] = T[i] /\ D2[N + i] = E[i]
      <3>1. N + i \in 1..(N + M + 1) /\ ~(N + i <= N) /\ (N + i) - N = i OBVIOUS
      <3> QED BY <3>1
    <2> QED BY <2>1, <2>2
  <1> HIDE DEF S2, D2
  <1>3. S2[N + 1] = S[N + 1] /\ D2[N + 1] = D[N + 1] /\ 1 \in 1..(M + 1)
    <2>1. 1 \in 1..(M + 1) OBVIOUS
    <2> QED BY <1>1, <1>2, <2>1
  <1>4. S2[1] = src /\ D2[1] = dst
    <2>1. CASE N = 0 BY <1>1, <1>3, <2>1
    <2>2. CASE N # 0
      <3>1. 1 \in 1..N BY <2>2
      <3> QED BY <1>1, <1>2, <3>1
    <2> QED BY <2>1, <2>2
  <1>5. S2[N + M + 1] = T[M + 1] /\ D2[N + M + 1] = E[M + 1]
    <2>1. M + 1 \in 1..(M + 1) /\ N + (M + 1) = N + M + 1 OBVIOUS
    <2> QED BY <1>2, <2>1
  <1>6. ASSUME NEW i \in 1..(N + M)
        PROVE  Leads(r[i], S2[i], D2[i], S2[i + 1], D2[i + 1])
    <2>1. CASE i \in 1..N
      <3>1. Leads(acts[i], S[i], D[i], S[i + 1], D[i + 1]) /\ r[i] = acts[i] BY <1>1, <2>1
      <3>2. S2[i] = S[i] /\ D2[i] = D[i] BY <1>2, <2>1
      <3>3. S2[i + 1] = S[i + 1] /\ D2[i + 1] = D[i + 1]
        <4>1. i + 1 \in 1..N \/ i = N BY <2>1
        <4> QED BY <1>2, <1>3, <4>1
      <3> QED BY <3>1, <3>2, <3>3
    <2>2. CASE i \notin 1..N
      <3> DEFINE k == i - N
      <3>1. k \in 1..M /\ k \in 1..(M + 1) /\ k + 1 \in 1..(M + 1)
            /\ i = N + k /\ i + 1 = N + (k + 1)
        BY <2>2
      <3> HIDE DEF k
      <3>2. Leads(r[N + k], T[k], E[k], T[k + 1], E[k + 1]) BY <3>1
      <3>3. S2[N + k] = T[k] /\ D2[N + k] = E[k] BY <1>2, <3>1
      <3>4. S2[N + (k + 1)] = T[k + 1] /\ D2[N + (k + 1)] = E[k + 1] BY <1>2, <3>1
      <3> QED BY <3>1, <3>2, <3>3, <3>4
    <2> QED BY <2>1, <2>2
  <1> QED BY <1>4, <1>5, <1>6 DEF Runs

(* One more action at the end. *)
LEMMA AppendedRuns ==
  ASSUME NEW acts \in Seq(Actions), NEW a \in Actions, NEW src, NEW dst,
         NEW src1, NEW dst1, NEW src2, NEW dst2,
         Runs(acts, 1, src, dst, src1, dst1), Leads(a, src1, dst1, src2, dst2)
  PROVE  Runs(Append(acts, a), 1, src, dst, src2, dst2)
  <1> DEFINE r == Append(acts, a)
             N == Len(acts)
             T == [i \in 1..2 |-> IF i = 1 THEN src1 ELSE src2]
             E == [i \in 1..2 |-> IF i = 1 THEN dst1 ELSE dst2]
  <1>1. Len(r) = N + 1 /\ N \in Nat /\ r[N + 1] = a /\ \A i \in 1..N : r[i] = acts[i]
    BY AppendTo
  <1>2. T[1] = src1 /\ T[2] = src2 /\ E[1] = dst1 /\ E[2] = dst2 OBVIOUS
  <1>3. Len(acts) = N OBVIOUS
  <1> HIDE DEF r, N, T, E
  <1>4. \A i \in 1..1 : Leads(r[N + i], T[i], E[i], T[i + 1], E[i + 1])
    <2> TAKE i \in 1..1
    <2>1. i = 1 /\ i + 1 = 2 OBVIOUS
    <2> QED BY <1>1, <1>2, <2>1
  <1>5. Runs(r, 1, src, dst, T[1 + 1], E[1 + 1])
    <2>1. Runs(acts, 1, src, dst, T[1], E[1]) BY <1>2
    <2> QED BY <1>1, <1>3, <1>4, <2>1, LongerRuns
  <1>6. 1 + 1 = 2 OBVIOUS
  <1> QED BY <1>2, <1>5, <1>6 DEF r

(* The first action has been carried out. *)
LEMMA ShorterRuns ==
  ASSUME NEW acts, NEW n \in Nat, Len(acts) \in Nat, n <= Len(acts),
         NEW src, NEW dst, NEW src1, NEW dst1, Runs(acts, n, src, dst, src1, dst1)
  PROVE  \E s, d : Leads(acts[n], src, dst, s, d) /\ Runs(acts, n + 1, s, d, src1, dst1)
  <1>1. PICK S, D :
          /\ S[n] = src /\ D[n] = dst /\ S[Len(acts) + 1] = src1 /\ D[Len(acts) + 1] = dst1
          /\ \A i \in n..Len(acts) : Leads(acts[i], S[i], D[i], S[i + 1], D[i + 1])
    BY DEF Runs
  <1>2. n \in n..Len(acts) /\ (n + 1)..Len(acts) \subseteq n..Len(acts) OBVIOUS
  <1>3. Leads(acts[n], src, dst, S[n + 1], D[n + 1]) BY <1>1, <1>2
  <1>4. Runs(acts, n + 1, S[n + 1], D[n + 1], src1, dst1) BY <1>1, <1>2 DEF Runs
  <1> QED BY <1>3, <1>4

(* Every object is used once: what is made has the number of its action as *)
(* id, what is removed was found by the scan, and goes but once.           *)
Orderly(acts) ==
  \A i \in 1..Len(acts) : acts[i].on = "device" =>
    /\ acts[i].op # "Remove" => /\ acts[i].object.id = i
                                /\ Mounted \/ Len(acts[i].object.path) > 1
    /\ acts[i].op = "Remove" =>
         /\ acts[i].object.id = 0
         /\ \A j \in 1..(i - 1) : acts[j].on = "device" /\ acts[j].op = "Remove" =>
              acts[j].object.path # acts[i].object.path

(* A used object is not used again. *)
LEMMA OrderlyIsGood ==
  ASSUME plan.actions \in Seq(Actions), Orderly(plan.actions), next \in 1..Len(plan.actions),
         plan.actions[next].on = "device"
  PROVE  StillGood(plan.actions[next].op, plan.actions[next].object)
  <1> DEFINE acts == plan.actions
             a == acts[next]
  <1>1. ASSUME NEW u \in Used, u.object = a.object, Mounted \/ u.op = "Remove" PROVE FALSE
    <2>1. PICK j \in 1..(next - 1) :
            acts[j].on = "device" /\ u = [op |-> acts[j].op, object |-> acts[j].object]
      BY <1>1 DEF Used
    <2>2. u.op = acts[j].op /\ u.object = acts[j].object BY <2>1
    <2>3. j \in 1..Len(acts) /\ j # next /\ j # 0 /\ next # 0 OBVIOUS
    <2>4. CASE acts[j].op = "Remove"
      <3>1. acts[j].object.id = 0 BY <2>1, <2>3, <2>4 DEF Orderly
      <3>2. a.op = "Remove"
        <4>1. a.op # "Remove" => a.object.id = next BY DEF Orderly
        <4>2. a.object.id = 0 BY <1>1, <2>2, <3>1
        <4> QED BY <2>3, <4>1, <4>2
      <3> QED BY <1>1, <2>1, <2>2, <2>4, <3>2 DEF Orderly
    <2>5. CASE acts[j].op # "Remove"
      <3>1. acts[j].object.id = j BY <2>1, <2>3, <2>5 DEF Orderly
      <3>2. a.object.id = next \/ a.object.id = 0 BY DEF Orderly
      <3> QED BY <1>1, <2>2, <2>3, <3>1, <3>2
    <2> QED BY <2>4, <2>5
  <1>2. CASE Mounted BY <1>1, <1>2 DEF StillGood
  <1>3. CASE ~Mounted
    <2>1. [op |-> "Remove", object |-> a.object] \notin Used
      <3> SUFFICES ASSUME [op |-> "Remove", object |-> a.object] \in Used PROVE FALSE OBVIOUS
      <3>1. [op |-> "Remove", object |-> a.object].op = "Remove"
            /\ [op |-> "Remove", object |-> a.object].object = a.object
        OBVIOUS
      <3> QED BY <1>1, <3>1
    <2>2. a.op # "Remove" => Len(a.object.path) > 1 BY <1>3 DEF Orderly
    <2> QED BY <1>3, <2>1, <2>2 DEF StillGood
  <1> QED BY <1>2, <1>3

(* Another action. *)
LEMMA AppendedOrderly ==
  ASSUME NEW acts \in Seq(Actions), NEW a \in Actions, Orderly(acts),
         a.on = "device" /\ a.op = "Remove" =>
           a.object.id = 0 /\ a.object.path \notin Removed(acts),
         a.on = "device" /\ a.op # "Remove" =>
           a.object.id = Len(acts) + 1 /\ (Mounted \/ Len(a.object.path) > 1)
  PROVE  Orderly(Append(acts, a))
  <1> DEFINE r == Append(acts, a)
             N == Len(acts)
  <1>1. Len(r) = N + 1 /\ N \in Nat /\ r[N + 1] = a /\ \A i \in 1..N : r[i] = acts[i]
    BY AppendTo
  <1>2. DOMAIN acts = 1..N BY LenProperties
  <1> HIDE DEF r
  <1> SUFFICES ASSUME NEW i \in 1..(N + 1), r[i].on = "device"
               PROVE  /\ r[i].op # "Remove" => /\ r[i].object.id = i
                                               /\ Mounted \/ Len(r[i].object.path) > 1
                      /\ r[i].op = "Remove" =>
                           /\ r[i].object.id = 0
                           /\ \A j \in 1..(i - 1) : r[j].on = "device" /\ r[j].op = "Remove" =>
                                r[j].object.path # r[i].object.path
    BY <1>1 DEF Orderly, r
  <1>3. CASE i \in 1..N
    <2>1. r[i] = acts[i] BY <1>1, <1>3
    <2>2. \A j \in 1..(i - 1) : r[j] = acts[j] BY <1>1, <1>3
    <2> QED BY <1>3, <2>1, <2>2 DEF Orderly
  <1>4. CASE i = N + 1
    <2>1. r[i] = a BY <1>1, <1>4
    <2>2. ASSUME NEW j \in 1..(i - 1), r[j].on = "device", r[j].op = "Remove", a.op = "Remove"
          PROVE  r[j].object.path # r[i].object.path
      <3>1. j \in 1..N BY <1>1, <1>4
      <3>2. r[j] = acts[j] BY <1>1, <3>1
      <3>3. r[j].object.path \in Removed(acts) BY <1>2, <2>2, <3>1, <3>2 DEF Removed
      <3> QED BY <2>1, <2>2, <3>3
    <2> QED BY <1>4, <2>1, <2>2
  <1> QED BY <1>1, <1>3, <1>4

(* A block of actions that makes directories or removes local ones.        *)
LEMMA BlockOrderly ==
  ASSUME NEW acts \in Seq(Actions), NEW blk \in Seq(Actions), Orderly(acts),
         \A i \in 1..Len(blk) : blk[i].on = "device" =>
           /\ blk[i].op # "Remove" /\ blk[i].object.id = Len(acts) + i
           /\ Mounted \/ Len(blk[i].object.path) > 1
  PROVE  Orderly(acts \o blk)
  <1> DEFINE r == acts \o blk
             N == Len(acts)
             M == Len(blk)
  <1>1. /\ Len(r) = N + M /\ N \in Nat /\ M \in Nat
        /\ \A i \in 1..(N + M) : r[i] = IF i <= N THEN acts[i] ELSE blk[i - N]
    BY ConcatProperties, LenProperties
  <1> HIDE DEF r
  <1> SUFFICES ASSUME NEW i \in 1..(N + M), r[i].on = "device"
               PROVE  /\ r[i].op # "Remove" => /\ r[i].object.id = i
                                               /\ Mounted \/ Len(r[i].object.path) > 1
                      /\ r[i].op = "Remove" =>
                           /\ r[i].object.id = 0
                           /\ \A j \in 1..(i - 1) : r[j].on = "device" /\ r[j].op = "Remove" =>
                                r[j].object.path # r[i].object.path
    BY <1>1 DEF Orderly, r
  <1>2. CASE i <= N
    <2>1. r[i] = acts[i] /\ i \in 1..N BY <1>1, <1>2
    <2>2. \A j \in 1..(i - 1) : r[j] = acts[j]
      <3> TAKE j \in 1..(i - 1)
      <3>1. j \in 1..(N + M) /\ j <= N BY <1>1, <1>2
      <3> QED BY <1>1, <3>1
    <2> QED BY <2>1, <2>2 DEF Orderly
  <1>3. CASE ~(i <= N)
    <2>1. r[i] = blk[i - N] /\ i - N \in 1..M /\ N + (i - N) = i BY <1>1, <1>3
    <2> QED BY <2>1
  <1> QED BY <1>2, <1>3

(***************************************************************************)
(* Where the objects of a plan come from.                                  *)
(***************************************************************************)
(* The action removes what is under p from the device. *)
Clears(a, p) == a.on = "device" /\ a.op = "Remove" /\ a.object.path = p

(* The action has made o, and nothing has removed it since. *)
MadeBy(acts, i, o) ==
  /\ i \in 1..Len(acts)
  /\ acts[i].on = "device" /\ acts[i].op # "Remove" /\ acts[i].object = o
  /\ \A j \in (i + 1)..Len(acts) : ~Clears(acts[j], o.path)

(* The directory that p is in is among these objects, and older than n. *)
InOlderDir(ois, p, n) == \E d \in ois : d.path = Parent(p) /\ d.dir /\ d.id < n

(* What has a number was made by the action with this number, and what an  *)
(* action makes stays, in a directory that was there before it.            *)
Tracked(acts, ois) ==
  /\ \A o \in ois : o.id = 0 \/ MadeBy(acts, o.id, o)
  /\ \A i \in 1..Len(acts) : acts[i].on = "device" /\ acts[i].op # "Remove" =>
       /\ acts[i].object \in ois
       /\ Len(acts[i].object.path) > 1 => InOlderDir(ois, acts[i].object.path, i)

(* What has no number, or is removed, was found by the scan. *)
Found(pl) ==
  /\ \A o \in pl.dst : o.id = 0 => o \in Scan(device)
  /\ \A i \in 1..Len(pl.actions) :
       pl.actions[i].on = "device" /\ pl.actions[i].op = "Remove" =>
         pl.actions[i].object \in Scan(device)

(* A thumbnail that the scan has found can be looked up. *)
Findable(pl) ==
  \A b \in BookPaths : \A o \in pl.dst :
    o.path = ThumbPath(b) /\ o.id = 0 => ThumbEntries(pl, b) # {}

(* Thumbnails can still be looked up when the device has none that it had  *)
(* not before.                                                             *)
LEMMA StaysFindable ==
  ASSUME NEW pl, Findable(pl), NEW r, pl.thumbs \subseteq r.thumbs,
         \A o \in r.dst : o.id = 0 => o \in pl.dst
  PROVE  Findable(r)
  BY DEF Findable, ThumbEntries

(* One more action keeps track of the objects. *)
LEMMA AppendedTracked ==
  ASSUME NEW acts \in Seq(Actions), NEW ois, NEW ois1, NEW a \in Actions, Tracked(acts, ois),
         Orderly(acts), ois \subseteq Objects,
         \/ a.on = "local" /\ ois1 = ois
         \/ /\ a.on = "device" /\ a.op = "Remove" /\ a.object.id = 0 /\ ~a.object.dir
            /\ Keyed(ois) /\ a.object \in ois /\ ois1 = Delete(ois, a.object.path)
         \/ /\ a.on = "device" /\ a.op # "Remove" /\ a.object.id = Len(acts) + 1
            /\ ois1 = ois \cup {a.object}
            /\ \E d \in ois : d.path = Parent(a.object.path) /\ d.dir
  PROVE  Tracked(Append(acts, a), ois1)
  <1> DEFINE r == Append(acts, a)
             N == Len(acts)
  <1>1. Len(r) = N + 1 /\ N \in Nat /\ r[N + 1] = a /\ \A i \in 1..N : r[i] = acts[i]
    BY AppendTo
  <1>2. \A o \in ois : o.id \in Nat /\ o.id <= N
    BY <1>1 DEF Tracked, MadeBy, Objects
  <1>3. a.on \in {"local", "device"} BY DEF Actions
  <1> HIDE DEF r, N
  <1>4. ASSUME NEW o \in ois, o.id # 0, o.path # a.object.path \/ a.on = "local" \/ a.op # "Remove"
        PROVE  MadeBy(r, o.id, o)
    <2>1. MadeBy(acts, o.id, o) BY <1>4 DEF Tracked
    <2>2. o.id \in 1..N BY <2>1 DEF MadeBy, N
    <2>3. r[o.id] = acts[o.id] BY <1>1, <2>2
    <2>4. ASSUME NEW j \in (o.id + 1)..(N + 1) PROVE ~Clears(r[j], o.path)
      <3>1. CASE j = N + 1
        <4>1. r[j] = a BY <1>1, <3>1
        <4> QED BY <1>4, <4>1 DEF Clears
      <3>2. CASE j # N + 1
        <4>1. j \in 1..N /\ j \in (o.id + 1)..N BY <1>1, <2>2, <3>2
        <4>2. ~Clears(acts[j], o.path) BY <2>1, <4>1 DEF MadeBy, N
        <4> QED BY <1>1, <4>1, <4>2
      <3> QED BY <3>1, <3>2
    <2>5. o.id \in 1..(N + 1) BY <1>1, <2>2
    <2> QED BY <1>1, <2>1, <2>3, <2>4, <2>5 DEF MadeBy
  <1>5. CASE a.on = "local" /\ ois1 = ois
    <2>1. \A o \in ois : o.id = 0 \/ MadeBy(r, o.id, o) BY <1>4, <1>5
    <2>2. ASSUME NEW i \in 1..(N + 1), r[i].on = "device", r[i].op # "Remove"
          PROVE  /\ r[i].object \in ois
                 /\ Len(r[i].object.path) > 1 => InOlderDir(ois, r[i].object.path, i)
      <3>1. i # N + 1 BY <1>1, <1>5, <2>2
      <3>2. i \in 1..N BY <1>1, <3>1
      <3>3. r[i] = acts[i] BY <1>1, <3>2
      <3> QED BY <2>2, <3>2, <3>3 DEF Tracked, N
    <2> QED BY <1>1, <1>5, <2>1, <2>2 DEF Tracked, r
  <1>6. CASE /\ a.on = "device" /\ a.op = "Remove" /\ a.object.id = 0 /\ ~a.object.dir
             /\ Keyed(ois) /\ a.object \in ois /\ ois1 = Delete(ois, a.object.path)
    <2>1. \A o \in ois1 : o \in ois /\ o.path # a.object.path BY <1>6 DEF Delete
    <2>2. \A o \in ois1 : o.id = 0 \/ MadeBy(r, o.id, o) BY <1>4, <2>1
    <2>3. \A o \in ois : o.id # 0 \/ o.dir => o \in ois1 BY <1>6 DEF Delete, Keyed
    <2>4. ASSUME NEW i \in 1..(N + 1), r[i].on = "device", r[i].op # "Remove"
          PROVE  /\ r[i].object \in ois1
                 /\ Len(r[i].object.path) > 1 => InOlderDir(ois1, r[i].object.path, i)
      <3>1. i # N + 1 BY <1>1, <1>6, <2>4
      <3>2. i \in 1..N BY <1>1, <3>1
      <3>3. r[i] = acts[i] BY <1>1, <3>2
      <3>4. /\ acts[i].object \in ois
            /\ Len(acts[i].object.path) > 1 => InOlderDir(ois, acts[i].object.path, i)
        BY <2>4, <3>2, <3>3 DEF Tracked, N
      <3>5. acts[i].object \in ois1
        <4> SUFFICES ASSUME acts[i].object \notin ois1 PROVE FALSE OBVIOUS
        <4>1. acts[i].object = a.object BY <1>6, <3>4 DEF Delete, Keyed
        <4>2. acts[i].object.id = i BY <2>4, <3>2, <3>3 DEF Orderly, N
        <4> QED BY <1>6, <3>2, <4>1, <4>2
      <3> QED BY <2>3, <3>3, <3>4, <3>5 DEF InOlderDir
    <2> QED BY <1>1, <2>2, <2>4 DEF Tracked, r
  <1>7. CASE /\ a.on = "device" /\ a.op # "Remove" /\ a.object.id = N + 1
             /\ ois1 = ois \cup {a.object}
             /\ \E d \in ois : d.path = Parent(a.object.path) /\ d.dir
    <2>1. MadeBy(r, a.object.id, a.object)
      <3>1. N + 1 \in 1..(N + 1) /\ (N + 1 + 1)..(N + 1) = {} BY <1>1
      <3> QED BY <1>1, <1>7, <3>1 DEF MadeBy
    <2>2. \A o \in ois1 : o.id = 0 \/ MadeBy(r, o.id, o) BY <1>4, <1>7, <2>1
    <2>3. ASSUME NEW i \in 1..(N + 1), r[i].on = "device", r[i].op # "Remove"
          PROVE  /\ r[i].object \in ois1
                 /\ Len(r[i].object.path) > 1 => InOlderDir(ois1, r[i].object.path, i)
      <3>1. CASE i = N + 1
        <4>1. r[i] = a BY <1>1, <3>1
        <4>2. PICK d \in ois : d.path = Parent(a.object.path) /\ d.dir BY <1>7
        <4>3. d.id < i BY <1>1, <1>2, <3>1
        <4> QED BY <1>7, <4>1, <4>2, <4>3 DEF InOlderDir
      <3>2. CASE i # N + 1
        <4>1. i \in 1..N BY <1>1, <3>2
        <4>2. r[i] = acts[i] BY <1>1, <4>1
        <4>3. /\ acts[i].object \in ois
              /\ Len(acts[i].object.path) > 1 => InOlderDir(ois, acts[i].object.path, i)
          BY <2>3, <4>1, <4>2 DEF Tracked, N
        <4> QED BY <1>7, <4>2, <4>3 DEF InOlderDir
      <3> QED BY <3>1, <3>2
    <2> QED BY <1>1, <2>2, <2>3 DEF Tracked, r
  <1> QED BY <1>5, <1>6, <1>7 DEF r, N

(* So it does with what the scan has found. *)
LEMMA AppendedFound ==
  ASSUME NEW pl, pl.actions \in Seq(Actions), Found(pl), NEW r, NEW a \in Actions,
         r.actions = Append(pl.actions, a), \A o \in r.dst : o.id = 0 => o \in pl.dst,
         a.on = "device" /\ a.op = "Remove" => a.object \in pl.dst /\ a.object.id = 0
  PROVE  Found(r)
  <1> DEFINE N == Len(pl.actions)
  <1>1. Len(r.actions) = N + 1 /\ N \in Nat /\ r.actions[N + 1] = a
        /\ \A i \in 1..N : r.actions[i] = pl.actions[i]
    BY AppendTo
  <1>2. ASSUME NEW i \in 1..(N + 1), r.actions[i].on = "device", r.actions[i].op = "Remove"
        PROVE  r.actions[i].object \in Scan(device)
    <2>1. CASE i = N + 1 BY <1>1, <1>2, <2>1 DEF Found
    <2>2. CASE i # N + 1
      <3>1. i \in 1..N BY <1>1, <2>2
      <3> QED BY <1>1, <1>2, <3>1 DEF Found
    <2> QED BY <2>1, <2>2
  <1> QED BY <1>1, <1>2 DEF Found

(* A plan that can be carried out, from disks that nobody else touches.    *)
Fit(pl) ==
  /\ Sound(pl)
  /\ Keyed(pl.dst) /\ Closed(pl.dst)
  /\ Stock \subseteq DirsIn(pl.dst) /\ (thumbsOn => ThumbFolder \in DirsIn(pl.dst))
  /\ Orderly(pl.actions)
  /\ \A o \in pl.dst : o.id = 0 => o.path \notin Removed(pl.actions)
  /\ Tracked(pl.actions, pl.dst) /\ Found(pl) /\ Findable(pl)
  /\ Runs(pl.actions, 1, local, device, Bare(pl.src), Bare(pl.dst))

(* The files that it makes. *)
Made(pl) == {o.path : o \in {x \in pl.dst : ~x.dir /\ x.id # 0}}

(* What is in a set is on the disk that it stands for. *)
LEMMA BareIs ==
  ASSUME NEW ois, ois \subseteq Objects
  PROVE  /\ \A p : p \in DirsIn(ois) <=> Dir(p) \in Bare(ois)
         /\ \A p : p \in FilesIn(ois) <=> File(p) \in Bare(ois)
         /\ \A x \in Bare(ois) : \E o \in ois : o.path = x.path /\ o.dir = x.dir
         /\ \A o \in ois : \E x \in Bare(ois) : o.path = x.path /\ o.dir = x.dir
  <1> DEFINE bare(o) == [path |-> o.path, dir |-> o.dir]
  <1>1. \A o : bare(o).path = o.path /\ bare(o).dir = o.dir OBVIOUS
  <1>2. \A o \in ois : o.dir \in BOOLEAN BY DEF Objects
  <1>3. Bare(ois) = {bare(o) : o \in ois} BY DEF Bare
  <1>4. \A o \in ois : (o.dir => bare(o) = Dir(o.path)) /\ (~o.dir => bare(o) = File(o.path))
    BY <1>2 DEF Dir, File
  <1>5. \A p : Dir(p).path = p /\ Dir(p).dir = TRUE /\ File(p).path = p /\ File(p).dir = FALSE
    BY DEF Dir, File
  <1> HIDE DEF bare
  <1>6. ASSUME NEW p, Dir(p) \in Bare(ois) PROVE p \in DirsIn(ois)
    <2>1. PICK o \in ois : Dir(p) = bare(o) BY <1>3, <1>6
    <2> QED BY <1>1, <1>5, <2>1 DEF DirsIn
  <1>7. ASSUME NEW p, File(p) \in Bare(ois) PROVE p \in FilesIn(ois)
    <2>1. PICK o \in ois : File(p) = bare(o) BY <1>3, <1>7
    <2> QED BY <1>1, <1>5, <2>1 DEF FilesIn
  <1>8. \A p \in DirsIn(ois) : Dir(p) \in Bare(ois) BY <1>3, <1>4 DEF DirsIn
  <1>9. \A p \in FilesIn(ois) : File(p) \in Bare(ois) BY <1>3, <1>4 DEF FilesIn
  <1>10. \A x \in Bare(ois) : \E o \in ois : o.path = x.path /\ o.dir = x.dir BY <1>1, <1>3
  <1>11. \A o \in ois : \E x \in Bare(ois) : o.path = x.path /\ o.dir = x.dir BY <1>1, <1>3
  <1> QED BY <1>6, <1>7, <1>8, <1>9, <1>10, <1>11

(* What is removed from the set is removed from the disk. *)
LEMMA BareWithout ==
  ASSUME NEW ois, NEW paths
  PROVE  Bare({o \in ois : o.path \notin paths}) = {x \in Bare(ois) : x.path \notin paths}
  <1>1. \A o : [path |-> o.path, dir |-> o.dir].path = o.path OBVIOUS
  <1> QED BY <1>1 DEF Bare

(* A file can be taken out of a tree: nothing lies under it. *)
LEMMA FileIsLeaf ==
  ASSUME NEW ois, ois \subseteq Objects, Keyed(ois), Closed(ois), NEW o \in ois, ~o.dir
  PROVE  /\ \E x \in Bare(ois) : x.path = o.path
         /\ \A x \in Bare(ois) : ~IsUnder(x.path, o.path)
         /\ Keyed(Delete(ois, o.path)) /\ Closed(Delete(ois, o.path))
         /\ Bare(Delete(ois, o.path)) = {x \in Bare(ois) : x.path # o.path}
         /\ DirsIn(Delete(ois, o.path)) = DirsIn(ois)
  <1>1. \A x \in ois : x.path \in Path /\ x.path # << >> /\ x.dir \in BOOLEAN
    BY DEF Objects
  <1>2. \E x \in Bare(ois) : x.path = o.path BY BareIs
  <1>3. \A d \in ois : d.dir => d.path # o.path BY DEF Keyed
  <1>4. ASSUME NEW x \in Bare(ois), IsUnder(x.path, o.path) PROVE FALSE
    <2>1. PICK y \in ois : y.path = x.path BY BareIs
    <2>2. /\ Len(y.path) \in Nat /\ Len(o.path) \in Nat \ {0} /\ Len(o.path) < Len(y.path)
          /\ SubSeq(y.path, 1, Len(o.path)) = o.path
      BY <1>1, <1>4, <2>1, ParentIs DEF IsUnder
    <2>3. Len(o.path) \in 1..(Len(y.path) - 1) BY <2>2
    <2>4. PICK d \in ois : d.path = SubSeq(y.path, 1, Len(o.path)) /\ d.dir
      BY <2>3 DEF Closed
    <2> QED BY <1>3, <2>2, <2>4
  <1>5. Keyed(Delete(ois, o.path)) BY DEF Keyed, Delete
  <1>6. Closed(Delete(ois, o.path)) BY <1>3 DEF Closed, Delete
  <1>7. Bare(Delete(ois, o.path)) = {x \in Bare(ois) : x.path # o.path}
    <2> DEFINE gone == {o.path}
    <2>1. Delete(ois, o.path) = {x \in ois : x.path \notin gone} BY DEF Delete
    <2>2. \A x : x.path \notin gone <=> x.path # o.path OBVIOUS
    <2> HIDE DEF gone
    <2>3. Bare({x \in ois : x.path \notin gone}) = {x \in Bare(ois) : x.path \notin gone}
      BY BareWithout, Zenon
    <2> QED BY <2>1, <2>2, <2>3
  <1>8. DirsIn(Delete(ois, o.path)) = DirsIn(ois) BY <1>3 DEF DirsIn, Delete
  <1> QED BY <1>2, <1>4, <1>5, <1>6, <1>7, <1>8

(* Removing a file from the source. *)
LEMMA TakeFromSourceFits ==
  ASSUME NEW pl, Fit(pl), NEW o \in Objects, o.path \in FilesIn(pl.src)
  PROVE  Fit(TakeFromSource(pl, o))
  <1> DEFINE r == TakeFromSource(pl, o)
             a == [on |-> "local", op |-> "Remove", object |-> o, from |-> << >>]
  <1>1. Sound(pl) /\ pl \in Plans /\ pl.actions \in Seq(Actions) /\ pl.src \subseteq Objects
    BY DEF Fit, Sound, Plans
  <1>2. r = [actions |-> Append(pl.actions, a), src |-> Delete(pl.src, o.path),
             dst |-> pl.dst, thumbs |-> pl.thumbs]
    BY <1>1, TakeFromSourceIs
  <1>3. Sound(r) /\ Removed(r.actions) = Removed(pl.actions) BY <1>1, TakeFromSourceDoes DEF Shrinks
  <1>4. a \in Actions /\ a.on = "local" /\ a.op = "Remove" /\ a.object = o
    <2>1. << >> \in Path BY EmptySeq DEF Path
    <2> QED BY <2>1 DEF Actions
  <1> HIDE DEF a, r
  <1>5. /\ r.actions = Append(pl.actions, a) /\ r.src = Delete(pl.src, o.path)
        /\ r.dst = pl.dst /\ r.thumbs = pl.thumbs
    BY <1>2
  <1>6. Orderly(r.actions) BY <1>1, <1>4, <1>5, AppendedOrderly DEF Fit
  <1>7. PICK x \in pl.src : x.path = o.path /\ ~x.dir BY DEF FilesIn
  <1>8. /\ \E y \in Bare(pl.src) : y.path = o.path
        /\ \A y \in Bare(pl.src) : ~IsUnder(y.path, o.path)
        /\ Bare(r.src) = {y \in Bare(pl.src) : y.path # o.path}
    <2>1. Keyed(pl.src) /\ Closed(pl.src) BY <1>1 DEF Sound, SourceTree
    <2> QED BY <1>1, <1>5, <1>7, <2>1, FileIsLeaf
  <1>9. Leads(a, Bare(pl.src), Bare(pl.dst), Bare(r.src), Bare(r.dst))
    BY <1>4, <1>5, <1>8 DEF Leads, Fits, Effect
  <1>10. Runs(r.actions, 1, local, device, Bare(r.src), Bare(r.dst))
    BY <1>1, <1>4, <1>5, <1>9, AppendedRuns DEF Fit
  <1>11. Tracked(r.actions, r.dst)
    <2>1. pl.dst \subseteq Objects BY <1>1 DEF Plans
    <2>2. Tracked(Append(pl.actions, a), pl.dst)
      BY <1>1, <1>4, <2>1, AppendedTracked DEF Fit
    <2> QED BY <1>5, <2>2
  <1>12. Found(r) BY <1>1, <1>4, <1>5, AppendedFound DEF Fit
  <1>13. Findable(r) BY <1>5, StaysFindable DEF Fit
  <1> QED BY <1>3, <1>5, <1>6, <1>10, <1>11, <1>12, <1>13 DEF Fit, r

(* Removing a file from the device that the scan has found. *)
LEMMA RemoveFromDeviceFits ==
  ASSUME NEW pl, Fit(pl), NEW o \in pl.dst, ~o.dir, o.id = 0
  PROVE  LET r == RemoveFromDevice(pl, o)
         IN  /\ Fit(r) /\ r.src = pl.src /\ r.dst = Delete(pl.dst, o.path)
             /\ r.thumbs = pl.thumbs
             /\ Made(r) \subseteq Made(pl) /\ DirsIn(r.dst) = DirsIn(pl.dst)
  <1> DEFINE r == RemoveFromDevice(pl, o)
             a == [on |-> "device", op |-> "Remove", object |-> o, from |-> << >>]
  <1>1. /\ Sound(pl) /\ pl \in Plans /\ pl.actions \in Seq(Actions) /\ pl.dst \subseteq Objects
        /\ o \in Objects
    BY DEF Fit, Sound, Plans
  <1>2. r = [actions |-> Append(pl.actions, a), src |-> pl.src,
             dst |-> Delete(pl.dst, o.path), thumbs |-> pl.thumbs]
    BY <1>1, RemoveFromDeviceIs
  <1>3. a \in Actions /\ a.on = "device" /\ a.op = "Remove" /\ a.object = o
    <2>1. << >> \in Path BY EmptySeq DEF Path
    <2> QED BY <1>1, <2>1 DEF Actions
  <1>4. Sound(r) /\ Removed(r.actions) \subseteq Removed(pl.actions) \cup {o.path}
    BY <1>1, RemoveFromDeviceDoes DEF Extends
  <1> HIDE DEF a, r
  <1>5. /\ r.actions = Append(pl.actions, a) /\ r.src = pl.src /\ r.thumbs = pl.thumbs
        /\ r.dst = Delete(pl.dst, o.path)
    BY <1>2
  <1>6. Orderly(r.actions)
    <2>1. a.object.id = 0 /\ a.object.path \notin Removed(pl.actions) BY <1>3 DEF Fit
    <2>2. Orderly(Append(pl.actions, a))
      BY <1>1, <1>3, <2>1, AppendedOrderly DEF Fit
    <2> QED BY <1>5, <2>2
  <1>7. /\ \E y \in Bare(pl.dst) : y.path = o.path
        /\ \A y \in Bare(pl.dst) : ~IsUnder(y.path, o.path)
        /\ Keyed(r.dst) /\ Closed(r.dst)
        /\ Bare(r.dst) = {y \in Bare(pl.dst) : y.path # o.path}
        /\ DirsIn(r.dst) = DirsIn(pl.dst)
    BY <1>1, <1>5, FileIsLeaf DEF Fit
  <1>8. Leads(a, Bare(pl.src), Bare(pl.dst), Bare(r.src), Bare(r.dst))
    BY <1>3, <1>5, <1>7 DEF Leads, Fits, Effect
  <1>9. Runs(r.actions, 1, local, device, Bare(r.src), Bare(r.dst))
    BY <1>1, <1>3, <1>5, <1>8, AppendedRuns DEF Fit
  <1>10. \A x \in r.dst : x.id = 0 => x.path \notin Removed(r.actions)
    BY <1>4, <1>5 DEF Fit, Delete
  <1>11. Made(r) \subseteq Made(pl) BY <1>5 DEF Made, Delete
  <1>12. Tracked(r.actions, r.dst)
    <2>1. Tracked(Append(pl.actions, a), r.dst)
      BY <1>1, <1>3, <1>5, AppendedTracked DEF Fit
    <2> QED BY <1>5, <2>1
  <1>13. Found(r) BY <1>1, <1>3, <1>5, AppendedFound DEF Fit, Delete
  <1>14. Findable(r) BY <1>5, StaysFindable DEF Fit, Delete
  <1>15. Fit(r) BY <1>4, <1>6, <1>7, <1>9, <1>10, <1>12, <1>13, <1>14 DEF Fit
  <1> QED BY <1>5, <1>7, <1>11, <1>15 DEF r

(* Copying a file into a directory of the device. *)
LEMMA CopyToDeviceFits ==
  ASSUME NEW pl, Fit(pl), NEW p \in DeviceFiles, Parent(p) \in DirsIn(pl.dst), Len(p) > 1,
         \A x \in pl.dst : x.path # p, NEW from \in Path, from \in FilesIn(pl.src) \/ Len(from) = 1
  PROVE  LET r == Make(pl, "Copy", p, FALSE, from)
         IN  /\ Fit(r) /\ r.src = pl.src /\ r.thumbs = pl.thumbs
             /\ Made(r) \subseteq Made(pl) \cup {p} /\ DirsIn(r.dst) = DirsIn(pl.dst)
             /\ pl.dst \subseteq r.dst
  <1> DEFINE r == Make(pl, "Copy", p, FALSE, from)
             o == [path |-> p, dir |-> FALSE, id |-> Len(pl.actions) + 1]
             a == [on |-> "device", op |-> "Copy", object |-> o, from |-> from]
  <1>1. /\ Sound(pl) /\ pl \in Plans /\ pl.actions \in Seq(Actions) /\ pl.dst \subseteq Objects
        /\ p \in Path \ {<< >>} /\ Len(pl.actions) \in Nat /\ pl.src \subseteq Objects
    BY DeviceFilesArePaths, LenProperties DEF Fit, Sound, Plans
  <1>2. r = [actions |-> Append(pl.actions, a), src |-> pl.src,
             dst |-> Add(pl.dst, o), thumbs |-> pl.thumbs]
    BY <1>1, CopyToDeviceIs, Zenon
  <1>3. o \in Objects /\ o.path = p /\ o.dir = FALSE /\ o.id = Len(pl.actions) + 1
    BY <1>1 DEF Objects
  <1>4. a.on = "device" /\ a.op = "Copy" /\ a.object = o /\ a.from = from OBVIOUS
  <1>5. a \in Actions BY <1>3, <1>4 DEF Actions
  <1>6. Sound(r) /\ Removed(r.actions) \subseteq Removed(pl.actions)
    BY <1>1, CopyToDeviceDoes DEF Extends
  <1> HIDE DEF a, o, r
  <1>7. /\ r.actions = Append(pl.actions, a) /\ r.src = pl.src /\ r.thumbs = pl.thumbs
        /\ r.dst = Add(pl.dst, o)
    BY <1>2
  <1>8. Orderly(r.actions)
    <2>1. a.object.id = Len(pl.actions) + 1 /\ Len(a.object.path) > 1 /\ a.op # "Remove"
      BY <1>3, <1>4
    <2>2. Orderly(Append(pl.actions, a))
      BY <1>1, <1>5, <2>1, AppendedOrderly DEF Fit
    <2> QED BY <1>7, <2>2
  <1>9. \A x \in pl.dst : x.dir => x.path # p
    BY <1>1, DeviceFileIsNoDir DEF Sound, TargetKnown, DirsIn
  <1>10. r.dst = {x \in pl.dst : x.path # p} \cup {o} BY <1>3, <1>7 DEF Add
  <1>11. Bare(r.dst) = Bare(pl.dst) \cup {File(p)}
    <2>1. [path |-> o.path, dir |-> o.dir] = File(p) BY <1>3 DEF File
    <2>2. \A x \in pl.dst : x.path = p => [path |-> x.path, dir |-> x.dir] = File(p)
      BY <1>1, <1>9 DEF File, Objects
    <2> QED BY <1>10, <2>1, <2>2 DEF Bare
  <1>12. DirsIn(r.dst) = DirsIn(pl.dst) BY <1>3, <1>9, <1>10 DEF DirsIn
  <1>13. Keyed(r.dst) BY <1>3, <1>10 DEF Keyed, Fit
  <1>14. PICK d \in pl.dst : d.path = Parent(p) /\ d.dir BY DEF DirsIn
  <1>15. Closed(r.dst)
    <2> SUFFICES ASSUME NEW x \in r.dst, NEW n \in 1..(Len(x.path) - 1)
                 PROVE  \E y \in r.dst : y.path = SubSeq(x.path, 1, n) /\ y.dir
      BY DEF Closed
    <2>1. ASSUME NEW y \in pl.dst, y.dir PROVE y \in r.dst BY <1>9, <1>10, <2>1
    <2>2. CASE x # o
      <3>1. x \in pl.dst BY <1>10, <2>2
      <3>2. PICK y \in pl.dst : y.path = SubSeq(x.path, 1, n) /\ y.dir
        BY <3>1 DEF Fit, Closed
      <3> QED BY <2>1, <3>2
    <2>3. CASE x = o
      <3>1. x.path = p BY <1>3, <2>3
      <3>2. /\ Len(p) \in Nat \ {0} /\ Len(Parent(p)) = Len(p) - 1
            /\ Parent(p) = SubSeq(p, 1, Len(p) - 1)
        BY <1>1, ParentIs DEF Parent
      <3>3. CASE n = Len(p) - 1
        <4>1. d.path = SubSeq(x.path, 1, n) BY <1>14, <3>1, <3>2, <3>3
        <4> QED BY <1>14, <2>1, <4>1
      <3>4. CASE n # Len(p) - 1
        <4>1. n \in 1..(Len(d.path) - 1) /\ n \in 0..(Len(p) - 1) /\ Len(p) - 1 \in 0..Len(p)
          BY <1>14, <3>1, <3>2, <3>4
        <4>2. SubSeq(d.path, 1, n) = SubSeq(p, 1, n) BY <1>1, <1>14, <3>2, <4>1, UpOfUp
        <4>3. PICK y \in pl.dst : y.path = SubSeq(d.path, 1, n) /\ y.dir
          BY <1>14, <4>1 DEF Fit, Closed
        <4> QED BY <2>1, <3>1, <4>2, <4>3
      <3> QED BY <3>3, <3>4
    <2> QED BY <2>2, <2>3
  <1>16. Leads(a, Bare(pl.src), Bare(pl.dst), Bare(r.src), Bare(r.dst))
    <2>1. File(from) \in Bare(pl.src) \/ Len(from) = 1 BY <1>1, BareIs
    <2>2. HasParent(Bare(pl.dst), p) BY <1>1, BareIs DEF HasParent
    <2>3. \A x \in Bare(pl.dst) : x.path # p BY <1>1, BareIs
    <2>4. Effect(Bare(pl.dst), a.op, a.object) = Bare(r.dst)
      BY <1>3, <1>4, <1>11 DEF Effect, File
    <2> QED BY <1>3, <1>4, <1>7, <2>1, <2>2, <2>3, <2>4 DEF Leads, Fits
  <1>17. Runs(r.actions, 1, local, device, Bare(r.src), Bare(r.dst))
    BY <1>1, <1>5, <1>7, <1>16, AppendedRuns DEF Fit
  <1>18. \A x \in r.dst : x.id = 0 => x.path \notin Removed(r.actions)
    BY <1>1, <1>3, <1>6, <1>10 DEF Fit
  <1>19. Made(r) \subseteq Made(pl) \cup {p} BY <1>3, <1>10 DEF Made
  <1>20. Tracked(r.actions, r.dst)
    <2>1. r.dst = pl.dst \cup {a.object} BY <1>4, <1>10
    <2>2. Tracked(Append(pl.actions, a), r.dst)
      BY <1>1, <1>3, <1>4, <1>5, <1>14, <2>1, AppendedTracked DEF Fit
    <2> QED BY <1>7, <2>2
  <1>21. \A x \in r.dst : x.id = 0 => x \in pl.dst BY <1>1, <1>3, <1>10
  <1>22. Found(r) BY <1>1, <1>4, <1>5, <1>7, <1>21, AppendedFound DEF Fit
  <1>23. Findable(r) BY <1>7, <1>21, StaysFindable DEF Fit
  <1>24. Fit(r)
    BY <1>6, <1>8, <1>12, <1>13, <1>15, <1>17, <1>18, <1>20, <1>22, <1>23 DEF Fit
  <1> QED BY <1>7, <1>10, <1>12, <1>19, <1>24 DEF r

(* Folders that every device has lie in such folders, and so does Target,  *)
(* unless it is at the top; over MTP it is not, since new objects need a   *)
(* parent there.                                                           *)
StandardFolders ==
  /\ \A s \in Stock : \A n \in 1..(Len(s) - 1) : SubSeq(s, 1, n) \in Stock
  /\ Parent(Target) = << >> \/ Parent(Target) \in Stock
  /\ Mounted \/ Len(Target) > 1

(* The directory of a copy and what is above it. *)
LEMMA WriteDirIs ==
  ASSUME NEW q \in Files, NEW p, p = Parent(Target \o q)
  PROVE  /\ p \in Path /\ Len(p) \in Nat /\ Len(Target) \in Nat \ {0} /\ Len(Target) <= Len(p)
         /\ SubSeq(p, 1, Len(Target)) = Target /\ SubSeq(p, 1, Len(p)) = p
         /\ \A n \in 0..Len(p) : /\ SubSeq(p, 1, n) \in Path /\ Len(SubSeq(p, 1, n)) = n
                                 /\ \A k \in 0..n : SubSeq(SubSeq(p, 1, n), 1, k) = SubSeq(p, 1, k)
         /\ \A n \in 1..Len(p) : /\ Parent(SubSeq(p, 1, n)) = SubSeq(p, 1, n - 1)
                                 /\ SubSeq(p, 1, n) # << >>
  <1> DEFINE f == Target \o q
  <1>1. /\ f \in Path /\ Len(f) = Len(Target) + Len(q)
        /\ Len(Target) \in Nat \ {0} /\ Len(q) \in Nat \ {0}
        /\ SubSeq(f, 1, Len(Target)) = Target
    BY ConstantsArePaths, ConcatIs, ParentIs, UnderRoot DEF IsUnder
  <1>2. f # << >> BY <1>1, LongIsNotEmpty
  <1>3. p = Parent(f) OBVIOUS
  <1> HIDE DEF f
  <1>4. p \in Path /\ Len(p) = Len(f) - 1 /\ Len(p) \in Nat /\ Len(Target) <= Len(p)
    BY <1>1, <1>2, <1>3, ParentIs
  <1>5. SubSeq(p, 1, Len(Target)) = Target
    <2>1. Len(f) - 1 \in 0..Len(f) /\ Len(Target) \in 0..(Len(f) - 1) BY <1>1, <1>4
    <2>2. SubSeq(SubSeq(f, 1, Len(f) - 1), 1, Len(Target)) = SubSeq(f, 1, Len(Target))
      BY <1>1, <2>1, UpOfUp
    <2> QED BY <1>1, <1>3, <2>2 DEF Parent
  <1>6. ASSUME NEW n \in 0..Len(p)
        PROVE  /\ SubSeq(p, 1, n) \in Path /\ Len(SubSeq(p, 1, n)) = n
               /\ \A k \in 0..n : SubSeq(SubSeq(p, 1, n), 1, k) = SubSeq(p, 1, k)
    BY <1>4, UpIs, UpOfUp
  <1>7. ASSUME NEW n \in 1..Len(p)
        PROVE  Parent(SubSeq(p, 1, n)) = SubSeq(p, 1, n - 1) /\ SubSeq(p, 1, n) # << >>
    <2>1. n \in 0..Len(p) /\ n - 1 \in 0..n /\ n > 0 BY <1>4
    <2>2. Len(SubSeq(p, 1, n)) = n BY <1>6, <2>1
    <2>3. SubSeq(p, 1, n) # << >>
      <3> DEFINE u == SubSeq(p, 1, n)
      <3>1. Len(u) \in Nat /\ Len(u) > 0 BY <2>1, <2>2
      <3> HIDE DEF u
      <3>2. u # << >> BY <3>1, LongIsNotEmpty
      <3> QED BY <3>2 DEF u
    <2>4. Parent(SubSeq(p, 1, n)) = SubSeq(SubSeq(p, 1, n), 1, n - 1) BY <2>2 DEF Parent
    <2> QED BY <1>6, <2>1, <2>3, <2>4
  <1>8. SubSeq(p, 1, Len(p)) = p BY <1>4, Whole
  <1> QED BY <1>1, <1>4, <1>5, <1>6, <1>7, <1>8

(* From the first missing directory on all are missing, and what is above  *)
(* it is a directory.                                                      *)
LEMMA MissingDirs ==
  ASSUME StandardFolders, NEW pl, Fit(pl), NEW q \in Files, NEW p, p = Parent(Target \o q),
         NEW first \in Len(Target)..(Len(p) + 1),
         \A n \in Len(Target)..(first - 1) : Find(pl.dst, SubSeq(p, 1, n)) # {},
         first <= Len(p) => Find(pl.dst, SubSeq(p, 1, first)) = {}
  PROVE  /\ \A n \in first..Len(p) : \A x \in pl.dst : x.path # SubSeq(p, 1, n)
         /\ \A n \in 1..(first - 1) : SubSeq(p, 1, n) \in DirsIn(pl.dst)
  <1>1. /\ p \in Path /\ Len(p) \in Nat /\ Len(Target) \in Nat \ {0} /\ Len(Target) <= Len(p)
        /\ SubSeq(p, 1, Len(Target)) = Target
        /\ \A n \in 0..Len(p) : /\ SubSeq(p, 1, n) \in Path /\ Len(SubSeq(p, 1, n)) = n
                                /\ \A k \in 0..n : SubSeq(SubSeq(p, 1, n), 1, k) = SubSeq(p, 1, k)
        /\ \A n \in 1..Len(p) : Parent(SubSeq(p, 1, n)) = SubSeq(p, 1, n - 1)
    BY WriteDirIs
  <1>2. Closed(pl.dst) /\ pl.dst \subseteq Objects /\ TargetKnown(pl.dst)
        /\ Stock \subseteq DirsIn(pl.dst)
    BY DEF Fit, Sound, Plans
  <1>3. ASSUME NEW n \in first..Len(p), NEW x \in pl.dst, x.path = SubSeq(p, 1, n)
        PROVE  FALSE
    <2>1. n \in 0..Len(p) /\ first \in 0..n /\ first <= Len(p) BY <1>1
    <2>2. Find(pl.dst, SubSeq(p, 1, first)) = {} BY <2>1
    <2>3. \A y \in pl.dst : y.path # SubSeq(p, 1, first) BY <2>2 DEF Find
    <2>4. n # first BY <1>3, <2>3
    <2>5. first \in 1..(Len(x.path) - 1) BY <1>1, <1>3, <2>1, <2>4
    <2>6. PICK d \in pl.dst : d.path = SubSeq(x.path, 1, first) BY <1>2, <2>5 DEF Closed
    <2> QED BY <1>1, <1>3, <2>1, <2>3, <2>6
  <1>4. ASSUME NEW n \in Len(Target)..(first - 1) PROVE SubSeq(p, 1, n) \in DirsIn(pl.dst)
    <2>1. PICK o \in pl.dst : o.path = SubSeq(p, 1, n)
      <3>1. Find(pl.dst, SubSeq(p, 1, n)) # {} OBVIOUS
      <3> QED BY <3>1 DEF Find
    <2>2. n \in Len(Target)..Len(p) BY <1>1
    <2>3. SubSeq(p, 1, n) \in DeviceDirs BY <2>2, UpsAreDirs
    <2>4. o.dir \in BOOLEAN BY <1>2 DEF Objects
    <2>5. ~o.dir => o.path \in DeviceFiles BY <1>2 DEF TargetKnown, FilesIn
    <2>6. o.dir BY <2>1, <2>3, <2>4, <2>5, DeviceFileIsNoDir
    <2> QED BY <2>1, <2>6 DEF DirsIn
  <1>5. first = 1 \/ SubSeq(p, 1, first - 1) \in DirsIn(pl.dst)
    <2>1. CASE first = Len(Target)
      <3>0. Len(Target) \in 1..Len(p) BY <1>1
      <3>1. Parent(Target) = SubSeq(p, 1, Len(Target) - 1)
        <4>1. Parent(SubSeq(p, 1, Len(Target))) = SubSeq(p, 1, Len(Target) - 1) BY <1>1, <3>0
        <4> QED BY <1>1, <4>1
      <3>2. CASE Parent(Target) \in Stock BY <1>2, <2>1, <3>1, <3>2
      <3>3. CASE Parent(Target) = << >>
        <4>1. Len(Parent(Target)) = 0 BY <3>3
        <4>2. Len(Parent(Target)) = Len(Target) - 1 BY ConstantsArePaths, ParentIs
        <4> QED BY <1>1, <2>1, <4>1, <4>2, SMTT(20)
      <3> QED BY <3>2, <3>3 DEF StandardFolders
    <2>2. CASE first # Len(Target)
      <3> DEFINE t == Len(Target)
      <3>1. t \in Nat /\ first \in t..(Len(p) + 1) /\ Len(p) \in Nat /\ first # t
        BY <1>1, <2>2
      <3> HIDE DEF t
      <3>2. first - 1 \in t..(first - 1) BY <3>1
      <3> QED BY <1>4, <3>2 DEF t
    <2> QED BY <2>1, <2>2
  <1>6. ASSUME NEW n \in 1..(first - 1) PROVE SubSeq(p, 1, n) \in DirsIn(pl.dst)
    <2>1. first # 1 /\ first - 1 \in 0..Len(p) /\ n \in 0..(first - 1) BY <1>1
    <2>2. PICK d \in pl.dst : d.path = SubSeq(p, 1, first - 1) /\ d.dir
      BY <1>5, <2>1 DEF DirsIn
    <2>3. CASE n = first - 1 BY <2>2, <2>3 DEF DirsIn
    <2>4. CASE n # first - 1
      <3>1. n \in 1..(Len(d.path) - 1) BY <1>1, <2>1, <2>2, <2>4
      <3>2. PICK y \in pl.dst : y.path = SubSeq(d.path, 1, n) /\ y.dir
        BY <1>2, <3>1 DEF Closed
      <3>3. SubSeq(d.path, 1, n) = SubSeq(p, 1, n) BY <1>1, <2>1, <2>2
      <3> QED BY <3>2, <3>3 DEF DirsIn
    <2> QED BY <2>3, <2>4
  <1> QED BY <1>3, <1>6

(* The set with the directories that are made. *)
WithDirs(ois, p, first, n) ==
  Bare(ois) \cup {Dir(SubSeq(p, 1, first + k - 1)) : k \in 1..(n - 1)}

(* Making the missing directories, from the top. *)
LEMMA MakingDirsLeads ==
  ASSUME StandardFolders, NEW pl, Fit(pl), NEW q \in Files, NEW p, p = Parent(Target \o q),
         NEW first \in Len(Target)..(Len(p) + 1), NEW blk \in Seq(Actions), NEW r,
         MakesDirs(pl, r, p, first, blk), NEW i \in 1..Len(blk), NEW src
  PROVE  Leads(blk[i], src, WithDirs(pl.dst, p, first, i), src, WithDirs(pl.dst, p, first, i + 1))
  <1>1. /\ p \in Path /\ Len(p) \in Nat /\ Len(Target) \in Nat \ {0} /\ Len(Target) <= Len(p)
        /\ \A n \in 0..Len(p) : SubSeq(p, 1, n) \in Path /\ Len(SubSeq(p, 1, n)) = n
        /\ \A n \in 1..Len(p) : Parent(SubSeq(p, 1, n)) = SubSeq(p, 1, n - 1)
    BY WriteDirIs
  <1>2. /\ \A n \in first..Len(p) : \A x \in pl.dst : x.path # SubSeq(p, 1, n)
        /\ \A n \in 1..(first - 1) : SubSeq(p, 1, n) \in DirsIn(pl.dst)
    <2>1. /\ \A n \in Len(Target)..(first - 1) : Find(pl.dst, SubSeq(p, 1, n)) # {}
          /\ first <= Len(p) => Find(pl.dst, SubSeq(p, 1, first)) = {}
      BY DEF MakesDirs
    <2> QED BY <2>1, MissingDirs
  <1>3. pl.dst \subseteq Objects BY DEF Fit, Sound, Plans
  <1> DEFINE up(k) == SubSeq(p, 1, first + k - 1)
             made == [path |-> up(i), dir |-> TRUE, id |-> Len(pl.actions) + i]
             a == [on |-> "device", op |-> "MkDir", from |-> << >>, object |-> made]
             E == WithDirs(pl.dst, p, first, i)
             E1 == WithDirs(pl.dst, p, first, i + 1)
  <1>4. blk[i] = a /\ Len(blk) = Len(p) + 1 - first BY DEF MakesDirs
  <1>5. /\ a.on = "device" /\ a.op = "MkDir" /\ a.object = made
        /\ made.path = up(i) /\ made.dir = TRUE
    OBVIOUS
  <1> DEFINE t == Len(Target)
             l == Len(p)
  <1>6. t \in Nat \ {0} /\ l \in Nat /\ first \in t..(l + 1) /\ i \in 1..(l + 1 - first)
    BY <1>1, <1>4
  <1>7. /\ \A k \in 1..i : first + k - 1 \in 0..l
        /\ first + i - 1 \in first..l /\ first + i - 1 \in 1..l
        /\ \A k \in 1..(i - 1) : first + k - 1 # first + i - 1 /\ k \in 1..i
        /\ \A k : k \in 1..(i + 1 - 1) <=> k \in 1..(i - 1) \/ k = i
    <2> HIDE DEF t, l
    <2> QED BY <1>6
  <1>8. E = Bare(pl.dst) \cup {Dir(up(k)) : k \in 1..(i - 1)} BY DEF WithDirs
  <1>9. E1 = E \cup {Dir(up(i))}
    <2>1. E1 = Bare(pl.dst) \cup {Dir(up(k)) : k \in 1..(i + 1 - 1)} BY DEF WithDirs
    <2> HIDE DEF E, E1, up
    <2> QED BY <1>7, <1>8, <2>1
  <1>10. \A k \in 1..i : Len(up(k)) = first + k - 1 BY <1>1, <1>7
  <1>11. \A x \in E : x.path # up(i)
    <2>1. ASSUME NEW x \in Bare(pl.dst) PROVE x.path # up(i)
      <3>1. PICK o \in pl.dst : o.path = x.path BY <1>3, BareIs
      <3> QED BY <1>2, <1>7, <3>1
    <2>2. ASSUME NEW k \in 1..(i - 1) PROVE Dir(up(k)).path # up(i)
      <3>1. Dir(up(k)).path = up(k) BY DEF Dir
      <3>2. k \in 1..i /\ i \in 1..i /\ first + k - 1 # first + i - 1 BY <1>6, <1>7
      <3> HIDE DEF up
      <3> QED BY <1>10, <3>1, <3>2
    <2> HIDE DEF E, up
    <2> QED BY <1>8, <2>1, <2>2
  <1>12. HasParent(E, up(i))
    <2>1. Parent(up(i)) = SubSeq(p, 1, first + i - 1 - 1) BY <1>1, <1>7
    <2>2. CASE i = 1
      <3>1. first + i - 1 - 1 = first - 1 BY <1>6, <2>2
      <3>2. CASE first = 1
        <4>1. SubSeq(p, 1, 0) \in Path /\ Len(SubSeq(p, 1, 0)) = 0
          <5>1. 0 \in 0..Len(p) BY <1>1
          <5> QED BY <1>1, <5>1
        <4>2. SubSeq(p, 1, 0) = << >> BY <4>1, EmptySeq DEF Path
        <4>3. first - 1 = 0 BY <3>2
        <4> QED BY <2>1, <3>1, <4>2, <4>3 DEF HasParent
      <3>3. CASE first # 1
        <4>1. first - 1 \in 1..(first - 1) BY <1>6, <3>3
        <4>2. SubSeq(p, 1, first - 1) \in DirsIn(pl.dst) BY <1>2, <4>1
        <4>3. Dir(SubSeq(p, 1, first - 1)) \in Bare(pl.dst) BY <1>3, <4>2, BareIs
        <4> QED BY <1>8, <2>1, <3>1, <4>3 DEF HasParent
      <3> QED BY <3>2, <3>3
    <2>3. CASE i # 1
      <3>1. i - 1 \in 1..(i - 1) /\ first + i - 1 - 1 = first + (i - 1) - 1 BY <1>6, <2>3
      <3>2. Parent(up(i)) = up(i - 1) BY <2>1, <3>1
      <3>3. Dir(up(i - 1)) \in E
        <4> HIDE DEF up, E
        <4> QED BY <1>8, <3>1
      <3> HIDE DEF up, E
      <3> QED BY <3>2, <3>3 DEF HasParent
    <2> QED BY <2>2, <2>3
  <1>13. Effect(E, "MkDir", made) = E1
    <2> HIDE DEF E, E1, made, up
    <2> QED BY <1>5, <1>9 DEF Effect, Dir
  <1> HIDE DEF a, made, E, E1, up
  <1>14. Fits(src, E, a) BY <1>5, <1>11, <1>12 DEF Fits
  <1>15. Leads(a, src, E, src, E1) BY <1>5, <1>13, <1>14 DEF Leads
  <1> QED BY <1>4, <1>15 DEF E, E1, a

(* A block after a list of actions. *)
LEMMA ActionsAfter ==
  ASSUME NEW acts \in Seq(Actions), NEW blk \in Seq(Actions), NEW r, r = acts \o blk
  PROVE  /\ Len(acts) \in Nat /\ Len(blk) \in Nat /\ Len(r) = Len(acts) + Len(blk)
         /\ \A i \in 1..Len(acts) : r[i] = acts[i]
         /\ \A i \in 1..Len(blk) : r[Len(acts) + i] = blk[i]
  BY ConcatProperties, LenProperties

(* A block that removes nothing from the device keeps track of the objects. *)
LEMMA BlockTracked ==
  ASSUME NEW acts \in Seq(Actions), NEW blk \in Seq(Actions), NEW r, r = acts \o blk,
         NEW ois, NEW ois1, Tracked(acts, ois), ois \subseteq ois1,
         \A o \in ois1 \ ois : \E i \in 1..Len(blk) : blk[i].on = "device" /\ o = blk[i].object,
         \A i \in 1..Len(blk) : blk[i].on = "device" =>
           /\ blk[i].op # "Remove" /\ blk[i].object.id = Len(acts) + i /\ blk[i].object \in ois1
           /\ Len(blk[i].object.path) > 1 =>
                InOlderDir(ois1, blk[i].object.path, Len(acts) + i)
  PROVE  Tracked(r, ois1)
  <1> DEFINE N == Len(acts)
             M == Len(blk)
  <1>1. /\ N \in Nat /\ M \in Nat /\ Len(r) = N + M
        /\ \A i \in 1..N : r[i] = acts[i]
        /\ \A i \in 1..M : r[N + i] = blk[i]
    BY ActionsAfter
  <1> HIDE DEF N, M
  <1>2. ASSUME NEW k \in (N + 1)..(N + M) PROVE k - N \in 1..M /\ r[k] = blk[k - N]
    <2>1. k - N \in 1..M /\ N + (k - N) = k BY <1>1
    <2> QED BY <1>1, <2>1
  <1>3. ASSUME NEW k \in (N + 1)..(N + M), NEW p PROVE ~Clears(r[k], p)
    BY <1>2 DEF Clears, M
  <1>4. ASSUME NEW o \in ois1, o.id # 0 PROVE MadeBy(r, o.id, o)
    <2>1. CASE o \in ois
      <3>1. MadeBy(acts, o.id, o) BY <1>4, <2>1 DEF Tracked
      <3>2. o.id \in 1..N BY <3>1 DEF MadeBy, N
      <3>3. r[o.id] = acts[o.id] /\ o.id \in 1..(N + M) BY <1>1, <3>2
      <3>4. ASSUME NEW j \in (o.id + 1)..(N + M) PROVE ~Clears(r[j], o.path)
        <4>1. CASE j <= N
          <5>1. j \in (o.id + 1)..N /\ j \in 1..N BY <1>1, <3>2, <4>1
          <5>2. ~Clears(acts[j], o.path) BY <3>1, <5>1 DEF MadeBy, N
          <5> QED BY <1>1, <5>1, <5>2
        <4>2. CASE ~(j <= N)
          <5>1. j \in (N + 1)..(N + M) BY <1>1, <3>2, <4>2
          <5> QED BY <1>3, <5>1
        <4> QED BY <4>1, <4>2
      <3> QED BY <1>1, <3>1, <3>3, <3>4 DEF MadeBy
    <2>2. CASE o \notin ois
      <3>1. PICK i \in 1..M : blk[i].on = "device" /\ o = blk[i].object BY <2>2 DEF M
      <3>2. blk[i].op # "Remove" /\ o.id = N + i BY <3>1 DEF M, N
      <3>3. o.id \in 1..(N + M) /\ r[o.id] = blk[i] BY <1>1, <3>1, <3>2
      <3>4. \A j \in (o.id + 1)..(N + M) : j \in (N + 1)..(N + M) BY <1>1, <3>1, <3>2
      <3> QED BY <1>1, <1>3, <3>1, <3>2, <3>3, <3>4 DEF MadeBy
    <2> QED BY <2>1, <2>2
  <1>5. ASSUME NEW i \in 1..(N + M), r[i].on = "device", r[i].op # "Remove"
        PROVE  /\ r[i].object \in ois1
               /\ Len(r[i].object.path) > 1 => InOlderDir(ois1, r[i].object.path, i)
    <2>1. CASE i <= N
      <3>1. i \in 1..N BY <1>1, <2>1
      <3>2. r[i] = acts[i] BY <1>1, <3>1
      <3>3. /\ r[i].object \in ois
            /\ Len(r[i].object.path) > 1 => InOlderDir(ois, r[i].object.path, i)
        BY <1>5, <3>1, <3>2 DEF Tracked, N
      <3> QED BY <3>3 DEF InOlderDir
    <2>2. CASE ~(i <= N)
      <3>1. i \in (N + 1)..(N + M) BY <1>1, <2>2
      <3>2. i - N \in 1..M /\ r[i] = blk[i - N] BY <1>2, <3>1
      <3>3. N + (i - N) = i BY <1>1
      <3> QED BY <1>5, <3>2, <3>3 DEF M, N
    <2> QED BY <2>1, <2>2
  <1> QED BY <1>1, <1>4, <1>5 DEF Tracked

(* So it does with what the scan has found. *)
LEMMA BlockFound ==
  ASSUME NEW pl, pl.actions \in Seq(Actions), NEW blk \in Seq(Actions), NEW r,
         r.actions = pl.actions \o blk, Found(pl), \A o \in r.dst : o.id = 0 => o \in pl.dst,
         \A i \in 1..Len(blk) : blk[i].on = "device" => blk[i].op # "Remove"
  PROVE  Found(r)
  <1> DEFINE N == Len(pl.actions)
             M == Len(blk)
             acts == r.actions
  <1>1. acts = pl.actions \o blk OBVIOUS
  <1> HIDE DEF acts
  <1>2. /\ N \in Nat /\ M \in Nat /\ Len(acts) = N + M
        /\ \A i \in 1..N : acts[i] = pl.actions[i]
        /\ \A i \in 1..M : acts[N + i] = blk[i]
    BY <1>1, ActionsAfter
  <1>3. ASSUME NEW i \in 1..(N + M), acts[i].on = "device", acts[i].op = "Remove"
        PROVE  acts[i].object \in Scan(device)
    <2>1. CASE i <= N
      <3>1. i \in 1..N BY <1>2, <2>1
      <3> QED BY <1>2, <1>3, <3>1 DEF Found
    <2>2. CASE ~(i <= N)
      <3>1. i - N \in 1..M /\ N + (i - N) = i BY <1>2, <2>2
      <3>2. acts[i] = blk[i - N] BY <1>2, <3>1
      <3> QED BY <1>3, <3>1, <3>2
    <2> QED BY <2>1, <2>2
  <1> QED BY <1>2, <1>3 DEF Found, acts

(* The directories are made from the top down, each where there is none    *)
(* yet.                                                                    *)
LEMMA MakeCreateDirActionsFits ==
  ASSUME StandardFolders, NEW pl, Fit(pl), NEW q \in Files
  PROVE  LET p == Parent(Target \o q)
             r == MakeCreateDirActions(pl, p)
         IN  /\ Fit(r) /\ r.src = pl.src /\ r.thumbs = pl.thumbs
             /\ pl.dst \subseteq r.dst /\ \A x \in r.dst \ pl.dst : x.dir
             /\ p \in DirsIn(r.dst)
  <1> DEFINE p == Parent(Target \o q)
             r == MakeCreateDirActions(pl, p)
  <1>0. p = Parent(Target \o q) OBVIOUS
  <1>1. Sound(pl) /\ pl \in Plans /\ pl.actions \in Seq(Actions) /\ pl.dst \subseteq Objects
    BY DEF Fit, Sound, Plans
  <1>2. /\ Extends(pl, r, {}, {}, {}) /\ r.thumbs = pl.thumbs
        /\ \E first \in Len(Target)..(Len(p) + 1), blk \in Seq(Actions) :
             MakesDirs(pl, r, p, first, blk)
    BY <1>1, MakeCreateDirActionsDoes, Zenon
  <1>3. PICK first \in Len(Target)..(Len(p) + 1), blk \in Seq(Actions) :
          MakesDirs(pl, r, p, first, blk)
    BY <1>2
  <1> HIDE DEF r, p
  <1>4. Sound(r) /\ r.src = pl.src /\ Removed(r.actions) \subseteq Removed(pl.actions)
    BY <1>2 DEF Extends
  <1> DEFINE N == Len(pl.actions)
             M == Len(blk)
             up(k) == SubSeq(p, 1, first + k - 1)
  <1>5. /\ r.actions = pl.actions \o blk /\ M = Len(p) + 1 - first
        /\ r.dst = pl.dst \cup {blk[i].object : i \in 1..M}
        /\ \A i \in 1..M :
             blk[i] = [on |-> "device", op |-> "MkDir", from |-> << >>,
                       object |-> [path |-> up(i), dir |-> TRUE, id |-> N + i]]
    BY <1>3 DEF MakesDirs
  <1>6. /\ p \in Path /\ Len(p) \in Nat /\ Len(Target) \in Nat \ {0} /\ Len(Target) <= Len(p)
        /\ SubSeq(p, 1, Len(p)) = p
        /\ \A n \in 0..Len(p) : /\ SubSeq(p, 1, n) \in Path /\ Len(SubSeq(p, 1, n)) = n
                                /\ \A k \in 0..n : SubSeq(SubSeq(p, 1, n), 1, k) = SubSeq(p, 1, k)
    BY <1>0, WriteDirIs
  <1>7. /\ \A n \in first..Len(p) : \A x \in pl.dst : x.path # SubSeq(p, 1, n)
        /\ \A n \in 1..(first - 1) : SubSeq(p, 1, n) \in DirsIn(pl.dst)
    <2>1. /\ \A n \in Len(Target)..(first - 1) : Find(pl.dst, SubSeq(p, 1, n)) # {}
          /\ first <= Len(p) => Find(pl.dst, SubSeq(p, 1, first)) = {}
      BY <1>3 DEF MakesDirs
    <2> QED BY <1>0, <2>1, MissingDirs
  <1>8. /\ N \in Nat /\ M \in Nat /\ Len(r.actions) = N + M
        /\ \A i \in 1..N : r.actions[i] = pl.actions[i]
        /\ \A i \in 1..M : r.actions[N + i] = blk[i]
    <2>1. r.actions = pl.actions \o blk BY <1>5
    <2> QED BY <1>1, <2>1, ActionsAfter
  <1>9. /\ first \in Nat \ {0} /\ Len(Target) <= first
        /\ \A i \in 1..M : first + i - 1 \in first..Len(p) /\ first + i - 1 \in 0..Len(p)
        /\ \A n \in first..Len(p) : n - first + 1 \in 1..M /\ first + (n - first + 1) - 1 = n
    <2> DEFINE t == Len(Target)
               l == Len(p)
    <2>1. t \in Nat \ {0} /\ l \in Nat /\ first \in t..(l + 1) /\ M = l + 1 - first
      BY <1>5, <1>6
    <2> HIDE DEF t, l, M
    <2>2. /\ first \in Nat \ {0} /\ t <= first
          /\ \A i \in 1..M : first + i - 1 \in first..l /\ first + i - 1 \in 0..l
          /\ \A n \in first..l : n - first + 1 \in 1..M /\ first + (n - first + 1) - 1 = n
      BY <2>1
    <2> QED BY <2>2 DEF t, l
  <1>10. ASSUME NEW i \in 1..M
         PROVE  /\ blk[i].on = "device" /\ blk[i].op = "MkDir"
                /\ blk[i].object.path = up(i) /\ blk[i].object.dir = TRUE
                /\ blk[i].object.id = N + i
                /\ blk[i].object = [path |-> up(i), dir |-> TRUE, id |-> N + i]
                /\ Len(up(i)) = first + i - 1
    <2>1. Len(up(i)) = first + i - 1 BY <1>6, <1>9
    <2> DEFINE u == up(i)
               made == [path |-> u, dir |-> TRUE, id |-> N + i]
               a == [on |-> "device", op |-> "MkDir", from |-> << >>, object |-> made]
    <2>2. blk[i] = a BY <1>5
    <2> HIDE DEF u, N
    <2>3. made.path = u /\ made.dir = TRUE /\ made.id = N + i OBVIOUS
    <2>4. made = [path |-> u, dir |-> TRUE, id |-> N + i] OBVIOUS
    <2> HIDE DEF made
    <2>5. a.on = "device" /\ a.op = "MkDir" /\ a.object = made OBVIOUS
    <2> HIDE DEF a
    <2> QED BY <2>1, <2>2, <2>3, <2>4, <2>5 DEF u
  <1> HIDE DEF M, N
  <1>11. ASSUME NEW x \in r.dst
         PROVE  \/ x \in pl.dst
                \/ \E i \in 1..M : /\ x = [path |-> up(i), dir |-> TRUE, id |-> N + i]
                                   /\ x.path = up(i) /\ x.dir = TRUE /\ x.id = N + i
    <2>1. CASE x \in pl.dst BY <2>1
    <2>2. CASE x \in {blk[i].object : i \in 1..M}
      <3>1. PICK i \in 1..M : x = blk[i].object BY <2>2
      <3> QED BY <1>10, <3>1
    <2> QED BY <1>5, <2>1, <2>2
  <1>12. \A n \in 1..Len(p) : SubSeq(p, 1, n) \in DirsIn(r.dst)
    <2> TAKE n \in 1..Len(p)
    <2>1. CASE n < first
      <3>1. n \in 1..(first - 1) BY <1>9, <2>1
      <3> QED BY <1>5, <1>7, <3>1 DEF DirsIn
    <2>2. CASE ~(n < first)
      <3> DEFINE i == n - first + 1
      <3>1. i \in 1..M /\ first + i - 1 = n BY <1>6, <1>9, <2>2
      <3> HIDE DEF i
      <3>2. blk[i].object \in r.dst BY <1>5, <3>1
      <3>3. blk[i].object.path = SubSeq(p, 1, n) /\ blk[i].object.dir BY <1>10, <3>1
      <3> QED BY <3>2, <3>3 DEF DirsIn
    <2> QED BY <2>1, <2>2
  <1>13. p \in DirsIn(r.dst)
    <2>1. Len(p) \in 1..Len(p) BY <1>6
    <2> QED BY <1>6, <1>12, <2>1
  <1>14. pl.dst \subseteq r.dst /\ \A x \in r.dst \ pl.dst : x.dir BY <1>5, <1>11
  <1>15. Keyed(r.dst)
    <2> SUFFICES ASSUME NEW x \in r.dst, NEW y \in r.dst, x.path = y.path PROVE x = y
      BY DEF Keyed
    <2>1. ASSUME NEW z \in pl.dst, NEW i \in 1..M, z.path = up(i) PROVE FALSE
      BY <1>7, <1>9, <2>1
    <2>2. ASSUME NEW i \in 1..M, NEW k \in 1..M, up(i) = up(k) PROVE i = k
      <3>1. first + i - 1 = first + k - 1 BY <1>10, <2>2
      <3> QED BY <1>9, <3>1
    <2> HIDE DEF up
    <2>3. CASE x \in pl.dst /\ y \in pl.dst BY <2>3 DEF Fit, Keyed
    <2>4. CASE x \in pl.dst /\ y \notin pl.dst BY <1>11, <2>1, <2>4
    <2>5. CASE x \notin pl.dst /\ y \in pl.dst BY <1>11, <2>1, <2>5
    <2>6. CASE x \notin pl.dst /\ y \notin pl.dst
      <3>1. PICK i \in 1..M : x = [path |-> up(i), dir |-> TRUE, id |-> N + i] /\ x.path = up(i)
        BY <1>11, <2>6
      <3>2. PICK k \in 1..M : y = [path |-> up(k), dir |-> TRUE, id |-> N + k] /\ y.path = up(k)
        BY <1>11, <2>6
      <3>3. i = k BY <2>2, <3>1, <3>2
      <3> QED BY <3>1, <3>2, <3>3
    <2> QED BY <2>3, <2>4, <2>5, <2>6
  <1>16. Closed(r.dst)
    <2> SUFFICES ASSUME NEW x \in r.dst, NEW n \in 1..(Len(x.path) - 1)
                 PROVE  \E y \in r.dst : y.path = SubSeq(x.path, 1, n) /\ y.dir
      BY DEF Closed
    <2>1. CASE x \in pl.dst BY <1>5, <2>1 DEF Fit, Closed
    <2>2. CASE x \notin pl.dst
      <3>1. PICK i \in 1..M : x.path = up(i) BY <1>11, <2>2
      <3>2. Len(x.path) = first + i - 1 BY <1>10, <3>1
      <3>3. n \in 0..(first + i - 1) /\ n \in 1..Len(p) BY <1>6, <1>9, <3>2
      <3>4. SubSeq(x.path, 1, n) = SubSeq(p, 1, n) BY <1>6, <1>9, <3>1, <3>3
      <3> QED BY <1>12, <3>3, <3>4 DEF DirsIn
    <2> QED BY <2>1, <2>2
  <1>17. Orderly(r.actions)
    <2>1. \A i \in 1..M : /\ blk[i].op # "Remove" /\ blk[i].object.id = N + i
                          /\ Mounted \/ Len(blk[i].object.path) > 1
      <3> TAKE i \in 1..M
      <3>1. Mounted \/ first + i - 1 > 1 BY <1>6, <1>9 DEF StandardFolders
      <3> QED BY <1>10, <3>1
    <2> QED BY <1>1, <1>5, <2>1, BlockOrderly DEF Fit, M, N
  <1> DEFINE E(n) == WithDirs(pl.dst, p, first, n)
             Es == [n \in 1..(M + 1) |-> E(n)]
             Ts == [n \in 1..(M + 1) |-> Bare(pl.src)]
  <1>18. E(1) = Bare(pl.dst)
    <2>1. 1..(1 - 1) = {} OBVIOUS
    <2> QED BY <2>1 DEF WithDirs
  <1>19. E(M + 1) = Bare(r.dst)
    <2>1. E(M + 1) = Bare(pl.dst) \cup {Dir(up(i)) : i \in 1..M}
      <3>1. (M + 1) - 1 = M BY <1>8
      <3> QED BY <3>1 DEF WithDirs
    <2> HIDE DEF E
    <2> DEFINE new == {blk[i].object : i \in 1..M}
    <2>2. Bare(new) = {Dir(up(i)) : i \in 1..M}
      <3>1. \A i \in 1..M : [path |-> blk[i].object.path, dir |-> blk[i].object.dir] = Dir(up(i))
        BY <1>10 DEF Dir
      <3>2. Bare(new) = {[path |-> blk[i].object.path, dir |-> blk[i].object.dir] : i \in 1..M}
        BY DEF Bare
      <3> HIDE DEF up, new
      <3> QED BY <3>1, <3>2
    <2>3. r.dst = pl.dst \cup new BY <1>5
    <2> HIDE DEF new
    <2>4. Bare(r.dst) = Bare(pl.dst) \cup Bare(new) BY <2>3 DEF Bare
    <2> QED BY <2>1, <2>2, <2>4
  <1>20. /\ Ts[1] = Bare(pl.src) /\ Es[1] = Bare(pl.dst)
         /\ Ts[M + 1] = Bare(r.src) /\ Es[M + 1] = Bare(r.dst)
    <2>1. 1 \in 1..(M + 1) /\ M + 1 \in 1..(M + 1) BY <1>8
    <2> HIDE DEF E
    <2> QED BY <1>4, <1>18, <1>19, <2>1
  <1>21. \A i \in 1..M : Leads(r.actions[N + i], Ts[i], Es[i], Ts[i + 1], Es[i + 1])
    <2> TAKE i \in 1..M
    <2>1. i \in 1..(M + 1) /\ i + 1 \in 1..(M + 1) /\ i \in 1..Len(blk) BY <1>8 DEF M
    <2>2. Leads(blk[i], Bare(pl.src), E(i), Bare(pl.src), E(i + 1))
      BY <1>0, <1>3, <2>1, MakingDirsLeads
    <2> HIDE DEF E
    <2>3. Es[i] = E(i) /\ Es[i + 1] = E(i + 1) /\ Ts[i] = Bare(pl.src) /\ Ts[i + 1] = Bare(pl.src)
      BY <2>1
    <2> QED BY <1>8, <2>2, <2>3
  <1> HIDE DEF Es, Ts, E
  <1>22. Runs(r.actions, 1, local, device, Bare(r.src), Bare(r.dst))
    <2>1. Runs(pl.actions, 1, local, device, Ts[1], Es[1]) BY <1>20 DEF Fit
    <2>2. Len(pl.actions) = N BY DEF N
    <2>3. Runs(r.actions, 1, local, device, Ts[M + 1], Es[M + 1])
      BY <1>8, <1>21, <2>1, <2>2, LongerRuns
    <2> QED BY <1>20, <2>3
  <1>23. /\ Stock \subseteq DirsIn(r.dst) /\ (thumbsOn => ThumbFolder \in DirsIn(r.dst))
         /\ \A x \in r.dst : x.id = 0 => x.path \notin Removed(r.actions)
    <2>1. DirsIn(pl.dst) \subseteq DirsIn(r.dst) BY <1>14 DEF DirsIn
    <2>2. \A i \in 1..M : N + i # 0 BY <1>8
    <2>3. ASSUME NEW x \in r.dst, x.id = 0 PROVE x.path \notin Removed(r.actions)
      <3>1. x \in pl.dst BY <1>11, <2>2, <2>3
      <3> QED BY <1>4, <2>3, <3>1 DEF Fit
    <2> QED BY <2>1, <2>3 DEF Fit
  <1>24. ASSUME NEW i \in 1..M PROVE Len(up(i)) > 1 => InOlderDir(r.dst, up(i), N + i)
    <2> SUFFICES ASSUME Len(up(i)) > 1 PROVE InOlderDir(r.dst, up(i), N + i) OBVIOUS
    <2>1. first + i - 1 \in 1..Len(p) /\ first + i - 1 > 1 BY <1>6, <1>9, <1>10
    <2>2. Parent(up(i)) = SubSeq(p, 1, first + i - 1 - 1) BY <1>0, <2>1, WriteDirIs
    <2>3. CASE i = 1
      <3>1. first + i - 1 - 1 = first - 1 /\ first - 1 \in 1..(first - 1) BY <1>9, <2>1, <2>3
      <3>2. SubSeq(p, 1, first - 1) \in DirsIn(pl.dst) BY <1>7, <3>1
      <3>3. PICK d \in pl.dst : d.path = SubSeq(p, 1, first - 1) /\ d.dir
        BY <3>2 DEF DirsIn
      <3>4. d.id = 0 \/ d.id \in 1..N BY DEF Fit, Tracked, MadeBy, N
      <3>5. d.id < N + i BY <1>8, <2>3, <3>4
      <3> QED BY <1>14, <2>2, <3>1, <3>3, <3>5 DEF InOlderDir
    <2>4. CASE i # 1
      <3>1. i - 1 \in 1..M /\ first + i - 1 - 1 = first + (i - 1) - 1 /\ N + (i - 1) < N + i
        BY <1>8, <1>9, <2>4
      <3>2. blk[i - 1].object \in r.dst BY <1>5, <3>1
      <3>3. /\ blk[i - 1].object.path = SubSeq(p, 1, first + (i - 1) - 1)
            /\ blk[i - 1].object.dir /\ blk[i - 1].object.id = N + (i - 1)
        BY <1>10, <3>1
      <3> QED BY <2>2, <3>1, <3>2, <3>3 DEF InOlderDir
    <2> QED BY <2>3, <2>4
  <1>25. Tracked(r.actions, r.dst)
    <2>1. \A i \in 1..M : /\ blk[i].on = "device" /\ blk[i].op # "Remove"
                          /\ blk[i].object.id = N + i /\ blk[i].object \in r.dst
                          /\ Len(blk[i].object.path) > 1 =>
                               InOlderDir(r.dst, blk[i].object.path, N + i)
      <3> TAKE i \in 1..M
      <3>1. blk[i].object \in r.dst BY <1>5
      <3> HIDE DEF up
      <3> QED BY <1>10, <1>24, <3>1
    <2>2. \A x \in r.dst \ pl.dst : \E i \in 1..M : x = blk[i].object BY <1>5
    <2>3. Tracked(pl.actions, pl.dst) BY DEF Fit
    <2> DEFINE acts == pl.actions
               acts1 == r.actions
               ois == pl.dst
               ois1 == r.dst
    <2>4. /\ acts \in Seq(Actions) /\ acts1 = acts \o blk /\ Tracked(acts, ois)
          /\ ois \subseteq ois1
          /\ \A x \in ois1 \ ois :
                \E i \in 1..Len(blk) : blk[i].on = "device" /\ x = blk[i].object
      BY <1>1, <1>5, <1>14, <2>1, <2>2, <2>3 DEF M
    <2>5. \A i \in 1..Len(blk) : blk[i].on = "device" =>
             /\ blk[i].op # "Remove" /\ blk[i].object.id = Len(acts) + i /\ blk[i].object \in ois1
             /\ Len(blk[i].object.path) > 1 =>
                  InOlderDir(ois1, blk[i].object.path, Len(acts) + i)
      BY <2>1 DEF M, N
    <2> HIDE DEF acts, acts1, ois, ois1
    <2>6. Tracked(acts1, ois1) BY <2>4, <2>5, BlockTracked
    <2> QED BY <2>6 DEF acts1, ois1
  <1>26. \A x \in r.dst : x.id = 0 => x \in pl.dst
    <2>1. \A i \in 1..M : N + i # 0 BY <1>8
    <2> QED BY <1>11, <2>1
  <1>27. Found(r)
    <2>1. \A i \in 1..M : blk[i].op # "Remove" BY <1>10
    <2> QED BY <1>1, <1>5, <1>26, <2>1, BlockFound, ZenonT(30) DEF Fit, M
  <1>28. Findable(r) BY <1>2, <1>26, StaysFindable DEF Fit
  <1>29. Fit(r)
    BY <1>4, <1>15, <1>16, <1>17, <1>22, <1>23, <1>25, <1>27, <1>28 DEF Fit
  <1> QED BY <1>2, <1>4, <1>13, <1>14, <1>29 DEF r, p

(* A directory in which strings.HasPrefix finds nothing is empty. *)
LEMMA NothingLeft ==
  ASSUME NEW q \in BookPaths \cup Indexes, NEW dir, dir = Parent(Source \o q),
         NEW n \in (Len(Source) + 1)..Len(dir),
         NEW ois, ois \subseteq Objects, SubsetByPath(ois, SubSeq(dir, 1, n)) = {},
         NEW x \in ois
  PROVE  ~IsUnder(x.path, SubSeq(dir, 1, n))
  <1> SUFFICES ASSUME IsUnder(x.path, SubSeq(dir, 1, n)) PROVE FALSE
    OBVIOUS
  <1> DEFINE p == Source \o q
             d == SubSeq(dir, 1, n)
  <1>1. /\ p \in Path /\ dir \in Path /\ Len(dir) = Len(p) - 1 /\ Len(p) \in Nat
        /\ Len(Source) \in Nat \ {0}
        /\ \A k \in 0..Len(dir) : SubSeq(dir, 1, k) = SubSeq(p, 1, k)
    BY UpsOfLocal
  <1>2. \A k \in 1..Len(p) : StartsWith(p[k], p[k]) BY LocalNames
  <1>3. n \in 0..Len(dir) /\ n \in 1..Len(p) /\ n \in 0..Len(p) /\ n \in 1..n /\ n \in Nat
    BY <1>1
  <1>4. d = SubSeq(p, 1, n) /\ Len(d) = n /\ d[n] = p[n] BY <1>1, <1>3, UpIs
  <1>5. x.path \in Path /\ x.path # << >> /\ x.dir \in BOOLEAN BY DEF Objects
  <1>6. Len(x.path) \in Nat /\ n < Len(x.path) /\ SubSeq(x.path, 1, n) = d
    BY <1>4, <1>5, LenProperties DEF IsUnder, Path
  <1>7. n \in 1..Len(x.path) /\ n \in 0..Len(x.path) /\ n \in 1..(Len(x.path) - 1)
        /\ n \in 0..(Len(x.path) - 1) /\ Len(x.path) - 1 \in 0..Len(x.path)
    BY <1>3, <1>6
  <1>8. x.path[n] = p[n] BY <1>3, <1>4, <1>5, <1>6, <1>7, UpIs
  <1>9. StartsWith(x.path[n], x.path[n]) BY <1>2, <1>3, <1>8
  <1>10. HasPrefix(x.path, d) BY <1>5, <1>6, <1>7, <1>9, HasPrefixOfUp
  <1>11. HasPrefix(Parent(x.path), d)
    <2>1. /\ Parent(x.path) \in Path /\ Len(Parent(x.path)) = Len(x.path) - 1
          /\ Parent(x.path)[n] = x.path[n]
      BY <1>5, <1>7, ParentIs
    <2>2. SubSeq(Parent(x.path), 1, n) = d BY <1>5, <1>6, <1>7, UpOfUp DEF Parent
    <2>3. HasPrefix(Parent(x.path), SubSeq(Parent(x.path), 1, n))
      BY <1>7, <1>9, <2>1, HasPrefixOfUp
    <2> QED BY <2>2, <2>3
  <1>12. x.path # d BY <1>4, <1>6
  <1>13. x \in SubsetByPath(ois, d) BY <1>10, <1>11, <1>12 DEF SubsetByPath
  <1> QED BY <1>13

(* Removing a file from the source with the directories it leaves empty.   *)
LEMMA MakeRemoveActionsFits ==
  ASSUME NEW pl, Fit(pl), NEW q \in BookPaths \cup Indexes,
         NEW o \in Objects, o.path = Source \o q, Source \o q \in FilesIn(pl.src)
  PROVE  LET r == MakeRemoveActions(pl, o)
         IN  Fit(r) /\ r.dst = pl.dst /\ r.thumbs = pl.thumbs
  <1> DEFINE dir == Parent(Source \o q)
             m == TakeFromSource(pl, o)
             r == MakeRemoveActions(pl, o)
  <1>0. dir = Parent(Source \o q) OBVIOUS
  <1>1. Sound(pl) BY DEF Fit
  <1>2. Fit(m) BY TakeFromSourceFits
  <1>3. /\ Shrinks(pl, m, {Source \o q}) /\ StandsIn(m.src, dir)
        /\ \E stop \in Len(Source)..Len(dir) :
             RemovesUpTo(m, r, dir, stop) /\ Removed(r.actions) = Removed(m.actions)
    BY <1>1, MakeRemoveActionsRemoves
  <1>4. PICK stop \in Len(Source)..Len(dir) :
          RemovesUpTo(m, r, dir, stop) /\ Removed(r.actions) = Removed(m.actions)
    BY <1>3
  <1>5. Shrinks(pl, r, {Source \o q}) BY <1>1, MakeRemoveActionsDoes
  <1>6. dir \in Path /\ Len(dir) \in Nat /\ Len(Source) \in Nat \ {0}
    BY UpsOfLocal
  <1> HIDE DEF r, m, dir
  <1>7. m.actions \in Seq(Actions) /\ m.src \subseteq Objects /\ Sound(m)
    BY <1>2 DEF Fit, Sound, Plans
  <1>8. Sound(r) /\ r.dst = pl.dst /\ r.thumbs = pl.thumbs /\ m.dst = pl.dst
    BY <1>3, <1>5 DEF Shrinks
  <1>9. PICK blk \in Seq(Actions) :
          /\ r.actions = m.actions \o blk /\ Len(blk) = Len(dir) - stop
          /\ \A i \in 1..Len(blk) : /\ blk[i].on = "local" /\ blk[i].op = "Remove"
                                    /\ blk[i].object.path = SubSeq(dir, 1, Len(dir) + 1 - i)
    BY <1>4 DEF RemovesUpTo
  <1> DEFINE N == Len(m.actions)
             M == Len(blk)
             left(n) == {x \in m.src : x.path \notin Emptied(dir, n)}
             at(i) == Len(dir) + 1 - i
  <1>10. /\ N \in Nat /\ M \in Nat /\ Len(r.actions) = N + M
         /\ \A i \in 1..N : r.actions[i] = m.actions[i]
         /\ \A i \in 1..M : r.actions[N + i] = blk[i]
    BY <1>7, <1>9, ActionsAfter, ZenonT(30)
  <1>11. /\ stop \in Nat /\ M = Len(dir) - stop /\ at(1) = Len(dir) /\ at(M + 1) = stop
         /\ \A i \in 1..M : /\ at(i) \in (stop + 1)..Len(dir) /\ at(i + 1) = at(i) - 1
                            /\ at(i) \in (Len(Source) + 1)..Len(dir) /\ at(i) \in 1..Len(dir)
    <2> DEFINE l == Len(dir)
               s == Len(Source)
    <2>1. l \in Nat /\ s \in Nat \ {0} /\ stop \in s..l /\ M = l - stop BY <1>6, <1>9
    <2> HIDE DEF l, s, M
    <2>2. /\ stop \in Nat /\ M = l - stop /\ l + 1 - 1 = l /\ l + 1 - (M + 1) = stop
          /\ \A i \in 1..M : /\ l + 1 - i \in (stop + 1)..l /\ l + 1 - (i + 1) = (l + 1 - i) - 1
                             /\ l + 1 - i \in (s + 1)..l /\ l + 1 - i \in 1..l
      BY <2>1
    <2> QED BY <2>2 DEF l, s
  <1> HIDE DEF M, N, at
  <1>12. \A n \in (stop + 1)..Len(dir) : SubsetByPath(left(n), SubSeq(dir, 1, n)) = {}
    BY <1>4 DEF RemovesUpTo
  <1>13. left(Len(dir)) = m.src /\ left(stop) = r.src
    <2>1. (Len(dir) + 1)..Len(dir) = {} BY <1>6
    <2>2. left(Len(dir)) = m.src BY <2>1 DEF Emptied
    <2>3. left(stop) = r.src BY <1>4 DEF RemovesUpTo
    <2> QED BY <2>2, <2>3
  <1>14. ASSUME NEW n \in (stop + 1)..Len(dir), n \in 1..Len(dir),
                n \in (Len(Source) + 1)..Len(dir)
         PROVE  /\ \E x \in Bare(left(n)) : x.path = SubSeq(dir, 1, n)
                /\ \A x \in Bare(left(n)) : ~IsUnder(x.path, SubSeq(dir, 1, n))
                /\ Bare(left(n - 1)) = {x \in Bare(left(n)) : x.path # SubSeq(dir, 1, n)}
    <2>1. left(n) \subseteq Objects BY <1>7
    <2>2. \A x \in left(n) : ~IsUnder(x.path, SubSeq(dir, 1, n))
      BY <1>0, <1>12, <1>14, <2>1, NothingLeft
    <2>3. n \in 0..Len(dir) /\ Len(SubSeq(dir, 1, n)) = n BY <1>6, UpIs
    <2>4. SubSeq(dir, 1, n) \notin Emptied(dir, n)
      <3> SUFFICES ASSUME NEW k \in (n + 1)..Len(dir), SubSeq(dir, 1, k) = SubSeq(dir, 1, n)
                   PROVE  FALSE
        BY DEF Emptied
      <3>1. k \in 0..Len(dir) /\ k # n BY <1>6, <1>14
      <3>2. Len(SubSeq(dir, 1, k)) = k BY <1>6, <3>1, UpIs
      <3> QED BY <2>3, <3>1, <3>2
    <2>5. PICK y \in m.src : y.path = SubSeq(dir, 1, n) BY <1>3, <1>14 DEF StandsIn
    <2>6. y \in left(n) BY <2>4, <2>5
    <2>7. Emptied(dir, n - 1) = Emptied(dir, n) \cup {SubSeq(dir, 1, n)}
      <3> DEFINE l == Len(dir)
      <3>1. n \in Nat /\ l \in Nat /\ n <= l BY <1>6, <1>14
      <3>2. Emptied(dir, n - 1) = {SubSeq(dir, 1, k) : k \in ((n - 1) + 1)..l} BY DEF Emptied
      <3>3. Emptied(dir, n) = {SubSeq(dir, 1, k) : k \in (n + 1)..l} BY DEF Emptied
      <3> HIDE DEF l
      <3>4. \A k : k \in ((n - 1) + 1)..l <=> k \in (n + 1)..l \/ k = n BY <3>1
      <3> QED BY <3>2, <3>3, <3>4
    <2> DEFINE gone == {SubSeq(dir, 1, n)}
    <2>8. left(n - 1) = {x \in left(n) : x.path \notin gone} BY <2>7
    <2>9. \A x : x.path \notin gone <=> x.path # SubSeq(dir, 1, n) OBVIOUS
    <2> HIDE DEF left, gone
    <2>10. Bare({x \in left(n) : x.path \notin gone}) = {x \in Bare(left(n)) : x.path \notin gone}
      BY BareWithout, Zenon
    <2>11. \E x \in Bare(left(n)) : x.path = SubSeq(dir, 1, n)
      <3> DEFINE left1 == left(n)
      <3> HIDE DEF left1
      <3>1. \A z \in left1 : \E x \in Bare(left1) : z.path = x.path /\ z.dir = x.dir
        BY <2>1, BareIs, Zenon DEF left1
      <3>2. y \in left1 BY <2>6 DEF left1
      <3>3. \E x \in Bare(left1) : y.path = x.path BY <3>1, <3>2
      <3> QED BY <2>5, <3>3 DEF left1
    <2>12. ASSUME NEW x \in Bare(left(n)) PROVE ~IsUnder(x.path, SubSeq(dir, 1, n))
      <3>1. PICK z \in left(n) : z.path = x.path BY <2>1, BareIs
      <3> QED BY <2>2, <3>1
    <2> QED BY <2>8, <2>9, <2>10, <2>11, <2>12
  <1> HIDE DEF left
  <1> DEFINE Ts == [i \in 1..(M + 1) |-> Bare(left(at(i)))]
             Es == [i \in 1..(M + 1) |-> Bare(m.dst)]
  <1>15. /\ Ts[1] = Bare(m.src) /\ Es[1] = Bare(m.dst)
         /\ Ts[M + 1] = Bare(r.src) /\ Es[M + 1] = Bare(r.dst)
    <2>1. 1 \in 1..(M + 1) /\ M + 1 \in 1..(M + 1) BY <1>10
    <2> QED BY <1>8, <1>11, <1>13, <2>1
  <1>16. \A i \in 1..M : Leads(r.actions[N + i], Ts[i], Es[i], Ts[i + 1], Es[i + 1])
    <2> TAKE i \in 1..M
    <2>1. i \in 1..(M + 1) /\ i + 1 \in 1..(M + 1) BY <1>10
    <2>2. /\ Ts[i] = Bare(left(at(i))) /\ Ts[i + 1] = Bare(left(at(i) - 1))
          /\ Es[i] = Bare(m.dst) /\ Es[i + 1] = Bare(m.dst)
      BY <1>11, <2>1
    <2> HIDE DEF Ts, Es
    <2>3. /\ blk[i].on = "local" /\ blk[i].op = "Remove"
          /\ blk[i].object.path = SubSeq(dir, 1, at(i))
      BY <1>9 DEF M, at
    <2>4. /\ \E x \in Bare(left(at(i))) : x.path = SubSeq(dir, 1, at(i))
          /\ \A x \in Bare(left(at(i))) : ~IsUnder(x.path, SubSeq(dir, 1, at(i)))
          /\ Bare(left(at(i) - 1)) = {x \in Bare(left(at(i))) : x.path # SubSeq(dir, 1, at(i))}
      BY <1>11, <1>14
    <2>5. Fits(Ts[i], Ts[i], blk[i]) BY <2>2, <2>3, <2>4 DEF Fits
    <2>6. Ts[i + 1] = Effect(Ts[i], blk[i].op, blk[i].object) BY <2>2, <2>3, <2>4 DEF Effect
    <2>7. Leads(blk[i], Ts[i], Es[i], Ts[i + 1], Es[i + 1])
      BY <2>2, <2>3, <2>5, <2>6 DEF Leads
    <2> QED BY <1>10, <2>7
  <1> HIDE DEF Ts, Es
  <1>17. Runs(r.actions, 1, local, device, Bare(r.src), Bare(r.dst))
    <2>1. Runs(m.actions, 1, local, device, Ts[1], Es[1]) BY <1>2, <1>15 DEF Fit
    <2>2. Len(m.actions) = N BY DEF N
    <2>3. Runs(r.actions, 1, local, device, Ts[M + 1], Es[M + 1])
      BY <1>10, <1>16, <2>1, <2>2, LongerRuns
    <2> QED BY <1>15, <2>3
  <1>18. Orderly(r.actions)
    <2>1. \A i \in 1..Len(blk) : blk[i].on # "device" BY <1>9
    <2> QED BY <1>2, <1>7, <1>9, <2>1, BlockOrderly DEF Fit
  <1>19. Tracked(r.actions, r.dst)
    <2>1. \A i \in 1..Len(blk) : blk[i].on # "device" BY <1>9
    <2>2. Tracked(m.actions, m.dst) BY <1>2 DEF Fit
    <2> DEFINE acts == m.actions
               acts1 == r.actions
               ois == r.dst
    <2>3. acts \in Seq(Actions) /\ acts1 = acts \o blk /\ Tracked(acts, ois)
      BY <1>7, <1>8, <1>9, <2>2
    <2> HIDE DEF acts, acts1, ois
    <2>4. Tracked(acts1, ois) BY <2>1, <2>3, BlockTracked
    <2> QED BY <2>4 DEF acts1, ois
  <1>20. Found(r)
    <2>1. \A i \in 1..Len(blk) : blk[i].on # "device" BY <1>9
    <2> QED BY <1>2, <1>7, <1>8, <1>9, <2>1, BlockFound, ZenonT(30) DEF Fit
  <1>21. Findable(r)
    <2>1. Findable(pl) BY DEF Fit
    <2> QED BY <1>8, <2>1, StaysFindable
  <1>22. Fit(r) BY <1>2, <1>4, <1>8, <1>17, <1>18, <1>19, <1>20, <1>21 DEF Fit
  <1> QED BY <1>8, <1>22 DEF r

(* A file of the device that the plan does not make was found by the scan. *)
LEMMA FoundFile ==
  ASSUME NEW pl, Fit(pl), NEW p \in DeviceFiles, p \notin Made(pl),
         NEW o \in pl.dst, o.path = p
  PROVE  ~o.dir /\ o.id = 0
  <1>1. o.dir \in BOOLEAN BY DEF Fit, Sound, Plans, Objects
  <1>2. ~o.dir
    <2>1. o.dir => o.path \in DeviceDirs BY DEF Fit, Sound, TargetKnown, DirsIn
    <2> QED BY <1>1, <2>1, DeviceFileIsNoDir
  <1>3. o.id = 0 BY <1>2 DEF Made
  <1> QED BY <1>2, <1>3

(* Copying a file of the source: the directories, the previous copy, which *)
(* the plan has not made itself, and the copy.                             *)
LEMMA MakeCopyActionsFits ==
  ASSUME StandardFolders, NEW pl, Fit(pl), NEW q \in BookPaths \cup Indexes,
         Source \o q \in FilesIn(pl.src), Target \o q \notin Made(pl)
  PROVE  LET r == MakeCopyActions(pl, Source \o q)
         IN  /\ Fit(r) /\ r.src = pl.src /\ r.thumbs = pl.thumbs
             /\ Made(r) \subseteq Made(pl) \cup {Target \o q}
             /\ \A x \in pl.dst : x.path # Target \o q => x \in r.dst
  <1> DEFINE to == Target \o q
             dirs == MakeCreateDirActions(pl, Parent(to))
             prev == {o \in Find(dirs.dst, to) : ~o.dir}
             free == IF prev = {} THEN dirs
                     ELSE RemoveFromDevice(dirs, CHOOSE o \in prev : TRUE)
             r == Make(free, "Copy", to, FALSE, Source \o q)
  <1>0. Source \in Path /\ Target \in Path /\ q \in Path /\ q \in Files /\ Source \o q \in Path
    BY PathsAssumption, ConcatIs DEF Files, PathsFit
  <1>1. Reroot(Source \o q, Source, Target) = to BY <1>0, RerootIs
  <1>2. MakeCopyActions(pl, Source \o q) = r
    BY <1>1, Zenon DEF MakeCopyActions
  <1>3. /\ Fit(dirs) /\ dirs.src = pl.src /\ dirs.thumbs = pl.thumbs
        /\ pl.dst \subseteq dirs.dst /\ \A x \in dirs.dst \ pl.dst : x.dir
        /\ Parent(to) \in DirsIn(dirs.dst)
    BY <1>0, MakeCreateDirActionsFits, Zenon
  <1>4. to \in DeviceFiles BY <1>0 DEF DeviceFiles
  <1>5. Len(to) > 1
    BY <1>0, ConstantsArePaths, ConcatIs, ParentIs
  <1> HIDE DEF dirs, to
  <1>6. Made(dirs) \subseteq Made(pl) BY <1>3 DEF Made
  <1>7. /\ Fit(free) /\ free.src = pl.src /\ free.thumbs = pl.thumbs
        /\ Made(free) \subseteq Made(pl) /\ Parent(to) \in DirsIn(free.dst)
        /\ \A x \in dirs.dst : x.path # to => x \in free.dst
        /\ \A x \in free.dst : x.path # to
    <2>1. CASE prev = {}
      <3>1. to \notin Made(dirs) BY <1>6 DEF to
      <3>2. \A x \in dirs.dst : x.path = to => x \in prev
        BY <1>3, <1>4, <3>1, FoundFile DEF Find
      <3> HIDE DEF prev
      <3> QED BY <1>3, <1>6, <2>1, <3>2
    <2>2. CASE prev # {}
      <3> DEFINE o == CHOOSE o \in prev : TRUE
      <3>1. o \in prev BY <2>2
      <3>2. o \in dirs.dst /\ o.path = to BY <3>1 DEF Find
      <3>3. free = RemoveFromDevice(dirs, o) BY <2>2
      <3> HIDE DEF o, free, prev
      <3>4. to \notin Made(dirs) BY <1>6 DEF to
      <3>5. ~o.dir /\ o.id = 0 BY <1>3, <1>4, <3>2, <3>4, FoundFile
      <3>6. /\ Fit(free) /\ free.src = dirs.src /\ free.dst = Delete(dirs.dst, o.path)
            /\ free.thumbs = dirs.thumbs
            /\ Made(free) \subseteq Made(dirs) /\ DirsIn(free.dst) = DirsIn(dirs.dst)
        BY <1>3, <3>2, <3>3, <3>5, RemoveFromDeviceFits
      <3> QED BY <1>3, <1>6, <3>2, <3>6 DEF Delete
    <2> QED BY <2>1, <2>2
  <1> HIDE DEF free
  <1>8. /\ Fit(r) /\ r.src = free.src /\ r.thumbs = free.thumbs
        /\ Made(r) \subseteq Made(free) \cup {to} /\ free.dst \subseteq r.dst
    <2>1. Source \o q \in FilesIn(free.src) BY <1>7
    <2> QED BY <1>0, <1>4, <1>5, <1>7, <2>1, CopyToDeviceFits, ZenonT(30)
  <1> HIDE DEF r
  <1>9. \A x \in pl.dst : x.path # to => x \in r.dst BY <1>3, <1>7, <1>8
  <1> QED BY <1>2, <1>7, <1>8, <1>9 DEF to

(* The page indexes.                                                       *)
LEMMA RemoveLocalIndexFits ==
  ASSUME NEW pl, Fit(pl), NEW b \in BookPaths, NEW n \in {1, 2}
  PROVE  LET r == RemoveLocalIndex(pl, Source \o Index(b, n))
         IN  Fit(r) /\ r.dst = pl.dst /\ r.thumbs = pl.thumbs
  <1> DEFINE p == Source \o Index(b, n)
             o == CHOOSE o \in Find(pl.src, p) : TRUE
  <1>0. Sound(pl) BY DEF Fit
  <1>1. CASE Find(pl.src, p) = {} BY <1>1 DEF RemoveLocalIndex
  <1>2. CASE Find(pl.src, p) # {}
    <2>1. o \in Find(pl.src, p) BY <1>2
    <2>2. o \in Objects /\ o.path = p BY <1>0, <2>1 DEF Find, Sound, Plans
    <2>3. RemoveLocalIndex(pl, p) = MakeRemoveActions(pl, o) BY <1>2 DEF RemoveLocalIndex
    <2>4. p \in FilesIn(pl.src) /\ Index(b, n) \in Indexes BY <1>0, <1>2, FoundIndex
    <2> HIDE DEF o
    <2> QED BY <2>2, <2>3, <2>4, MakeRemoveActionsFits
  <1> QED BY <1>1, <1>2

(* Removing a page index from the device, if it is there. *)
LEMMA RemoveDeviceIndexFits ==
  ASSUME NEW pl, Fit(pl), NEW b \in BookPaths, NEW n \in {1, 2},
         Target \o Index(b, n) \notin Made(pl)
  PROVE  LET r == RemoveDeviceIndex(pl, Target \o Index(b, n))
         IN  /\ Fit(r) /\ r.thumbs = pl.thumbs /\ Made(r) \subseteq Made(pl)
             /\ \A x \in pl.dst : x.path # Target \o Index(b, n) => x \in r.dst
  <1> DEFINE p == Target \o Index(b, n)
             o == CHOOSE o \in Find(pl.dst, p) : TRUE
             r == RemoveDeviceIndex(pl, p)
  <1>0. Sound(pl) BY DEF Fit
  <1>1. CASE Find(pl.dst, p) = {} BY <1>1 DEF RemoveDeviceIndex
  <1>2. CASE Find(pl.dst, p) # {}
    <2>1. o \in Find(pl.dst, p) BY <1>2
    <2>2. o \in pl.dst /\ o.path = p BY <2>1 DEF Find
    <2>3. r = RemoveFromDevice(pl, o) BY <1>2 DEF RemoveDeviceIndex
    <2>4. p \in DeviceFiles
      <3>1. Index(b, n) \in Indexes BY <1>0, <1>2, FoundIndex
      <3> QED BY <3>1, ConstantsArePaths DEF DeviceFiles
    <2> HIDE DEF o, r
    <2>5. ~o.dir /\ o.id = 0 BY <2>2, <2>4, FoundFile
    <2>6. /\ Fit(r) /\ r.dst = Delete(pl.dst, o.path) /\ r.thumbs = pl.thumbs
          /\ Made(r) \subseteq Made(pl)
      BY <2>2, <2>3, <2>5, RemoveFromDeviceFits
    <2>7. \A x \in pl.dst : x.path # p => x \in r.dst BY <2>2, <2>6 DEF Delete
    <2> QED BY <2>6, <2>7 DEF r
  <1> QED BY <1>1, <1>2

(* Copying a page index: an old one goes before it. *)
LEMMA CopyIndexFits ==
  ASSUME StandardFolders, NEW pl, Fit(pl), NEW b \in BookPaths, NEW n \in {1, 2},
         Target \o Index(b, n) \notin Made(pl)
  PROVE  LET q == Target \o Index(b, n)
             r == CopyIndex(pl, Source \o Index(b, n))
         IN  /\ Fit(r) /\ r.src = pl.src /\ r.thumbs = pl.thumbs
             /\ Made(r) \subseteq Made(pl) \cup ({q} \cap IndexesOf(b, Target))
             /\ \A x \in pl.dst : x.path # q => x \in r.dst
  <1> DEFINE p == Source \o Index(b, n)
             q == Target \o Index(b, n)
             r == CopyIndex(pl, p)
  <1>0. Sound(pl) BY DEF Fit
  <1>1. CASE Find(pl.src, p) = {} BY <1>1 DEF CopyIndex
  <1>2. CASE Find(pl.src, p) # {}
    <2>1. r = MakeCopyActions(pl, p) BY <1>2 DEF CopyIndex
    <2>2. Index(b, n) \in Indexes /\ p \in FilesIn(pl.src) /\ q \in IndexesOf(b, Target)
      BY <1>0, <1>2, FoundIndex, IndexIsOfBook
    <2>3. Index(b, n) \in BookPaths \cup Indexes BY <2>2
    <2> HIDE DEF r
    <2>4. /\ Fit(r) /\ r.src = pl.src /\ r.thumbs = pl.thumbs
          /\ Made(r) \subseteq Made(pl) \cup {q}
          /\ \A x \in pl.dst : x.path # q => x \in r.dst
      BY <2>1, <2>2, <2>3, MakeCopyActionsFits, Zenon
    <2>5. {q} \cap IndexesOf(b, Target) = {q} BY <2>2
    <2> HIDE DEF p, q
    <2> QED BY <2>4, <2>5 DEF r, p, q
  <1> QED BY <1>1, <1>2

(* The entries for the thumbnails of these books are of files that the     *)
(* scan has found and that are still there.                                *)
Fresh(pl, books) ==
  \A b \in books : \A e \in ThumbEntries(pl, b) :
    e.object \in pl.dst /\ ~e.object.dir /\ e.object.id = 0

(* They are, as long as no thumbnail is removed.                           *)
LEMMA StaysFresh ==
  ASSUME NEW pl, NEW r, NEW books, books \subseteq BookPaths, Sound(pl), Fresh(pl, books),
         r.thumbs = pl.thumbs,
         \A x \in pl.dst : (\E c \in BookPaths : x.path = ThumbPath(c)) => x \in r.dst
  PROVE  Fresh(r, books)
  <1> SUFFICES ASSUME NEW b \in books, NEW e \in ThumbEntries(r, b)
               PROVE  e.object \in r.dst /\ ~e.object.dir /\ e.object.id = 0
    BY DEF Fresh
  <1>1. e \in ThumbEntries(pl, b) BY DEF ThumbEntries
  <1>2. e.object \in pl.dst /\ ~e.object.dir /\ e.object.id = 0 BY <1>1 DEF Fresh
  <1>3. e.object.path = ThumbPath(b) BY <1>1, ThumbEntryIs
  <1> QED BY <1>2, <1>3

(* Only the entries of a plan change.                                      *)
LEMMA OtherThumbsFit ==
  ASSUME NEW pl, Fit(pl), NEW r, Sound(r), r.actions = pl.actions, r.src = pl.src, r.dst = pl.dst,
         Findable(r)
  PROVE  Fit(r)
  BY DEF Fit, Found

(* Removing the thumbnail of a book, if the device has it. *)
LEMMA RemoveThumbFits ==
  ASSUME NEW pl, Fit(pl), Fresh(pl, BookPaths), NEW b \in BookPaths
  PROVE  LET r == RemoveThumb(pl, b)
         IN  Fit(r) /\ Fresh(r, BookPaths) /\ Made(r) \subseteq Made(pl)
  <1> DEFINE r == RemoveThumb(pl, b)
             e == CHOOSE e \in ThumbEntries(pl, b) : TRUE
             m == RemoveFromDevice(pl, e.object)
  <1>0. Sound(pl) /\ pl \in Plans BY DEF Fit, Sound
  <1>1. CASE ThumbEntries(pl, b) = {}
    BY <1>1 DEF RemoveThumb
  <1>2. CASE ThumbEntries(pl, b) # {}
    <2>1. e \in ThumbEntries(pl, b) BY <1>2
    <2>2. r = [m EXCEPT !.thumbs = @ \ {e}] BY <1>2 DEF RemoveThumb
    <2>3. Sound(r)
      <3> HIDE DEF e, m
      <3>1. r = pl \/ Extends(pl, r, {ThumbPath(b)}, {}, {}) BY <1>0, RemoveThumbDoes
      <3> QED BY <1>0, <3>1 DEF Extends
    <2> HIDE DEF e
    <2>4. e.object \in pl.dst /\ ~e.object.dir /\ e.object.id = 0 BY <2>1 DEF Fresh
    <2>5. e.object.path = ThumbPath(b) /\ e \in Thumbs /\ e.key = <<ThumbOf[Name(b)]>>
      BY <1>0, <2>1, ThumbEntryIs DEF ThumbEntries
    <2>6. /\ Fit(m) /\ m.src = pl.src /\ m.dst = Delete(pl.dst, e.object.path)
          /\ m.thumbs = pl.thumbs /\ Made(m) \subseteq Made(pl)
      BY <2>4, RemoveFromDeviceFits
    <2>7. m \in Plans BY <2>6 DEF Fit, Sound
    <2> HIDE DEF m
    <2>8. /\ r.thumbs = pl.thumbs \ {e} /\ r.src = m.src /\ r.dst = m.dst
          /\ r.actions = m.actions
      BY <2>2, <2>6, <2>7 DEF Plans
    <2> HIDE DEF r
    <2>9. Fit(r)
      <3>1. ASSUME NEW c \in BookPaths, NEW o \in r.dst, o.path = ThumbPath(c), o.id = 0
            PROVE  ThumbEntries(r, c) # {}
        <4>1. o \in pl.dst /\ o.path # e.object.path BY <2>6, <2>8 DEF Delete
        <4>2. PICK x \in ThumbEntries(pl, c) : TRUE BY <3>1, <4>1 DEF Fit, Findable
        <4>3. x.object.path = ThumbPath(c) BY <1>0, <4>2, ThumbEntryIs
        <4>4. x # e BY <3>1, <4>1, <4>3
        <4>5. x \in ThumbEntries(r, c) BY <2>8, <4>2, <4>4 DEF ThumbEntries
        <4> QED BY <4>5
      <3>2. Findable(r) BY <3>1 DEF Findable
      <3> QED BY <2>3, <2>6, <2>8, <3>2, OtherThumbsFit
    <2>10. Made(r) \subseteq Made(pl) BY <2>6, <2>8 DEF Made
    <2>11. Fresh(r, BookPaths)
      <3> SUFFICES ASSUME NEW c \in BookPaths, NEW x \in ThumbEntries(r, c)
                   PROVE  x.object \in r.dst /\ ~x.object.dir /\ x.object.id = 0
        BY DEF Fresh
      <3>1. x \in ThumbEntries(pl, c) /\ x # e BY <2>8 DEF ThumbEntries
      <3>2. x.object \in pl.dst /\ ~x.object.dir /\ x.object.id = 0 BY <3>1 DEF Fresh
      <3>3. x.object.path = ThumbPath(c) /\ x \in Thumbs /\ x.key = <<ThumbOf[Name(c)]>>
        BY <1>0, <3>1, ThumbEntryIs DEF ThumbEntries
      <3>4. x.object.path # e.object.path
        <4> SUFFICES ASSUME x.object.path = e.object.path PROVE FALSE OBVIOUS
        <4>1. x.object = e.object BY <2>4, <3>2 DEF Fit, Keyed
        <4>2. x.key = e.key
          <5>1. ThumbOf[Name(b)] = ThumbOf[Name(c)] BY <2>5, <3>3, ThumbPathIs
          <5> QED BY <2>5, <3>3, <5>1
        <4> QED BY <2>5, <3>1, <3>3, <4>1, <4>2 DEF Thumbs
      <3> QED BY <2>6, <2>8, <3>2, <3>4 DEF Delete
    <2> QED BY <2>9, <2>10, <2>11 DEF r
  <1> QED BY <1>0, <1>1, <1>2

(* Copying the thumbnail of a book: an old one goes before it. *)
LEMMA CopyThumbFits ==
  ASSUME NEW pl, Fit(pl), NEW books, books \subseteq BookPaths, Fresh(pl, books),
         NEW b \in BookPaths, ThumbOf[Name(b)] # NoThumb => b \in books,
         ThumbOf[Name(b)] # NoThumb => ThumbPath(b) \notin Made(pl),
         \A c \in books \ {b} : ThumbOf[Name(c)] # ThumbOf[Name(b)]
  PROVE  LET r == CopyThumb(pl, b)
         IN  /\ Fit(r) /\ Fresh(r, books \ {b})
             /\ Made(r) \subseteq Made(pl) \cup
                  (IF ThumbOf[Name(b)] = NoThumb THEN {} ELSE {ThumbPath(b)})
  <1> DEFINE t == ThumbOf[Name(b)]
             old == ThumbEntries(pl, b)
             free == IF old = {} THEN pl
                     ELSE RemoveFromDevice(pl, (CHOOSE e \in old : TRUE).object)
             new == Make(free, "Copy", ThumbPath(b), FALSE, <<t>>)
             o == CHOOSE o \in Find(new.dst, ThumbPath(b)) : TRUE
             r == CopyThumb(pl, b)
  <1>0. Sound(pl) BY DEF Fit
  <1>1. CASE ~thumbsOn \/ t = NoThumb
    <2>1. r = pl BY <1>1 DEF CopyThumb
    <2>2. Fresh(pl, books \ {b}) BY DEF Fresh
    <2> QED BY <2>1, <2>2
  <1>2. CASE thumbsOn /\ t # NoThumb
    <2>1. r = [new EXCEPT !.thumbs = @ \cup {[key |-> ThumbPath(b), object |-> o]}]
      BY <1>2, Zenon DEF CopyThumb, ThumbPath
    <2>2. Sound(r)
      <3>1. Extends(pl, r, {ThumbPath(b)}, {ThumbPath(b)}, {<<t>>})
        <4> HIDE DEF r
        <4> QED BY <1>0, <1>2, CopyThumbDoes, Zenon DEF r
      <3> QED BY <3>1 DEF Extends
    <2>3. /\ Fit(free) /\ free.thumbs = pl.thumbs /\ Made(free) \subseteq Made(pl)
          /\ DirsIn(free.dst) = DirsIn(pl.dst)
          /\ \A x \in pl.dst : x.path # ThumbPath(b) => x \in free.dst
          /\ \A x \in free.dst : x.path # ThumbPath(b)
      <3>1. CASE old = {}
        <4> SUFFICES ASSUME NEW x \in pl.dst, x.path = ThumbPath(b) PROVE FALSE BY <3>1
        <4>1. ThumbPath(b) \in DeviceFiles BY DEF DeviceFiles, ThumbPath
        <4>2. x.id = 0 BY <1>2, <4>1, FoundFile
        <4> QED BY <3>1, <4>2 DEF Fit, Findable
      <3>2. CASE old # {}
        <4> DEFINE e == CHOOSE e \in old : TRUE
        <4>1. e \in old BY <3>2
        <4>2. free = RemoveFromDevice(pl, e.object) BY <3>2
        <4> HIDE DEF e, free
        <4>3. e.object \in pl.dst /\ ~e.object.dir /\ e.object.id = 0 BY <1>2, <4>1 DEF Fresh
        <4>4. e.object.path = ThumbPath(b) BY <1>0, <4>1, ThumbEntryIs
        <4>5. /\ Fit(free) /\ free.dst = Delete(pl.dst, e.object.path)
              /\ free.thumbs = pl.thumbs
              /\ Made(free) \subseteq Made(pl) /\ DirsIn(free.dst) = DirsIn(pl.dst)
          BY <4>2, <4>3, RemoveFromDeviceFits
        <4> QED BY <4>4, <4>5 DEF Delete
      <3> QED BY <3>1, <3>2
    <2> HIDE DEF free
    <2>4. ThumbPath(b) \in DeviceFiles BY <1>0 DEF DeviceFiles, ThumbPath
    <2>5. <<t>> \in Path
      <3>1. t \in STRING BY <1>0, ConstantsArePaths
      <3> HIDE DEF t
      <3> QED BY <3>1, OneIs DEF Path
    <2>6. /\ ThumbPath(b) \in Path /\ Parent(ThumbPath(b)) = ThumbFolder
          /\ Len(ThumbPath(b)) > 1 /\ Len(ThumbPath(b)) # 1
      <3>1. ThumbPath(b) \in Path /\ IsUnder(ThumbPath(b), ThumbFolder) BY <1>0, ThumbPathIs
      <3>2. Len(ThumbFolder) \in Nat \ {0} BY ConstantsArePaths, ParentIs
      <3>3. Len(ThumbPath(b)) \in Nat BY <3>1, LenProperties DEF Path
      <3>4. Len(ThumbFolder) < Len(ThumbPath(b)) BY <3>1 DEF IsUnder
      <3>5. Len(ThumbPath(b)) > 1 /\ Len(ThumbPath(b)) # 1
        <4> DEFINE k == Len(ThumbPath(b))
                   l == Len(ThumbFolder)
        <4>1. k \in Nat /\ l \in Nat \ {0} /\ l < k BY <3>2, <3>3, <3>4
        <4> HIDE DEF k, l
        <4>2. k > 1 /\ k # 1 BY <4>1
        <4> QED BY <4>2 DEF k
      <3> QED BY <3>1, <3>5, ThumbPathIs
    <2>7. Parent(ThumbPath(b)) \in DirsIn(free.dst) BY <1>2, <2>3, <2>6 DEF Fit
    <2>8. Len(<<t>>) = 1 OBVIOUS
    <2>9. /\ Fit(new) /\ new.thumbs = free.thumbs
          /\ Made(new) \subseteq Made(free) \cup {ThumbPath(b)}
          /\ free.dst \subseteq new.dst
      BY <2>3, <2>4, <2>5, <2>6, <2>7, <2>8, CopyToDeviceFits, ZenonT(30)
    <2>10. new \in Plans BY <2>9 DEF Fit, Sound
    <2> HIDE DEF new, o
    <2>11. /\ r.thumbs = pl.thumbs \cup {[key |-> ThumbPath(b), object |-> o]}
           /\ r.src = new.src /\ r.dst = new.dst /\ r.actions = new.actions
      BY <2>1, <2>3, <2>9, <2>10 DEF Plans
    <2> HIDE DEF r
    <2>12. Fit(r)
      <3>1. Findable(r) BY <2>3, <2>9, <2>11, StaysFindable DEF Fit
      <3> QED BY <2>2, <2>9, <2>11, <3>1, OtherThumbsFit
    <2>13. Made(r) \subseteq Made(pl) \cup {ThumbPath(b)} BY <2>3, <2>9, <2>11 DEF Made
    <2>14. Fresh(r, books \ {b})
      <3> SUFFICES ASSUME NEW c \in books \ {b}, NEW x \in ThumbEntries(r, c)
                   PROVE  x.object \in r.dst /\ ~x.object.dir /\ x.object.id = 0
        BY DEF Fresh
      <3>1. x \in r.thumbs /\ x.key = <<ThumbOf[Name(c)]>> /\ thumbsOn BY DEF ThumbEntries
      <3>2. Len(x.key) = 1 BY <3>1
      <3>3. x \in pl.thumbs
        <4>1. [key |-> ThumbPath(b), object |-> o].key = ThumbPath(b) OBVIOUS
        <4>2. Len(ThumbPath(b)) # 1 BY <2>6
        <4>3. x # [key |-> ThumbPath(b), object |-> o] BY <3>2, <4>1, <4>2, Zenon
        <4> QED BY <2>11, <3>1, <4>3, Zenon
      <3>4. x \in ThumbEntries(pl, c) BY <3>1, <3>3 DEF ThumbEntries
      <3>5. x.object \in pl.dst /\ ~x.object.dir /\ x.object.id = 0 BY <3>4 DEF Fresh
      <3>6. x.object.path = ThumbPath(c) /\ c \in BookPaths BY <1>0, <3>4, ThumbEntryIs
      <3>7. ThumbPath(c) # ThumbPath(b)
        <4>1. ThumbOf[Name(c)] # ThumbOf[Name(b)] BY Zenon
        <4> QED BY <1>0, <3>6, <4>1, ThumbPathIs
      <3> QED BY <2>3, <2>9, <2>11, <3>5, <3>6, <3>7
    <2> QED BY <1>2, <2>12, <2>13, <2>14 DEF r
  <1> QED BY <1>1, <1>2

(* A removal in the source changes nothing about the thumbnails.           *)
LEMMA FreshBeside ==
  ASSUME NEW pl, NEW r, NEW books, Fresh(pl, books), r.dst = pl.dst, r.thumbs = pl.thumbs
  PROVE  Fresh(r, books) /\ Made(r) = Made(pl)
  BY DEF Fresh, ThumbEntries, Made

(* A change of a book or a page index of the device does not, either.      *)
LEMMA FreshAround ==
  ASSUME NEW pl, NEW r, NEW books, books \subseteq BookPaths, Fit(pl), Fresh(pl, books),
         r.thumbs = pl.thumbs, NEW q \in Path, q # << >>,
         \A x \in pl.dst : x.path # Target \o q => x \in r.dst
  PROVE  Fresh(r, books)
  <1>1. \A c \in BookPaths : Target \o q # ThumbPath(c) BY NoBookIsThumb
  <1>2. \A x \in pl.dst : (\E c \in BookPaths : x.path = ThumbPath(c)) => x \in r.dst
    BY <1>1
  <1>3. Sound(pl) BY DEF Fit
  <1> QED BY <1>2, <1>3, StaysFresh

(* The steps for a book in each of the three cases.                        *)
LEMMA Case7Fits ==
  ASSUME NEW pl, Fit(pl), Fresh(pl, BookPaths), NEW b \in BookPaths,
         Source \o b \in FilesIn(pl.src)
  PROVE  LET r == Case7Of(pl, b)
         IN  Fit(r) /\ Fresh(r, BookPaths) /\ Made(r) \subseteq Made(pl)
  <1> DEFINE p == Source \o b
             o == [path |-> p, dir |-> FALSE, id |-> 0]
             p1 == Source \o Index(b, 1)
             p2 == Source \o Index(b, 2)
             one == MakeRemoveActions(pl, o)
             two == RemoveLocalIndex(one, p1)
             three == RemoveLocalIndex(two, p2)
             r == Case7Of(pl, b)
  <1>1. r = RemoveThumb(three, b)
    <2>1. IndexPaths(p)[1] = p1 /\ IndexPaths(p)[2] = p2 BY IndexIs
    <2> QED BY <2>1, Zenon DEF Case7Of
  <1>2. o \in Objects /\ o.path = p BY ConstantsArePaths, UpsOfLocal DEF Objects
  <1>3. 1 \in {1, 2} /\ 2 \in {1, 2} OBVIOUS
  <1> HIDE DEF o, r
  <1>4. Fit(one) /\ one.dst = pl.dst /\ one.thumbs = pl.thumbs
    BY <1>2, MakeRemoveActionsFits
  <1> HIDE DEF one
  <1>5. Fit(two) /\ two.dst = one.dst /\ two.thumbs = one.thumbs
    BY <1>3, <1>4, RemoveLocalIndexFits, Zenon
  <1> HIDE DEF two
  <1>6. Fit(three) /\ three.dst = two.dst /\ three.thumbs = two.thumbs
    BY <1>3, <1>5, RemoveLocalIndexFits, Zenon
  <1> HIDE DEF three
  <1>7. Fresh(three, BookPaths) /\ Made(three) = Made(pl)
    BY <1>4, <1>5, <1>6, FreshBeside
  <1>8. Fit(r) /\ Fresh(r, BookPaths) /\ Made(r) \subseteq Made(three)
    BY <1>1, <1>6, <1>7, RemoveThumbFits, Zenon
  <1> QED BY <1>7, <1>8 DEF r

(* What case 6 plans for one book. *)
LEMMA Case6Fits ==
  ASSUME NEW pl, Fit(pl), Fresh(pl, BookPaths), Made(pl) = {}, NEW b \in BookPaths,
         Target \o b \in FilesIn(pl.dst)
  PROVE  LET r == Case6Of(pl, b)
         IN  Fit(r) /\ Fresh(r, BookPaths) /\ Made(r) = {}
  <1> DEFINE p == Target \o b
             p1 == Target \o Index(b, 1)
             p2 == Target \o Index(b, 2)
             o == CHOOSE o \in Find(pl.dst, p) : TRUE
             one == RemoveFromDevice(pl, o)
             two == RemoveDeviceIndex(one, p1)
             three == RemoveDeviceIndex(two, p2)
             r == Case6Of(pl, b)
  <1>1. r = RemoveThumb(three, b)
    <2>1. IndexPaths(p)[1] = p1 /\ IndexPaths(p)[2] = p2 BY IndexIs
    <2> QED BY <2>1, Zenon DEF Case6Of
  <1>2. 1 \in {1, 2} /\ 2 \in {1, 2} OBVIOUS
  <1>3. /\ b \in Path /\ b # << >>
        /\ Index(b, 1) \in Path /\ Index(b, 1) # << >>
        /\ Index(b, 2) \in Path /\ Index(b, 2) # << >>
    BY <1>2, ConstantsArePaths, IndexIs
  <1>4. o \in pl.dst /\ o.path = p
    <2>1. Find(pl.dst, p) # {} BY DEF FilesIn, Find
    <2>2. o \in Find(pl.dst, p) BY <2>1
    <2> QED BY <2>2 DEF Find
  <1>5. p \in DeviceFiles BY ConstantsArePaths DEF DeviceFiles
  <1> HIDE DEF o, r
  <1>6. Fit(one) /\ one.thumbs = pl.thumbs /\ Made(one) = {} /\ Fresh(one, BookPaths)
    <2>1. ~o.dir /\ o.id = 0 BY <1>4, <1>5, FoundFile
    <2>2. /\ Fit(one) /\ one.dst = Delete(pl.dst, o.path) /\ one.thumbs = pl.thumbs
          /\ Made(one) \subseteq Made(pl)
      BY <1>4, <2>1, RemoveFromDeviceFits
    <2>3. \A x \in pl.dst : x.path # Target \o b => x \in one.dst BY <1>4, <2>2 DEF Delete
    <2> QED BY <1>3, <2>2, <2>3, FreshAround
  <1> HIDE DEF one
  <1>7. Fit(two) /\ Made(two) = {} /\ Fresh(two, BookPaths)
    <2>0. p1 \notin Made(one) BY <1>6
    <2>1. /\ Fit(two) /\ two.thumbs = one.thumbs /\ Made(two) \subseteq Made(one)
          /\ \A x \in one.dst : x.path # p1 => x \in two.dst
      BY <1>2, <1>6, <2>0, RemoveDeviceIndexFits, Zenon
    <2> QED BY <1>3, <1>6, <2>1, FreshAround
  <1> HIDE DEF two
  <1>8. Fit(three) /\ Made(three) = {} /\ Fresh(three, BookPaths)
    <2>1. p2 \notin Made(two) BY <1>7
    <2>2. /\ Fit(three) /\ three.thumbs = two.thumbs /\ Made(three) \subseteq Made(two)
          /\ \A x \in two.dst : x.path # p2 => x \in three.dst
      BY <1>2, <1>7, <2>1, RemoveDeviceIndexFits, Zenon
    <2> QED BY <1>3, <1>7, <2>2, FreshAround
  <1> HIDE DEF three
  <1>9. Fit(r) /\ Fresh(r, BookPaths) /\ Made(r) \subseteq Made(three)
    BY <1>1, <1>8, RemoveThumbFits, Zenon
  <1> QED BY <1>8, <1>9 DEF r

(* What case 3 plans for one book, if nothing that the plan has made is    *)
(* under its paths.                                                        *)
LEMMA Case3Fits ==
  ASSUME StandardFolders, NEW pl, Fit(pl), NEW b \in BookPaths, Source \o b \in FilesIn(pl.src),
         Made(pl) \cap PutFor(b) = {},
         NEW books, books \subseteq BookPaths, Fresh(pl, books),
         ThumbOf[Name(b)] # NoThumb => b \in books,
         \A c \in books \ {b} : ThumbOf[Name(c)] # ThumbOf[Name(b)]
  PROVE  LET r == Case3Of(pl, b)
         IN  Fit(r) /\ Fresh(r, books \ {b}) /\ Made(r) \subseteq Made(pl) \cup PutFor(b)
  <1> DEFINE p  == Source \o b
             q  == Target \o b
             p1 == Source \o Index(b, 1)
             p2 == Source \o Index(b, 2)
             q1 == Target \o Index(b, 1)
             q2 == Target \o Index(b, 2)
             one == MakeCopyActions(pl, p)
             two == CopyIndex(one, p1)
             three == CopyIndex(two, p2)
             r  == Case3Of(pl, b)
  <1>1. r = CopyThumb(three, b)
    <2>1. IndexPaths(p)[1] = p1 /\ IndexPaths(p)[2] = p2 BY IndexIs
    <2> QED BY <2>1, Zenon DEF Case3Of
  <1>2. 1 \in {1, 2} /\ 2 \in {1, 2} OBVIOUS
  <1>3. /\ b \in Path /\ b # << >>
        /\ Index(b, 1) \in Path /\ Index(b, 1) # << >>
        /\ Index(b, 2) \in Path /\ Index(b, 2) # << >>
    BY <1>2, ConstantsArePaths, IndexIs
  <1>4. Index(b, 1) # Index(b, 2)
    <2>1. Parent(Index(b, 1)) = Parent(b) BY <1>2, IndexIs
    <2>2. Parent(Index(b, 2)) = Append(Parent(b), SdrOf[Name(b)]) BY <1>2, IndexIs
    <2>3. Parent(b) \in Path /\ SdrOf[Name(b)] \in STRING
      BY <1>3, ParentIs, PathsAssumption DEF PathsFit
    <2>4. Parent(Append(Parent(b), SdrOf[Name(b)])) = Parent(b)
          /\ Append(Parent(b), SdrOf[Name(b)]) # << >>
          /\ Len(Append(Parent(b), SdrOf[Name(b)])) = Len(Parent(b)) + 1
          /\ Len(Parent(b)) \in Nat
      BY <2>3, AppendIs, LenProperties DEF Path
    <2> DEFINE u == Parent(b)
               v == Append(Parent(b), SdrOf[Name(b)])
    <2>5. Len(v) = Len(u) + 1 /\ Len(u) \in Nat BY <2>4
    <2> HIDE DEF u, v
    <2>6. u # v BY <2>5
    <2> QED BY <2>1, <2>2, <2>6 DEF u, v
  <1>5. q1 # q2 BY <1>3, <1>4, ConstantsArePaths, ConcatInjective
  <1>6. /\ q1 \in IndexesOf(b, Target) => q1 \in PutFor(b)
        /\ q2 \in IndexesOf(b, Target) => q2 \in PutFor(b)
        /\ q \in PutFor(b)
    BY DEF PutFor, HereIndexes
  <1>7. {q1, q2} \cap IndexesOf(b, Target) \cap {q} = {}
    <2>1. q \notin HereIndexes(b, Target) BY IndexIsNoBook
    <2> QED BY <2>1 DEF HereIndexes
  <1> HIDE DEF r
  <1>8. /\ Fit(one) /\ one.src = pl.src /\ Fresh(one, books)
        /\ Made(one) \subseteq Made(pl) \cup {q}
    <2>1. b \in BookPaths \cup Indexes /\ q \notin Made(pl) BY <1>6
    <2>2. /\ Fit(one) /\ one.src = pl.src /\ one.thumbs = pl.thumbs
          /\ Made(one) \subseteq Made(pl) \cup {q}
          /\ \A x \in pl.dst : x.path # q => x \in one.dst
      BY <2>1, MakeCopyActionsFits, Zenon
    <2> QED BY <1>3, <2>2, FreshAround
  <1> HIDE DEF one
  <1>9. /\ Fit(two) /\ two.src = pl.src /\ Fresh(two, books)
        /\ Made(two) \subseteq Made(one) \cup ({q1} \cap IndexesOf(b, Target))
    <2>1. CASE Find(one.src, p1) = {}
      <3>1. two = one BY <2>1 DEF CopyIndex
      <3> QED BY <1>8, <3>1
    <2>2. CASE Find(one.src, p1) # {}
      <3>1. q1 \in IndexesOf(b, Target)
        BY <1>2, <1>8, <2>2, FoundIndex, IndexIsOfBook DEF Fit
      <3>2. q1 \notin Made(one) BY <1>6, <1>7, <1>8, <3>1
      <3>3. /\ Fit(two) /\ two.src = one.src /\ two.thumbs = one.thumbs
            /\ Made(two) \subseteq Made(one) \cup ({q1} \cap IndexesOf(b, Target))
            /\ \A x \in one.dst : x.path # q1 => x \in two.dst
        BY <1>2, <1>8, <3>2, CopyIndexFits, Zenon
      <3> QED BY <1>3, <1>8, <3>3, FreshAround
    <2> QED BY <2>1, <2>2
  <1> HIDE DEF two
  <1>10. /\ Fit(three) /\ Fresh(three, books)
         /\ Made(three) \subseteq Made(two) \cup ({q2} \cap IndexesOf(b, Target))
    <2>1. CASE Find(two.src, p2) = {}
      <3>1. three = two BY <2>1 DEF CopyIndex
      <3> QED BY <1>9, <3>1
    <2>2. CASE Find(two.src, p2) # {}
      <3>1. q2 \in IndexesOf(b, Target)
        BY <1>2, <1>9, <2>2, FoundIndex, IndexIsOfBook DEF Fit
      <3>2. q2 \notin Made(two) BY <1>5, <1>6, <1>7, <1>8, <1>9, <3>1
      <3>3. /\ Fit(three) /\ three.src = two.src /\ three.thumbs = two.thumbs
            /\ Made(three) \subseteq Made(two) \cup ({q2} \cap IndexesOf(b, Target))
            /\ \A x \in two.dst : x.path # q2 => x \in three.dst
        BY <1>2, <1>9, <3>2, CopyIndexFits, Zenon
      <3> QED BY <1>3, <1>9, <3>3, FreshAround
    <2> QED BY <2>1, <2>2
  <1> HIDE DEF three
  <1>11. /\ Fit(r) /\ Fresh(r, books \ {b})
         /\ Made(r) \subseteq Made(three) \cup
              (IF ThumbOf[Name(b)] = NoThumb THEN {} ELSE {ThumbPath(b)})
    <2>1. ThumbPath(b) \notin {q, q1, q2} BY <1>3, NoBookIsThumb
    <2>2. ThumbOf[Name(b)] # NoThumb => ThumbPath(b) \in PutFor(b) BY DEF PutFor
    <2>3. Made(three) \subseteq Made(pl) \cup {q, q1, q2} BY <1>8, <1>9, <1>10
    <2>4. ThumbOf[Name(b)] # NoThumb => ThumbPath(b) \notin Made(three)
      BY <2>1, <2>2, <2>3
    <2> QED BY <1>1, <1>10, <2>4, CopyThumbFits, Zenon
  <1>12. (IF ThumbOf[Name(b)] = NoThumb THEN {} ELSE {ThumbPath(b)}) \subseteq PutFor(b)
    BY DEF PutFor
  <1>13. Made(r) \subseteq Made(pl) \cup PutFor(b)
    <2> DEFINE last == IF ThumbOf[Name(b)] = NoThumb THEN {} ELSE {ThumbPath(b)}
    <2>1. Made(r) \subseteq Made(three) \cup last /\ last \subseteq PutFor(b) BY <1>11, <1>12
    <2> HIDE DEF last, q, q1, q2
    <2> QED BY <1>6, <1>8, <1>9, <1>10, <2>1
  <1> QED BY <1>11, <1>13 DEF r

(* What a plan that can be carried out says of its objects. *)
Accounted(pl) ==
  /\ Orderly(pl.actions) /\ Tracked(pl.actions, pl.dst) /\ Keyed(pl.dst)
  /\ \A o \in pl.dst : o.id = 0 => o.path \notin Removed(pl.actions)

(* While planning, the plan can be carried out; while it is carried out,   *)
(* the rest of it can be.                                                  *)
Ready ==
  /\ Planning => Fit(plan)
  /\ phase \in {"case7", "case6"} => Made(plan) = {} /\ Fresh(plan, BookPaths)
  /\ phase = "case3" =>
       /\ Made(plan) \subseteq UNION {PutFor(c) : c \in Copying}
       /\ Fresh(plan, {b \in BookPaths \ Copying : ThumbOf[Name(b)] # NoThumb})
  /\ ~Planning =>
       /\ Accounted(plan)
       /\ Runs(plan.actions, next, local, device, Bare(plan.src), Bare(plan.dst))
  /\ NothingFails

(* What can be carried out does not depend on the phase.                   *)
LEMMA FitStays ==
  ASSUME NEW r, Fit(r), plan' = r, UNCHANGED <<local, device, thumbsOn>>
  PROVE  /\ Fit(plan)' /\ (Made(plan))' = Made(r)
         /\ \A books : Fresh(r, books) => Fresh(plan', books)
  <1>1. Sound(plan)' BY DEF Fit, Sound, LocalForetold, DeviceForetold
  <1>2. Fit(plan)'
    <2>1. Found(plan)' BY DEF Fit, Found
    <2>2. Findable(plan)' BY DEF Fit, Findable, ThumbEntries
    <2>3. Tracked(plan.actions, plan.dst)' BY DEF Fit
    <2> QED BY <1>1, <2>1, <2>2, <2>3 DEF Fit
  <1>3. (Made(plan))' = Made(r) BY DEF Made
  <1> QED BY <1>2, <1>3

(* A scanned device has one object under a path and the directories above  *)
(* it.                                                                     *)
LEMMA DeviceIsClosed ==
  ASSUME StandardFolders, NEW m \in Mixes, NEW x \in DeviceTree(m), NEW n \in 1..(Len(x.path) - 1)
  PROVE  Dir(SubSeq(x.path, 1, n)) \in DeviceTree(m)
  <1> DEFINE books == {Target \o p : p \in m.bookCopies \cup m.indexCopies \cup m.own}
             thumbs == {Append(ThumbFolder, t) : t \in m.thumbs}
  <1>1. books \in SUBSET Path /\ \A f \in books : IsUnder(f, Target)
    <2>1. m.bookCopies \subseteq BookPaths /\ m.indexCopies \subseteq Indexes
          /\ m.own \subseteq DeviceOwn
      BY DEF Mixes
    <2>2. ASSUME NEW q \in Files PROVE Target \o q \in Path /\ IsUnder(Target \o q, Target)
      BY ConstantsArePaths, ConcatIs, UnderRoot
    <2> QED BY <2>1, <2>2 DEF Files
  <1>2. thumbs \in SUBSET Path /\ \A f \in thumbs : IsUnder(f, ThumbFolder)
    <2>1. \A t \in m.thumbs : \E b \in BookPaths : t = ThumbOf[Name(b)] BY DEF Mixes
    <2>2. \A b \in BookPaths : Append(ThumbFolder, ThumbOf[Name(b)]) = ThumbPath(b)
      BY DEF ThumbPath
    <2>3. \A f \in thumbs : \E b \in BookPaths : f = ThumbPath(b) BY <2>1, <2>2
    <2> QED BY <2>3, ThumbPathIs
  <1>3. DeviceTree(m) = {Dir(p) : p \in Stock}
          \cup (IF books = {} THEN {} ELSE Tree(Target, books))
          \cup (IF m.folder THEN Tree(ThumbFolder, thumbs) ELSE {})
    BY DEF DeviceTree
  <1> HIDE DEF books, thumbs
  <1>4. CASE x \in {Dir(p) : p \in Stock}
    <2>1. PICK s \in Stock : x = Dir(s) BY <1>4
    <2>2. x.path = s BY <2>1 DEF Dir
    <2>3. SubSeq(x.path, 1, n) \in Stock BY <2>2 DEF StandardFolders
    <2> QED BY <1>3, <2>3
  <1>5. CASE books # {} /\ x \in Tree(Target, books)
    <2>1. Dir(SubSeq(x.path, 1, n)) \in Tree(Target, books)
      BY <1>1, <1>5, ConstantsArePaths, TreeIs
    <2> QED BY <1>3, <1>5, <2>1
  <1>6. CASE m.folder /\ x \in Tree(ThumbFolder, thumbs)
    <2>1. Dir(SubSeq(x.path, 1, n)) \in Tree(ThumbFolder, thumbs)
      BY <1>2, <1>6, ConstantsArePaths, TreeIs
    <2> QED BY <1>3, <1>6, <2>1
  <1> QED BY <1>3, <1>4, <1>5, <1>6

(* Nothing is planned yet, and the sets of the plan are the disks. *)
LEMMA InitReady ==
  ASSUME StandardFolders, Init
  PROVE  Ready
  <1>1. PICK m \in Mixes :
          local = LocalTree(m) /\ device = DeviceTree(m) /\ Begin(Scan(local), Scan(device))
    BY Zenon DEF Init
  <1>2. PlanIsSound /\ next = 1 /\ plan.actions = << >> BY <1>1, BeginsSound
  <1>3. /\ plan.src = Scan(local) /\ plan.dst = Scan(device)
        /\ plan.thumbs = ThumbsAmong(plan.dst) /\ phase = "case7"
        /\ thumbsOn = (Find(plan.dst, ThumbFolder) # {})
    <2>1. plan = [actions |-> << >>, src |-> Scan(local), dst |-> Scan(device),
                  thumbs |-> ThumbsAmong(Scan(device))]
          /\ thumbsOn = (Find(Scan(device), ThumbFolder) # {}) /\ phase = "case7"
      BY <1>1 DEF Begin
    <2> QED BY <2>1
  <1>4. Sound(plan) BY <1>2, SoundWhilePlanning DEF PlanIsSound
  <1>5. /\ \A x \in local : x = File(x.path) \/ x = Dir(x.path)
        /\ \A x \in local : x.path \in Path /\ x.path # << >>
    BY <1>1, LocalTreeIs
  <1>6. /\ \A x \in device : x = File(x.path) \/ x = Dir(x.path)
        /\ \A x \in device : x.path \in Path /\ x.path # << >>
        /\ \A x \in device : x.path \in IF x.dir THEN DeviceDirs ELSE DeviceFiles
    BY <1>1, DeviceTreeIs
  <1>7. /\ Bare(plan.src) = local /\ Bare(plan.dst) = device
        /\ \A p : p \in DirsIn(plan.dst) <=> Dir(p) \in device
    BY <1>3, <1>5, <1>6, ScanIs
  <1>8. \A o \in plan.dst : \E x \in device : o = [path |-> x.path, dir |-> x.dir, id |-> 0]
    BY <1>3 DEF Scan
  <1>9. \A o \in plan.dst : o.id = 0 BY <1>8
  <1>10. Made(plan) = {} BY <1>9 DEF Made
  <1>11. Fresh(plan, BookPaths)
    <2> SUFFICES ASSUME NEW b \in BookPaths, NEW e \in ThumbEntries(plan, b)
                 PROVE  e.object \in plan.dst /\ ~e.object.dir /\ e.object.id = 0
      BY DEF Fresh
    <2>1. e \in ThumbsAmong(plan.dst) BY <1>3 DEF ThumbEntries
    <2>2. PICK o \in plan.dst : ~o.dir /\ e = [key |-> <<Name(o.path)>>, object |-> o]
      BY <2>1 DEF ThumbsAmong
    <2>3. e.object = o BY <2>2
    <2> QED BY <1>9, <2>2, <2>3
  <1>12. Keyed(plan.dst)
    <2> SUFFICES ASSUME NEW o \in plan.dst, NEW p \in plan.dst, o.path = p.path
                 PROVE  o = p
      BY DEF Keyed
    <2>1. PICK x \in device : o = [path |-> x.path, dir |-> x.dir, id |-> 0] BY <1>8
    <2>2. PICK y \in device : p = [path |-> y.path, dir |-> y.dir, id |-> 0] BY <1>8
    <2>3. x.path = y.path BY <2>1, <2>2
    <2>4. x.dir \in BOOLEAN /\ y.dir \in BOOLEAN BY <1>6, OneOrTheOther
    <2>5. x.dir = y.dir
      <3>1. ~(x.dir /\ ~y.dir) BY <1>6, <2>3, DeviceFileIsNoDir
      <3>2. ~(y.dir /\ ~x.dir) BY <1>6, <2>3, DeviceFileIsNoDir
      <3> QED BY <2>4, <3>1, <3>2
    <2> QED BY <2>1, <2>2, <2>3, <2>5
  <1>13. Closed(plan.dst)
    <2> SUFFICES ASSUME NEW o \in plan.dst, NEW n \in 1..(Len(o.path) - 1)
                 PROVE  \E d \in plan.dst : d.path = SubSeq(o.path, 1, n) /\ d.dir
      BY DEF Closed
    <2>1. PICK x \in device : o = [path |-> x.path, dir |-> x.dir, id |-> 0] BY <1>8
    <2>2. o.path = x.path BY <2>1
    <2>3. Dir(SubSeq(x.path, 1, n)) \in device BY <1>1, <2>2, DeviceIsClosed
    <2>4. SubSeq(o.path, 1, n) \in DirsIn(plan.dst) BY <1>7, <2>2, <2>3
    <2> QED BY <2>4 DEF DirsIn
  <1>14. Stock \subseteq DirsIn(plan.dst)
    <2>1. \A s \in Stock : Dir(s) \in device BY <1>1 DEF DeviceTree
    <2> QED BY <1>7, <2>1
  <1>15. thumbsOn => ThumbFolder \in DirsIn(plan.dst)
    <2> SUFFICES ASSUME thumbsOn PROVE ThumbFolder \in DirsIn(plan.dst) OBVIOUS
    <2>1. PICK o \in plan.dst : o.path = ThumbFolder BY <1>3 DEF Find
    <2>2. PICK x \in device : o = [path |-> x.path, dir |-> x.dir, id |-> 0] BY <1>8
    <2>3. x.path = ThumbFolder BY <2>1, <2>2
    <2>4. ThumbFolder \in DeviceDirs BY ConstantsArePaths DEF DeviceDirs
    <2>5. x.dir BY <1>6, <2>3, <2>4, DeviceFileIsNoDir
    <2>6. x = Dir(ThumbFolder) BY <1>6, <2>3, <2>5, OneOrTheOther
    <2> QED BY <1>7, <2>6
  <1>16. Len(plan.actions) = 0 /\ DOMAIN plan.actions = {} BY <1>2
  <1>17. Orderly(plan.actions) BY <1>16 DEF Orderly
  <1>18. Removed(plan.actions) = {} BY <1>16 DEF Removed
  <1>19. Runs(plan.actions, 1, local, device, Bare(plan.src), Bare(plan.dst))
    BY <1>7, <1>16, NothingRuns
  <1>20. Tracked(plan.actions, plan.dst) /\ Found(plan)
    BY <1>3, <1>9, <1>16 DEF Tracked, Found
  <1>21. Findable(plan)
    <2> SUFFICES ASSUME NEW b \in BookPaths, NEW o \in plan.dst, o.path = ThumbPath(b)
                 PROVE  ThumbEntries(plan, b) # {}
      BY DEF Findable
    <2>1. Listed(plan) BY <1>1, BeginsListed
    <2>2. ThumbPath(b) \in DeviceFiles BY DEF DeviceFiles, ThumbPath
    <2>3. ThumbPath(b) \notin Made(plan) BY <1>10
    <2>4. o.dir => o.path \in DeviceDirs BY <1>4 DEF Sound, TargetKnown, DirsIn
    <2>5. ~o.dir BY <2>2, <2>4, DeviceFileIsNoDir
    <2> QED BY <2>1, <2>5 DEF Listed, FilesIn
  <1>22. Fit(plan)
    BY <1>4, <1>12, <1>13, <1>14, <1>15, <1>17, <1>18, <1>19, <1>20, <1>21 DEF Fit
  <1> QED BY <1>3, <1>10, <1>11, <1>22 DEF Ready, Planning, NothingFails

(* Planning to delete a local book. *)
LEMMA PlanCase7IsReady ==
  ASSUME Inv, Ready, NEW b \in BookPaths, PlanCase7(b)
  PROVE  Ready'
  <1>1. phase = "case7" /\ phase' = "case7" /\ b \in todo /\ plan' = Case7Of(plan, b)
        /\ UNCHANGED <<local, device, thumbsOn>>
    BY Zenon DEF PlanCase7, PlanBook, PlanKeeps, Case7Of
  <1>2. Source \o b \in FilesIn(plan.src)
    BY <1>1 DEF Inv, TodoIsOfCase, BooksArePlanned, LocalPlanned, Case7
  <1>3. Fit(plan) /\ Fresh(plan, BookPaths) /\ Made(plan) = {} BY <1>1 DEF Ready, Planning
  <1> DEFINE r == Case7Of(plan, b)
  <1>4. Fit(r) /\ Fresh(r, BookPaths) /\ Made(r) = {} BY <1>2, <1>3, Case7Fits
  <1>5. plan' = r BY <1>1
  <1> HIDE DEF r
  <1>6. Fit(plan)' /\ (Made(plan))' = {} /\ Fresh(plan', BookPaths)
    BY <1>1, <1>4, <1>5, FitStays
  <1>7. Fresh(plan, BookPaths)'
    BY <1>1, <1>6 DEF Fresh, ThumbEntries
  <1> QED BY <1>1, <1>6, <1>7 DEF Ready, Planning, NothingFails

(* Planning to delete a book of the device. *)
LEMMA PlanCase6IsReady ==
  ASSUME Inv, Ready, NEW b \in BookPaths, PlanCase6(b)
  PROVE  Ready'
  <1>1. phase = "case6" /\ phase' = "case6" /\ b \in todo /\ plan' = Case6Of(plan, b)
        /\ UNCHANGED <<local, device, thumbsOn>>
    BY Zenon DEF PlanCase6, PlanBook, PlanKeeps, Case6Of
  <1>2. Target \o b \in FilesIn(plan.dst)
    BY <1>1 DEF Inv, TodoIsOfCase, BooksArePlanned, DevicePlanned, Case6
  <1>3. Fit(plan) /\ Fresh(plan, BookPaths) /\ Made(plan) = {} BY <1>1 DEF Ready, Planning
  <1> DEFINE r == Case6Of(plan, b)
  <1>4. Fit(r) /\ Fresh(r, BookPaths) /\ Made(r) = {} BY <1>2, <1>3, Case6Fits
  <1>5. plan' = r BY <1>1
  <1> HIDE DEF r
  <1>6. Fit(plan)' /\ (Made(plan))' = {} /\ Fresh(plan', BookPaths)
    BY <1>1, <1>4, <1>5, FitStays
  <1>7. Fresh(plan, BookPaths)'
    BY <1>1, <1>6 DEF Fresh, ThumbEntries
  <1> QED BY <1>1, <1>6, <1>7 DEF Ready, Planning, NothingFails

(* Planning to copy a book; what was made for others before lies           *)
(* elsewhere.                                                              *)
LEMMA PlanCase3IsReady ==
  ASSUME OwnSideFiles, StandardFolders, Inv, Ready, NEW b \in BookPaths, PlanCase3(b)
  PROVE  Ready'
  <1>1. phase = "case3" /\ phase' = "case3" /\ b \in todo /\ plan' = Case3Of(plan, b)
        /\ todo' = todo \ {b}
        /\ UNCHANGED <<local, device, thumbsOn, localBooks, deviceBooks, changed>>
    BY Zenon DEF PlanCase3, PlanBook, PlanKeeps, Case3Of
  <1>2. b \in Case3 /\ Source \o b \in FilesIn(plan.src)
    BY <1>1 DEF Inv, TodoIsOfCase, BooksArePlanned, LocalPlanned, Case3
  <1>3. b \notin Copying /\ Copying' = Copying \cup {b}
    BY <1>1, <1>2 DEF Copying, Case3
  <1> DEFINE books == {c \in BookPaths \ Copying : ThumbOf[Name(c)] # NoThumb}
             r == Case3Of(plan, b)
  <1>4. Fit(plan) /\ Fresh(plan, books) /\ Made(plan) \subseteq UNION {PutFor(c) : c \in Copying}
    BY <1>1 DEF Ready, Planning
  <1>5. Copying \subseteq BookPaths
    BY <1>1 DEF Copying, Case3, Inv, Types
  <1>6. ASSUME NEW c \in Copying PROVE PutFor(c) \cap PutFor(b) = {}
    <2>1. c # b /\ c \in BookPaths BY <1>3, <1>5
    <2>2. ({ThumbPath(b)} \cup HereIndexes(b, Target)) \cap PutFor(c) = {}
      BY <2>1, PutIsOwn
    <2>3. Target \o b \notin PutFor(c)
      <3>1. Target \o b # Target \o c BY <2>1, ConstantsArePaths, ConcatInjective
      <3>2. Target \o b \notin HereIndexes(c, Target) BY <2>1, IndexIsNoBook
      <3>3. Target \o b # ThumbPath(c) BY <2>1, ConstantsArePaths, NoBookIsThumb
      <3> QED BY <3>1, <3>2, <3>3 DEF PutFor
    <2>4. PutFor(b) \subseteq {Target \o b} \cup ({ThumbPath(b)} \cup HereIndexes(b, Target))
      BY DEF PutFor
    <2> QED BY <2>2, <2>3, <2>4
  <1>7. Made(plan) \cap PutFor(b) = {} BY <1>4, <1>6
  <1>8. /\ books \subseteq BookPaths
        /\ ThumbOf[Name(b)] # NoThumb => b \in books
        /\ \A c \in books \ {b} : ThumbOf[Name(c)] # ThumbOf[Name(b)]
    BY <1>3 DEF OwnSideFiles
  <1>9. books \ {b} = {c \in BookPaths \ (Copying \cup {b}) : ThumbOf[Name(c)] # NoThumb}
    OBVIOUS
  <1> HIDE DEF books
  <1>10. Fit(r) /\ Fresh(r, books \ {b}) /\ Made(r) \subseteq Made(plan) \cup PutFor(b)
    BY <1>2, <1>4, <1>7, <1>8, Case3Fits
  <1>11. plan' = r BY <1>1
  <1> HIDE DEF r
  <1>12. Fit(plan)' /\ (Made(plan))' = Made(r) /\ Fresh(plan', books \ {b})
    BY <1>1, <1>10, <1>11, FitStays
  <1>13. (Made(plan))' \subseteq UNION {PutFor(c) : c \in Copying \cup {b}}
    BY <1>4, <1>10, <1>12
  <1>14. Ready' <=> /\ Fit(plan)'
                    /\ (Made(plan))' \subseteq UNION {PutFor(c) : c \in Copying'}
                    /\ Fresh(plan, {c \in BookPaths \ Copying : ThumbOf[Name(c)] # NoThumb})'
    BY <1>1 DEF Ready, Planning, NothingFails
  <1>15. Fresh(plan, {c \in BookPaths \ Copying : ThumbOf[Name(c)] # NoThumb})'
    BY <1>1, <1>3, <1>9, <1>12 DEF Fresh, ThumbEntries
  <1> QED BY <1>3, <1>12, <1>13, <1>14, <1>15

(* Fits is what carrying out asks for, and a little more. *)
LEMMA FitsSucceeds ==
  ASSUME NEW disk, NEW a \in Actions, Fits(local, disk, a)
  PROVE  Succeeds(disk, a.op, a.object, a.from)
  <1>1. a.op \in {"Remove", "MkDir", "Copy"} BY DEF Actions
  <1>2. CASE a.op = "Remove" BY <1>2 DEF Fits, Succeeds
  <1>3. CASE a.op = "MkDir" BY <1>3 DEF Fits, Succeeds
  <1>4. CASE a.op = "Copy"
    <2>1. Dir(a.object.path).path = a.object.path BY DEF Dir
    <2> QED BY <1>4, <2>1 DEF Fits, Succeeds
  <1> QED BY <1>1, <1>2, <1>3, <1>4

(* The next action can be carried out, and then the rest of the plan. *)
LEMMA NextActionFits ==
  ASSUME Inv, Ready, phase = "run", next <= Len(plan.actions)
  PROVE  LET a == plan.actions[next]
         IN  /\ plan.actions \in Seq(Actions) /\ next \in 1..Len(plan.actions) /\ a \in Actions
             /\ Works(a)
             /\ \E s, d : /\ Leads(a, local, device, s, d)
                          /\ Runs(plan.actions, next + 1, s, d, Bare(plan.src), Bare(plan.dst))
  <1> DEFINE acts == plan.actions
             a == acts[next]
  <1>1. /\ acts \in Seq(Actions) /\ Len(acts) \in Nat /\ next \in Nat /\ next \in 1..Len(acts)
        /\ a \in Actions
    <2>1. acts \in Seq(Actions) /\ next \in Nat \ {0}
      BY DEF Inv, Types, PlanIsSound, SoundFrom, Plans
    <2>2. Len(acts) \in Nat BY <2>1, LenProperties
    <2>3. next \in 1..Len(acts) BY <2>1, <2>2
    <2> QED BY <2>1, <2>2, <2>3
  <1>2. Orderly(acts) /\ Runs(acts, next, local, device, Bare(plan.src), Bare(plan.dst))
    BY DEF Ready, Planning, Accounted
  <1>3. PICK s, d : /\ Leads(a, local, device, s, d)
                    /\ Runs(acts, next + 1, s, d, Bare(plan.src), Bare(plan.dst))
    BY <1>1, <1>2, ShorterRuns
  <1>4. Works(a)
    <2>1. CASE a.on = "local"
      <3>1. Fits(local, local, a) BY <1>3, <2>1 DEF Leads
      <3> QED BY <1>1, <2>1, <3>1, FitsSucceeds DEF Works
    <2>2. CASE a.on # "local"
      <3>1. Fits(local, device, a) BY <1>3, <2>2 DEF Leads
      <3>2. a.on = "device" BY <1>1, <2>2 DEF Actions
      <3>3. StillGood(a.op, a.object) BY <1>1, <1>2, <3>2, OrderlyIsGood
      <3> QED BY <1>1, <2>2, <3>1, <3>3, FitsSucceeds DEF Works
    <2> QED BY <2>1, <2>2
  <1> QED BY <1>1, <1>3, <1>4

(* So the plan stays ready when an action is carried out. *)
LEMMA RunActionIsReady ==
  ASSUME Inv, Ready, RunAction
  PROVE  Ready'
  <1> DEFINE acts == plan.actions
             a == acts[next]
  <1>1. /\ phase = "run" /\ next <= Len(acts) /\ plan' = plan
        /\ IF Works(a) THEN CarryOut(a)
           ELSE phase' = "failed" /\ UNCHANGED <<local, device, next>>
    BY DEF RunAction
  <1>2. Accounted(plan) BY <1>1 DEF Ready, Planning
  <1>3. Works(a) /\ \E s, d : /\ Leads(a, local, device, s, d)
                              /\ Runs(acts, next + 1, s, d, Bare(plan.src), Bare(plan.dst))
    BY <1>1, NextActionFits
  <1>4. PICK s, d : /\ Leads(a, local, device, s, d)
                    /\ Runs(acts, next + 1, s, d, Bare(plan.src), Bare(plan.dst))
    BY <1>3
  <1>5. CarryOut(a) BY <1>1, <1>3
  <1> HIDE DEF a
  <1>6. local' = s /\ device' = d /\ next' = next + 1 /\ phase' = phase
    BY <1>4, <1>5 DEF CarryOut, Leads
  <1> HIDE DEF acts
  <1>7. Runs(acts, next', local', device', Bare(plan.src), Bare(plan.dst))
    BY <1>4, <1>6
  <1>8. Accounted(plan)' BY <1>1, <1>2 DEF Accounted
  <1> QED BY <1>1, <1>6, <1>7, <1>8 DEF Ready, Planning, NothingFails, acts

(* What can be carried out as it is planned can still be carried out after *)
(* each step.                                                              *)
LEMMA NextReady ==
  ASSUME OwnSideFiles, StandardFolders
  PROVE  Inv /\ Ready /\ [Next]_vars => Ready'
  <1> SUFFICES ASSUME Inv, Ready, [Next]_vars PROVE Ready' OBVIOUS
  <1>1. CASE \E b \in BookPaths : PlanCase7(b) BY <1>1, PlanCase7IsReady
  <1>2. CASE \E b \in BookPaths : PlanCase6(b) BY <1>2, PlanCase6IsReady
  <1>3. CASE \E b \in BookPaths : PlanCase3(b) BY <1>3, PlanCase3IsReady
  <1>4. CASE EndCase7
    <2>1. /\ phase = "case7" /\ phase' = "case6" /\ plan' = plan
          /\ UNCHANGED <<local, device, thumbsOn>>
      BY <1>4 DEF EndCase7, PlanKeeps
    <2>2. Fit(plan) /\ Made(plan) = {} /\ Fresh(plan, BookPaths)
      BY <2>1 DEF Ready, Planning
    <2>3. Fit(plan)' /\ (Made(plan))' = {}
      BY <2>1, <2>2, FitStays
    <2>4. Fresh(plan, BookPaths)' BY <2>1, <2>2 DEF Fresh, ThumbEntries
    <2> QED BY <2>1, <2>3, <2>4 DEF Ready, Planning, NothingFails
  <1>5. CASE EndCase6
    <2>1. /\ phase = "case6" /\ phase' = "case3" /\ plan' = plan /\ todo' = Case3'
          /\ UNCHANGED <<local, device, thumbsOn>>
      BY <1>5 DEF EndCase6, PlanKeeps
    <2>2. Fit(plan) /\ Made(plan) = {} /\ Fresh(plan, BookPaths)
      BY <2>1 DEF Ready, Planning
    <2>3. Fit(plan)' /\ (Made(plan))' = {}
      BY <2>1, <2>2, FitStays
    <2>4. Fresh(plan, {b \in BookPaths \ Copying : ThumbOf[Name(b)] # NoThumb})'
      BY <2>1, <2>2 DEF Fresh, ThumbEntries
    <2> QED BY <2>1, <2>3, <2>4 DEF Ready, Planning, NothingFails
  <1>6. CASE EndCase3
    <2>1. phase = "case3" /\ phase' = "run" /\ UNCHANGED <<plan, local, device, next>>
      BY <1>6 DEF EndCase3, PlanKeeps
    <2>2. next = 1 BY <2>1 DEF Inv, Types, Planning
    <2>3. Fit(plan) BY <2>1 DEF Ready, Planning
    <2>4. /\ Accounted(plan)
          /\ Runs(plan.actions, next, local, device, Bare(plan.src), Bare(plan.dst))
      BY <2>2, <2>3 DEF Fit, Accounted
    <2>5. Accounted(plan)' BY <2>1, <2>4 DEF Accounted
    <2> QED BY <2>1, <2>4, <2>5 DEF Ready, Planning, NothingFails
  <1>7. CASE RunAction BY <1>7, RunActionIsReady
  <1>8. CASE Finish
    <2>1. phase = "run" /\ phase' = "done" /\ UNCHANGED <<plan, local, device, next>>
      BY <1>8 DEF Finish
    <2>2. Accounted(plan) => Accounted(plan)' BY <2>1 DEF Accounted
    <2> QED BY <2>1, <2>2 DEF Ready, Planning, NothingFails
  <1>9. CASE UNCHANGED vars
    <2>1. /\ plan' = plan /\ phase' = phase /\ todo' = todo /\ next' = next
          /\ UNCHANGED <<local, device, thumbsOn, localBooks, deviceBooks, changed>>
      BY <1>9 DEF vars
    <2>2. Fit(plan) => Fit(plan)' BY <2>1, FitStays
    <2>3. Copying' = Copying BY <2>1 DEF Copying, Case3
    <2>5. Fresh(plan, BookPaths) => Fresh(plan, BookPaths)'
      BY <2>1 DEF Fresh, ThumbEntries
    <2>6. Fresh(plan, {b \in BookPaths \ Copying : ThumbOf[Name(b)] # NoThumb}) =>
            Fresh(plan, {b \in BookPaths \ Copying : ThumbOf[Name(b)] # NoThumb})'
      BY <2>1, <2>3 DEF Fresh, ThumbEntries
    <2>7. (Made(plan))' = Made(plan) BY <2>1 DEF Made
    <2>8. Accounted(plan) => Accounted(plan)' BY <2>1 DEF Accounted
    <2> QED BY <2>1, <2>2, <2>3, <2>5, <2>6, <2>7, <2>8 DEF Ready, Planning, NothingFails
  <1> QED BY <1>1, <1>2, <1>3, <1>4, <1>5, <1>6, <1>7, <1>8, <1>9 DEF Next

(* Unless two books have the same thumbnail or the same page index, and    *)
(* where the device has the folders that every device has, a plan runs to  *)
(* its end.                                                                *)
THEOREM PlansRunToTheirEnd ==
  ASSUME OwnSideFiles, StandardFolders
  PROVE  Spec => []NothingFails
  <1>1. Init => Ready BY InitReady
  <1>2. Ready => NothingFails BY DEF Ready
  <1>3. Spec => []Ready BY <1>1, NextReady, Invariance, PTL DEF Spec
  <1> QED BY <1>2, <1>3, PTL

(* A disk is a tree: one object under a path, in a directory that is there. *)
Standing(disk) ==
  /\ \A x \in disk : /\ x = [path |-> x.path, dir |-> x.dir] /\ x.dir \in BOOLEAN
                     /\ x.path \in Path /\ x.path # << >>
  /\ \A x, y \in disk : x.path = y.path => x = y
  /\ \A x \in disk : HasParent(disk, x.path)

(* What can be carried out leaves a tree. *)
LEMMA EffectStands ==
  ASSUME NEW disk, Standing(disk), NEW a \in Actions,
         Succeeds(disk, a.op, a.object, a.from)
  PROVE  Standing(Effect(disk, a.op, a.object))
  <1> DEFINE o == a.object
             new == [path |-> o.path, dir |-> o.dir]
  <1>1. /\ a.op \in {"Remove", "MkDir", "Copy"} /\ o.path \in Path /\ o.path # << >>
        /\ o.dir \in BOOLEAN
        /\ a.op = "MkDir" => o.dir
        /\ a.op = "Copy" => ~o.dir
    BY DEF Actions, Objects
  <1>2. \A x \in disk : /\ x.path \in Path /\ x.path # << >>
                        /\ x = [path |-> x.path, dir |-> x.dir] /\ x.dir \in BOOLEAN
                        /\ HasParent(disk, x.path)
    BY DEF Standing
  <1>3. \A x, y \in disk : x.path = y.path => x = y BY DEF Standing
  <1> HIDE DEF o
  <1>4. CASE a.op = "Remove"
    <2> DEFINE rest == {x \in disk : x.path # o.path}
    <2>1. Effect(disk, a.op, o) = rest BY <1>4 DEF Effect
    <2>2. \A x \in disk : ~IsUnder(x.path, o.path) BY <1>4 DEF Succeeds, o
    <2>3. ASSUME NEW x \in rest PROVE HasParent(rest, x.path)
      <3>1. HasParent(disk, x.path) BY <1>2
      <3>2. Parent(x.path) # o.path BY <1>2, <2>2, UnderItsParent
      <3>3. Dir(Parent(x.path)).path # o.path BY <3>2 DEF Dir
      <3> QED BY <3>1, <3>3 DEF HasParent
    <2>4. \A x \in rest : x \in disk OBVIOUS
    <2> HIDE DEF rest
    <2>5. Standing(rest) BY <1>2, <1>3, <2>3, <2>4 DEF Standing
    <2> QED BY <2>1, <2>5 DEF o
  <1>5. CASE a.op # "Remove"
    <2> DEFINE more == disk \cup {new}
    <2>1. Effect(disk, a.op, o) = more BY <1>5 DEF Effect
    <2>2. new.path = o.path /\ new.dir = o.dir /\ new = [path |-> new.path, dir |-> new.dir]
      OBVIOUS
    <2> HIDE DEF new
    <2>3. \A x \in more : x \in disk \/ x = new OBVIOUS
    <2>4. disk \subseteq more /\ new \in more OBVIOUS
    <2>5. HasParent(disk, o.path) BY <1>1, <1>5 DEF Succeeds, o
    <2>6. \A x \in disk : x.path = new.path => x = new
      <3>1. CASE a.op = "MkDir" BY <2>2, <3>1 DEF Succeeds, o
      <3>2. CASE a.op = "Copy"
        <4> SUFFICES ASSUME NEW x \in disk, x.path = new.path PROVE x = new OBVIOUS
        <4>1. Dir(o.path) \notin disk BY <3>2 DEF Succeeds, o
        <4>2. x = [path |-> o.path, dir |-> x.dir] BY <1>2, <2>2
        <4>3. ~x.dir BY <1>2, <4>1, <4>2 DEF Dir
        <4>4. x.dir = FALSE /\ new.dir = FALSE BY <1>1, <1>2, <2>2, <3>2, <4>3
        <4> QED BY <2>2, <4>2, <4>4
      <3> QED BY <1>1, <1>5, <3>1, <3>2
    <2>7. \A p : HasParent(disk, p) => HasParent(more, p) BY <2>4 DEF HasParent
    <2> HIDE DEF more
    <2>8. \A x \in more : /\ x = [path |-> x.path, dir |-> x.dir] /\ x.dir \in BOOLEAN
                          /\ x.path \in Path /\ x.path # << >>
      <3>1. new.path \in Path /\ new.path # << >> /\ new.dir \in BOOLEAN BY <1>1, <2>2
      <3> QED BY <1>2, <2>2, <2>3, <3>1
    <2>9. \A x, y \in more : x.path = y.path => x = y BY <1>3, <2>3, <2>6
    <2>10. \A x \in more : HasParent(more, x.path) BY <1>2, <2>2, <2>3, <2>5, <2>7
    <2>11. Standing(more) BY <2>8, <2>9, <2>10 DEF Standing
    <2> QED BY <2>1, <2>11 DEF o
  <1> QED BY <1>4, <1>5

(* The inductive part of TypeOK. *)
Trees ==
  /\ Standing(local) /\ Standing(device)
  /\ next <= Len(plan.actions) + 1

(* A disk with the directories above what is on it is a tree. *)
LEMMA ClosedStands ==
  ASSUME NEW disk, NEW dirs, NEW files, files \cap dirs = {},
         \A x \in disk : x = File(x.path) \/ x = Dir(x.path),
         \A x \in disk : x.path \in Path /\ x.path # << >>,
         \A x \in disk : x.path \in IF x.dir THEN dirs ELSE files,
         \A x \in disk : \A n \in 1..(Len(x.path) - 1) : Dir(SubSeq(x.path, 1, n)) \in disk
  PROVE  Standing(disk)
  <1>1. \A x \in disk : x = [path |-> x.path, dir |-> x.dir] /\ x.dir \in BOOLEAN
    BY OneOrTheOther
  <1>2. ASSUME NEW x \in disk, NEW y \in disk, x.path = y.path PROVE x = y
    <2>1. x.dir = y.dir BY <1>1, <1>2
    <2> QED BY <1>1, <1>2, <2>1
  <1>3. ASSUME NEW x \in disk PROVE HasParent(disk, x.path)
    <2> DEFINE p == x.path
               k == Len(p)
    <2>1. p \in Path /\ p # << >> BY <1>3
    <2>2. k \in Nat \ {0} /\ Parent(p) \in Path /\ Len(Parent(p)) = k - 1
      BY <2>1, ParentIs
    <2>3. CASE k = 1
      <3>1. Len(Parent(p)) = 0 BY <2>2, <2>3
      <3>2. Parent(p) = << >> BY <2>2, <3>1, EmptySeq DEF Path
      <3> QED BY <3>2 DEF HasParent
    <2>4. CASE k # 1
      <3> HIDE DEF k
      <3>1. k - 1 \in 1..(k - 1) BY <2>2, <2>4
      <3>2. Dir(SubSeq(p, 1, k - 1)) \in disk BY <3>1 DEF k
      <3> QED BY <3>2 DEF HasParent, Parent, k
    <2> QED BY <2>3, <2>4
  <1> QED BY <1>1, <1>2, <1>3 DEF Standing

(* What a scan finds is a tree. *)
LEMMA DeviceStands ==
  ASSUME StandardFolders, NEW m \in Mixes
  PROVE  Standing(DeviceTree(m))
  <1> DEFINE disk == DeviceTree(m)
  <1>1. /\ \A x \in disk : x = File(x.path) \/ x = Dir(x.path)
        /\ \A x \in disk : x.path \in Path /\ x.path # << >>
        /\ \A x \in disk : x.path \in IF x.dir THEN DeviceDirs ELSE DeviceFiles
        /\ \A x \in disk : \A n \in 1..(Len(x.path) - 1) : Dir(SubSeq(x.path, 1, n)) \in disk
    BY DeviceTreeIs, DeviceIsClosed
  <1> HIDE DEF disk
  <1>2. Standing(disk) BY <1>1, DeviceFileIsNoDir, ClosedStands
  <1> QED BY <1>2 DEF disk

(* So a run begins with trees. *)
LEMMA InitTrees ==
  ASSUME StandardFolders, Init
  PROVE  Trees
  <1>1. PICK m \in Mixes :
          local = LocalTree(m) /\ device = DeviceTree(m) /\ Begin(Scan(local), Scan(device))
    BY Zenon DEF Init
  <1>2. next = 1 /\ plan.actions = << >> BY <1>1, BeginsSound
  <1>3. /\ \A x \in local : x = File(x.path) \/ x = Dir(x.path)
        /\ \A x \in local : x.path \in Path /\ x.path # << >>
        /\ \A x \in local : x.path \in IF x.dir THEN LocalDirs ELSE LocalFiles
        /\ \A x \in local : \A n \in 1..(Len(x.path) - 1) : Dir(SubSeq(x.path, 1, n)) \in local
    BY <1>1, LocalTreeIs
  <1>4. Standing(local) BY <1>3, LocalFileIsNoDir, ClosedStands
  <1>5. Standing(device) BY <1>1, DeviceStands
  <1>6. Len(plan.actions) = 0 BY <1>2
  <1> QED BY <1>2, <1>4, <1>5, <1>6 DEF Trees

(* Only carrying out an action changes the disks. *)
LEMMA NextTrees == Inv /\ Trees /\ Inv' /\ [Next]_vars => Trees'
  <1> SUFFICES ASSUME Inv, Trees, Inv', [Next]_vars PROVE Trees' OBVIOUS
  <1>1. /\ plan.actions \in Seq(Actions) /\ Len(plan.actions) \in Nat /\ next \in Nat \ {0}
        /\ (plan.actions)' \in Seq(Actions) /\ (Len(plan.actions))' \in Nat
    <2>1. plan.actions \in Seq(Actions) /\ next \in Nat \ {0}
      BY DEF Inv, Types, PlanIsSound, SoundFrom, Plans
    <2>2. (plan.actions)' \in Seq(Actions)
      BY DEF Inv, PlanIsSound, SoundFrom, Plans
    <2> QED BY <2>1, <2>2, LenProperties
  <1>2. CASE RunAction
    <2> DEFINE a == plan.actions[next]
    <2>1. /\ next <= Len(plan.actions) /\ plan' = plan
          /\ IF Works(a) THEN CarryOut(a)
             ELSE phase' = "failed" /\ UNCHANGED <<local, device, next>>
      BY <1>2 DEF RunAction
    <2>2. a \in Actions BY <1>1, <2>1
    <2> HIDE DEF a
    <2>3. CASE ~Works(a) BY <2>1, <2>3 DEF Trees, Standing, HasParent
    <2>4. CASE Works(a) /\ a.on = "local"
      <3>1. /\ local' = Effect(local, a.op, a.object) /\ device' = device /\ next' = next + 1
        BY <2>1, <2>4 DEF CarryOut
      <3>2. Succeeds(local, a.op, a.object, a.from) BY <2>4 DEF Works
      <3>3. Standing(Effect(local, a.op, a.object))
        BY <2>2, <3>2, EffectStands DEF Trees
      <3>4. Standing(local') /\ Standing(device') BY <3>1, <3>3 DEF Trees
      <3> QED BY <1>1, <2>1, <3>1, <3>4 DEF Trees, Standing, HasParent
    <2>5. CASE Works(a) /\ a.on # "local"
      <3>1. /\ device' = Effect(device, a.op, a.object) /\ local' = local /\ next' = next + 1
        BY <2>1, <2>5 DEF CarryOut
      <3>2. Succeeds(device, a.op, a.object, a.from) BY <2>5 DEF Works
      <3>3. Standing(Effect(device, a.op, a.object))
        BY <2>2, <3>2, EffectStands DEF Trees
      <3>4. Standing(local') /\ Standing(device') BY <3>1, <3>3 DEF Trees
      <3> QED BY <1>1, <2>1, <3>1, <3>4 DEF Trees, Standing, HasParent
    <2> QED BY <2>3, <2>4, <2>5
  <1>3. CASE ~RunAction
    <2>1. local' = local /\ device' = device /\ next' = next
      BY <1>3 DEF Next, PlanCase7, PlanCase6, PlanCase3, PlanBook, PlanKeeps, EndCase7,
                  EndCase6, EndCase3, Finish, vars
    <2>2. Standing(local)' /\ Standing(device)' BY <2>1 DEF Trees, Standing, HasParent
    <2>3. CASE Planning'
      <3>1. next' = 1 BY <2>3 DEF Inv, Types
      <3> QED BY <1>1, <2>2, <3>1 DEF Trees
    <2>4. CASE ~Planning'
      <3>1. plan' = plan
        BY <1>3, <2>4 DEF Next, PlanCase7, PlanCase6, PlanCase3, PlanBook, EndCase7,
                          EndCase6, EndCase3, Finish, Planning, vars
      <3> QED BY <2>1, <2>2, <3>1 DEF Trees
    <2> QED BY <2>3, <2>4
  <1> QED BY <1>2, <1>3

(* Both disks stay trees with one object under a path and every object in  *)
(* a directory that is there, and the plan is never run past its end; also *)
(* in runs that fail.                                                      *)
THEOREM TypeCorrect ==
  ASSUME StandardFolders
  PROVE  Spec => []TypeOK
  <1>1. Inv /\ Trees => TypeOK
    <2> SUFFICES ASSUME Inv, Trees PROVE TypeOK OBVIOUS
    <2>1. Len(plan.actions) \in Nat /\ next \in Nat \ {0}
      <3>1. plan.actions \in Seq(Actions) /\ next \in Nat \ {0}
        BY DEF Inv, Types, PlanIsSound, SoundFrom, Plans
      <3> QED BY <3>1, LenProperties
    <2>2. next \in 1..(Len(plan.actions) + 1) BY <2>1 DEF Trees
    <2>3. \A disk \in {local, device} : \A x \in disk :
            /\ \A y \in disk : x.path = y.path => x = y
            /\ HasParent(disk, x.path)
      BY DEF Trees, Standing
    <2>4. /\ phase \in {"case7", "case6", "case3", "run", "done", "failed"}
          /\ todo \in SUBSET BookPaths /\ localBooks \in SUBSET BookPaths
          /\ deviceBooks \in SUBSET BookPaths
      BY DEF Inv, Types
    <2> QED BY <2>2, <2>3, <2>4 DEF TypeOK
  <1>2. Spec => [](Inv /\ Trees)
    BY InitInv, InitTrees, NextInv, NextTrees, PTL DEF Spec
  <1> QED BY <1>1, <1>2, PTL

(***************************************************************************)
(* A book goes from the source only when it is not on the device.          *)
(***************************************************************************)
(* No local book whose removal is planned is on the device; while these    *)
(* are planned, the planner knows what is there.                           *)
DropsAreAbsent ==
  /\ phase = "case7" => \A b \in BookPaths : File(Target \o b) \in device => b \in deviceBooks
  /\ \A b \in BookPaths : Source \o b \in Gone(plan.actions, 1) =>
       b \in history /\ File(Target \o b) \notin device

(* Nothing is planned yet, and the device was read whole. *)
LEMMA InitDropsAreAbsent ==
  ASSUME Init
  PROVE  DropsAreAbsent
  <1>1. PICK m \in Mixes :
          local = LocalTree(m) /\ device = DeviceTree(m) /\ Begin(Scan(local), Scan(device))
    BY Zenon DEF Init
  <1>2. plan.actions = << >> /\ plan.dst = Scan(device) /\ phase = "case7"
    <2>1. plan = [actions |-> << >>, src |-> Scan(local), dst |-> Scan(device),
                  thumbs |-> ThumbsAmong(Scan(device))] /\ phase = "case7"
      BY <1>1 DEF Begin
    <2> QED BY <2>1
  <1>3. Len(plan.actions) = 0 BY <1>2
  <1>4. Gone(plan.actions, 1) = {} BY <1>3 DEF Gone
  <1>5. \A p : p \in FilesIn(Scan(device)) <=> File(p) \in device
    <2>1. /\ \A x \in device : x = File(x.path) \/ x = Dir(x.path)
          /\ \A x \in device : x.path \in Path /\ x.path # << >>
      BY <1>1, DeviceTreeIs
    <2> QED BY <2>1, ScanIs
  <1>6. \A b \in BookPaths : Target \o b \in FilesIn(plan.dst) <=> b \in deviceBooks
    BY <1>2, InitInv DEF Inv, BooksArePlanned, DevicePlanned
  <1> QED BY <1>2, <1>4, <1>5, <1>6 DEF DropsAreAbsent

(* A local book that goes is none of the books that the plan leaves.       *)
LEMMA GoneIsNotLocal ==
  ASSUME Inv, phase # "case7", NEW b \in BookPaths, Source \o b \in Gone(plan.actions, 1)
  PROVE  b \notin localBooks
  <1>1. Source \o b \notin InnerDirs BY LocalFileIsNoDir DEF InnerDirs, LocalFiles
  <1>2. PICK c \in ToBeDropped : Source \o b \in {Source \o c} \cup IndexesOf(c, Source)
    BY <1>1 DEF Inv, OnlyKnownGo
  <1>3. c \in BookPaths \ localBooks BY <1>2 DEF ToBeDropped, Handled
  <1>4. Source \o b \notin IndexesOf(c, Source)
    <2> SUFFICES ASSUME Source \o b \in IndexesOf(c, Source) PROVE FALSE OBVIOUS
    <2>1. Source \o b \in HereIndexes(c, Source) BY <1>3, IndexesAreHere
    <2> QED BY <1>3, <2>1, IndexIsNoBook
  <1>5. b = c BY <1>2, <1>3, <1>4, ConstantsArePaths, ConcatInjective
  <1> QED BY <1>3, <1>5

(* Carrying the plan out does not put it on the device either. *)
LEMMA RunKeepsDropsAbsent ==
  ASSUME Inv, Ready, DropsAreAbsent, RunAction
  PROVE  DropsAreAbsent'
  <1> DEFINE acts == plan.actions
             a == acts[next]
  <1>1. /\ phase = "run" /\ next <= Len(acts) /\ plan' = plan /\ history' = history
        /\ phase' # "case7"
        /\ IF Works(a) THEN CarryOut(a)
           ELSE phase' = "failed" /\ UNCHANGED <<local, device, next>>
    BY DEF RunAction, CarryOut
  <1>2. /\ acts \in Seq(Actions) /\ next \in 1..Len(acts) /\ a \in Actions
    BY <1>1, NextActionFits
  <1>3. ASSUME NEW b \in BookPaths, Source \o b \in Gone(acts, 1),
               File(Target \o b) \in device'
        PROVE  FALSE
    <2>1. b \in history /\ File(Target \o b) \notin device BY <1>3 DEF DropsAreAbsent
    <2>2. b \notin localBooks BY <1>1, <1>3, GoneIsNotLocal
    <2>3. a.on # "local" /\ device' = Effect(device, a.op, a.object)
      BY <1>1, <1>3, <2>1 DEF CarryOut
    <2> HIDE DEF a
    <2>4. a.op # "Remove" /\ File(Target \o b) = [path |-> a.object.path, dir |-> a.object.dir]
      BY <1>2, <1>3, <2>1, <2>3, EffectIs
    <2>5. a.object.path = Target \o b /\ a.object.dir = FALSE BY <2>4 DEF File
    <2>6. a.on = "device" BY <1>2, <2>3 DEF Actions
    <2>7. Tracked(acts, plan.dst) BY <1>1 DEF Ready, Planning, Accounted
    <2> HIDE DEF acts
    <2>8. a.object \in plan.dst BY <1>2, <2>4, <2>6, <2>7 DEF Tracked, a
    <2>9. Target \o b \in FilesIn(plan.dst) BY <2>5, <2>8 DEF FilesIn
    <2>10. b \in deviceBooks \cup (Case3 \ todo)
      BY <1>1, <2>9 DEF Inv, BooksArePlanned, DevicePlanned
    <2>11. Case3 \subseteq localBooks BY DEF Case3
    <2>12. deviceBooks \cap history \subseteq localBooks
      BY <1>1 DEF Inv, RecordedAreLocal
    <2> QED BY <2>1, <2>2, <2>10, <2>11, <2>12
  <1> QED BY <1>1, <1>3 DEF DropsAreAbsent

(* Planning adds none that is there. *)
LEMMA NextDropsAreAbsent ==
  ASSUME Inv, Ready, DropsAreAbsent, [Next]_vars
  PROVE  DropsAreAbsent'
  <1>1. ASSUME NEW b \in BookPaths, PlanCase7(b) PROVE DropsAreAbsent'
    <2>1. /\ phase = "case7" /\ phase' = "case7" /\ b \in todo /\ plan' = Case7Of(plan, b)
          /\ UNCHANGED <<device, deviceBooks, history>>
      BY <1>1, Zenon DEF PlanCase7, PlanBook, PlanKeeps, Case7Of
    <2>2. /\ Sound(plan) /\ Source \o b \in FilesIn(plan.src)
          /\ b \in history /\ b \notin deviceBooks
      BY <2>1, SoundWhilePlanning
         DEF Inv, Types, Planning, PlanIsSound, TodoIsOfCase, BooksArePlanned, LocalPlanned, Case7
    <2> DEFINE r == Case7Of(plan, b)
    <2>3. Changes(plan, r, {Source \o b} \cup HereIndexes(b, Source), {ThumbPath(b)}, {})
      BY <2>2, Case7Does
    <2>4. plan' = r BY <2>1
    <2> HIDE DEF r
    <2>5. ASSUME NEW c \in BookPaths, Source \o c \in Gone(r.actions, 1)
          PROVE  c \in history /\ File(Target \o c) \notin device
      <3>1. CASE c = b BY <2>1, <2>2, <3>1 DEF DropsAreAbsent
      <3>2. CASE c # b
        <4>1. Source \o c # Source \o b BY <3>2, ConstantsArePaths, ConcatInjective
        <4>2. Source \o c \notin HereIndexes(b, Source) BY IndexIsNoBook
        <4>3. Source \o c \notin InnerDirs BY LocalFileIsNoDir DEF InnerDirs, LocalFiles
        <4>4. Source \o c \in Gone(plan.actions, 1)
          BY <2>3, <2>5, <4>1, <4>2, <4>3 DEF Changes
        <4> QED BY <4>4 DEF DropsAreAbsent
      <3> QED BY <3>1, <3>2
    <2> QED BY <2>1, <2>4, <2>5 DEF DropsAreAbsent
  <1>2. ASSUME phase # "case7", phase' # "case7", UNCHANGED <<device, history>>,
               Gone(plan.actions, 1)' \subseteq Gone(plan.actions, 1) \cup InnerDirs
        PROVE  DropsAreAbsent'
    <2>1. \A c \in BookPaths : Source \o c \notin InnerDirs
      BY LocalFileIsNoDir DEF InnerDirs, LocalFiles
    <2> QED BY <1>2, <2>1 DEF DropsAreAbsent
  <1>3. ASSUME NEW b \in BookPaths, PlanCase6(b) PROVE DropsAreAbsent'
    <2>1. /\ phase = "case6" /\ phase' = "case6" /\ b \in todo /\ plan' = Case6Of(plan, b)
          /\ UNCHANGED <<device, history>>
      BY <1>3, Zenon DEF PlanCase6, PlanBook, PlanKeeps, Case6Of
    <2>2. Sound(plan) /\ Target \o b \in FilesIn(plan.dst)
      BY <2>1, SoundWhilePlanning
         DEF Inv, Types, Planning, PlanIsSound, TodoIsOfCase, BooksArePlanned, DevicePlanned, Case6
    <2> DEFINE r == Case6Of(plan, b)
    <2>3. Changes(plan, r, {}, OnDevice(b), {}) BY <2>2, Case6Does
    <2>4. plan' = r BY <2>1
    <2> HIDE DEF r
    <2>5. Gone(plan.actions, 1)' = Gone(r.actions, 1) BY <2>4 DEF Gone
    <2> QED BY <1>2, <2>1, <2>3, <2>5 DEF Changes
  <1>4. ASSUME NEW b \in BookPaths, PlanCase3(b) PROVE DropsAreAbsent'
    <2>1. /\ phase = "case3" /\ phase' = "case3" /\ b \in todo /\ plan' = Case3Of(plan, b)
          /\ UNCHANGED <<device, history>>
      BY <1>4, Zenon DEF PlanCase3, PlanBook, PlanKeeps, Case3Of
    <2>2. Sound(plan)
      BY <2>1, SoundWhilePlanning DEF Inv, Types, Planning, PlanIsSound
    <2> DEFINE r == Case3Of(plan, b)
    <2>3. Changes(plan, r, {}, OnDevice(b), CopiedFor(b)) BY <2>2, Case3Does
    <2>4. plan' = r BY <2>1
    <2> HIDE DEF r
    <2>5. Gone(plan.actions, 1)' = Gone(r.actions, 1) BY <2>4 DEF Gone
    <2> QED BY <1>2, <2>1, <2>3, <2>5 DEF Changes
  <1>5. ASSUME UNCHANGED <<device, history, plan>>,
               phase' = "case7" => phase = "case7" /\ deviceBooks' = deviceBooks
        PROVE  DropsAreAbsent'
    BY <1>5 DEF DropsAreAbsent
  <1>6. CASE EndCase7 \/ EndCase6 \/ EndCase3
    BY <1>5, <1>6 DEF EndCase7, EndCase6, EndCase3, PlanKeeps
  <1>7. CASE Finish BY <1>5, <1>7 DEF Finish
  <1>8. CASE UNCHANGED vars BY <1>5, <1>8 DEF vars
  <1>9. CASE RunAction BY <1>9, RunKeepsDropsAbsent
  <1> QED BY <1>1, <1>3, <1>4, <1>6, <1>7, <1>8, <1>9 DEF Next

(* What goes from the source is what an action of the plan removes. *)
LEMMA DroppedIsAbsent ==
  ASSUME Inv, DropsAreAbsent, [Next]_vars, NEW b \in BookPaths,
         File(Source \o b) \in local \ local'
  PROVE  File(Target \o b) \notin device
  <1>1. RunAction
    BY DEF Next, PlanCase7, PlanCase6, PlanCase3, PlanBook, PlanKeeps, EndCase7,
           EndCase6, EndCase3, Finish, vars
  <1> DEFINE acts == plan.actions
             a == acts[next]
  <1>2. /\ next <= Len(acts) /\ acts \in Seq(Actions) /\ next \in Nat \ {0}
        /\ IF Works(a) THEN CarryOut(a)
           ELSE phase' = "failed" /\ UNCHANGED <<local, device, next>>
    BY <1>1 DEF RunAction, Inv, Types, PlanIsSound, SoundFrom, Plans
  <1>3. a.on = "local" /\ local' = Effect(local, a.op, a.object) BY <1>2 DEF CarryOut
  <1>4. Len(acts) \in Nat BY <1>2, LenProperties
  <1>5. next \in 1..Len(acts) /\ a \in Actions BY <1>2, <1>4
  <1> HIDE DEF a
  <1>6. a.object.path = Source \o b
    <2>1. File(Source \o b).path = Source \o b BY DEF File
    <2> QED BY <1>3, <1>5, <2>1, EffectIs
  <1>7. Source \o b \in Gone(acts, 1) BY <1>3, <1>5, <1>6 DEF Gone, a
  <1> QED BY <1>7 DEF DropsAreAbsent
=============================================================================
