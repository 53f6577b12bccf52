----------------------------- MODULE MCPathPlan -----------------------------
(***************************************************************************)
(* Instances of PathPlan for TLC: two or three books, one level and two    *)
(* levels deep, with page indexes in both places and thumbnails.        *)
(***************************************************************************)
EXTENDS PathPlan, TLC

OneSource == <<"books">>
OneTarget == <<"documents", "mybooks">>
OneThumbFolder == <<"system", "thumbnails">>
OneStock == {<<"documents">>, <<"system">>}

(* "ab" is the only name that begins with another one. *)
NameStartsWith(n, m) == n = m \/ <<n, m>> = <<"ab", "a">>

(* Names of a book without its extension: x.mobi and x.azw3 share theirs.  *)
IndexNames ==
  ("x.mobi" :> "x.apnx") @@ ("x.azw3" :> "x.apnx") @@ ("y.mobi" :> "y.apnx")
SdrNames ==
  ("x.mobi" :> "x.sdr") @@ ("x.azw3" :> "x.sdr") @@ ("y.mobi" :> "y.sdr")

(* Two books in nested directories. *)
NestedBooks   == {<<"a", "x.mobi">>, <<"a", "d", "y.mobi">>}
NestedIndexes == {<<"a", "x.sdr", "x.apnx">>, <<"a", "d", "y.apnx">>}
NestedOwn     == {<<"a", "x.sdr", "x.yjr">>}
TwoThumbs     == ("x.mobi" :> "tx.jpg") @@ ("x.azw3" :> "none") @@ ("y.mobi" :> "ty.jpg")

(* One book in two formats: the same base name, and the same ASIN, which   *)
(* names the thumbnail.                                                    *)
TwoFormats  == {<<"x.mobi">>, <<"x.azw3">>}
SharedIndex == {<<"x.apnx">>}
SharedThumb == [n \in {"x.mobi", "x.azw3", "y.mobi"} |-> "tx.jpg"]
NoThumbs    == [n \in {"x.mobi", "x.azw3", "y.mobi"} |-> "none"]

(* Books in directories one of whose names begins with the other. *)
SiblingBooks == {<<"a", "x.mobi">>, <<"ab", "y.mobi">>}
=============================================================================
