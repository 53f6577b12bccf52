---------------------------- MODULE MCMtpDevice ----------------------------
(***************************************************************************)
(* Instances of MtpDevice for TLC: one book in a directory and one beside  *)
(* it, a page index and a thumbnail.                                       *)
(***************************************************************************)
EXTENDS MtpDevice, TLC

OneSource == <<"books">>
OneTarget == <<"documents", "mybooks">>
OneThumbFolder == <<"system", "thumbnails">>
OneStock == {<<"documents">>, <<"system">>}
NameStartsWith(n, m) == n = m

OneBook == {<<"x.mobi">>}
TwoBooks == {<<"x.mobi">>, <<"d", "y.mobi">>}
OneIndex == {<<"d", "y.sdr", "y.apnx">>}
IndexNames == ("x.mobi" :> "x.apnx") @@ ("y.mobi" :> "y.apnx")
SdrNames == ("x.mobi" :> "x.sdr") @@ ("y.mobi" :> "y.sdr")
TenIds == {<<"new", n>> : n \in {"1", "2", "3", "4", "5", "6", "7", "8", "9", "10"}}

OneThumb == ("x.mobi" :> "none") @@ ("y.mobi" :> "ty.jpg")
=============================================================================
