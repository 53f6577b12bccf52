-------------------------- MODULE MCConfigurations --------------------------
(***************************************************************************)
(* Instances of Configurations for TLC.                                    *)
(***************************************************************************)
EXTENDS Configurations

CONSTANTS s1, s2, d1, d2, fiction, nonfiction, b1, b2, c1, c2

Profile(s, d, t) == [source |-> s, device |-> d, target |-> t]

(* Each source has a directory of the first device for itself, and both    *)
(* use one of the second device.                                           *)
Mixed ==
  {Profile(s1, d1, fiction), Profile(s2, d1, nonfiction),
   Profile(s1, d2, fiction), Profile(s2, d2, fiction)}

(* Two sources for one directory of one device. *)
SharedPlace == {Profile(s1, d1, fiction), Profile(s2, d1, fiction)}

(* To begin with all books are in their first version; one source has      *)
(* both, the other one has both or one.  The rest is up to the edits.      *)
MCInit ==
  /\ Init
  /\ \A s \in Sources : local[s] \in [Books -> {c1, Absent}]
  /\ Keys(local[s1]) = Books /\ Keys(local[s2]) \in {Books, {b1}}

MCSpec == MCInit /\ [][Next]_vars /\ Fairness
=============================================================================
