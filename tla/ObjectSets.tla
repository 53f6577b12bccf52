----------------------------- MODULE ObjectSets -----------------------------
(***************************************************************************)
(* objects/infoset.go with the paths that BookSync leaves out.  A path is  *)
(* the sequence of its names; an ObjectInfoSet is a set of objects with    *)
(* different paths, which are its keys.                                    *)
(***************************************************************************)
EXTENDS Sequences, Integers

CONSTANT StartsWith(_, _)  \* StartsWith(n, m): the name n begins with the name m

Parent(p) == SubSeq(p, 1, Len(p) - 1)

Name(p) == p[Len(p)]

IsUnder(p, dir) == Len(dir) < Len(p) /\ SubSeq(p, 1, Len(dir)) = dir

(* The objects stored under a key: one, or none for nil. *)
Find(ois, p) == {o \in ois : o.path = p}

Add(ois, o) == {x \in ois : x.path # o.path} \cup {o}

Delete(ois, p) == {o \in ois : o.path # p}

(* strings.HasPrefix on the written paths: the last name of dir may match  *)
(* a longer name.                                                          *)
HasPrefix(p, dir) ==
  /\ Len(dir) <= Len(p)
  /\ SubSeq(p, 1, Len(dir) - 1) = Parent(dir)
  /\ StartsWith(p[Len(dir)], Name(dir))

(* SubsetByPath: the files in and the directories below dir, and whatever  *)
(* lies under a path that is written with dir as its beginning.            *)
SubsetByPath(ois, dir) ==
  {o \in ois :
     /\ o.dir => o.path # dir
     /\ HasPrefix(IF o.dir THEN o.path ELSE Parent(o.path), dir)}

(* A path with its root replaced by another. *)
Reroot(p, from, to) == to \o SubSeq(p, Len(from) + 1, Len(p))
=============================================================================
