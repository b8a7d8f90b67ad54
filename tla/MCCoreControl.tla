---- MODULE MCCoreControl ----
(***************************************************************************)
(* Instances of CoreControl for TLC.  Commit b descends from a; x is on a  *)
(* branch of its own, as after a force push.                               *)
(***************************************************************************)
EXTENDS CoreControl, TLC

CONSTANTS a, b, x

ProcSymmetry == Permutations(Procs)
OneLine == {<<a, b>>} \cap (Commits \X Commits)
AllMoves == Commits \X Commits

(* Every commit declares and carries the same.                             *)
Same == [c \in Commits |-> {[path |-> "profile", content |-> 1]}]
Uniform == [c \in Commits |-> {1}]

(* x drops a repository that a and b declare.                              *)
Shrinking == [c \in Commits |-> IF c = x THEN {} ELSE {1}]

(* x adds a profile version that the others do not have.                   *)
Growing == [c \in Commits |-> {[path |-> d, content |-> 1] : d \in {x} \cap {c}}]

(* x holds something else under the path of a profile version of a and b.  *)
Changing == [c \in Commits |-> {[path |-> "profile", content |-> IF c = x THEN 2 ELSE 1]}]

(* The last transaction of the bound only after a rollback or an override. *)
Eventful ==
  lastSeq = MaxSeq - 1 => Cardinality(snapshots) + Cardinality(overrides) >= 2
====
