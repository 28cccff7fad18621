------------------------------ MODULE MCReclaim ------------------------------
(***************************************************************************)
(* Two objects on the two lines of one block, and two local variables: the *)
(* program can build a list or a cycle of both, take either apart through  *)
(* the other, and have one of them freed and its line given out again      *)
(* while the other still refers to it.                                     *)
(***************************************************************************)
EXTENDS Reclaim, TLC

CONSTANT b

OneBlock == [o \in Objects |-> b]

Symmetry == Permutations(Objects) \cup Permutations(Locals)
=============================================================================
