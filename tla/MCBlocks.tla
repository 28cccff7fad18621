------------------------------ MODULE MCBlocks ------------------------------
(***************************************************************************)
(* Blocks of two lines of two granules. An object is one granule; or two,  *)
(* and so large, and yet small enough to lie in a hole, to be on both      *)
(* lines, and to be moved out of a sparse block.                           *)
(***************************************************************************)
EXTENDS Blocks

TwoSizes == {1, 2}
=============================================================================
