----------------------------- MODULE MCEvacuation -----------------------------
(***************************************************************************)
(* An object in the block being emptied, one that stays put, which is the  *)
(* worker's state, and one that comes into being during the trace, with    *)
(* any graph between the first two to begin with, and one that is garbage  *)
(* already; or the first two both in the block (MCEvacuationState).        *)
(* What comes after another worker's evacuation has moved something is not *)
(* what the properties are about, and is not followed.                     *)
(***************************************************************************)
EXTENDS Evacuation, TLC

CONSTANTS a, b, c, d

NobodyElseMoves == ~early

Symmetry == Permutations(Locals)
=============================================================================
