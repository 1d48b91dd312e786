--------------------------- MODULE MCBatchGeneration ---------------------------
(***************************************************************************)
(* An instance of BatchGeneration for TLC: two programs for two groups,    *)
(* and any part of a tree of outputs left by earlier runs.                 *)
(***************************************************************************)
EXTENDS BatchGeneration

CONSTANTS p1, p2

ProgramSymmetry == Permutations({p1, p2})
=============================================================================
