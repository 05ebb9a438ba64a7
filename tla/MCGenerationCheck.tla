------------------------- MODULE MCGenerationCheck -------------------------
(***************************************************************************)
(* Bounds for model-checking GenerationCheck.  The checks run the same     *)
(* code, so permuting them changes no safety property.                     *)
(***************************************************************************)
EXTENDS GenerationCheck, TLC

CheckSymmetry == Permutations(Checks)

=============================================================================
