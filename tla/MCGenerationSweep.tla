------------------------- MODULE MCGenerationSweep -------------------------
(***************************************************************************)
(* Two runs of the sweep for model-checking GenerationSweep: overlapping   *)
(* in one process, which share its slots, or on a replica each.            *)
(***************************************************************************)
EXTENDS GenerationSweep, TLC

CONSTANTS q1, q2, p1, p2

OneProcess == [r \in Runs |-> p1]
TwoProcesses == [r \in Runs |-> IF r = q1 THEN p1 ELSE p2]

\* Sound where every run belongs to the same process.
RunSymmetry == Permutations(Runs)

=============================================================================
