----------------------------- MODULE MCEventHub -----------------------------
(* Values for model-checking EventHub.                                     *)
EXTENDS EventHub, TLC

CONSTANTS w1, s1, r1, r2, b1

Symmetry == Permutations(Readers)
=============================================================================
