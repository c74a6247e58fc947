----------------------------- MODULE MCDensity -----------------------------
(* Values for model-checking Density.                                      *)
EXTENDS Density, TLC

CONSTANTS w1, h1

\* The container runs.
MCFound == [w \in Workers |-> [st |-> "running", port |-> 1]]
=============================================================================
