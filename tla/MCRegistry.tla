----------------------------- MODULE MCRegistry -----------------------------
(* Values for model-checking Registry.                                     *)
EXTENDS Registry, TLC

CONSTANTS w1, w2, p1, p2, g1, g2

\* One container runs, another has exited.
MCFound == [w \in Workers |->
    IF w = w1 THEN [st |-> "running", port |-> p1, tok |-> 1]
              ELSE [st |-> "exited", port |-> None, tok |-> 2]]
=============================================================================
