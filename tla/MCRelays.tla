------------------------------ MODULE MCRelays ------------------------------
(* Values for model-checking Relays.                                       *)
EXTENDS Relays

CONSTANTS w1, w2, g1, g2, g3
=============================================================================
