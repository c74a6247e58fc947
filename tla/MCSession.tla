----------------------------- MODULE MCSession ------------------------------
(* Values for model-checking Session.                                      *)
EXTENDS Session

CONSTANTS c1, c2
=============================================================================
