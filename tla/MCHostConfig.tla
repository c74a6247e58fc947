---------------------------- MODULE MCHostConfig ----------------------------
(* Values for model-checking HostConfig.                                   *)
EXTENDS HostConfig

CONSTANTS p1, p2, g1, g2, c1
=============================================================================
