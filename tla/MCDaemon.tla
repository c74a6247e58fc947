------------------------------ MODULE MCDaemon ------------------------------
(* Values for model-checking Daemon.                                       *)
EXTENDS Daemon, TLC

CONSTANTS d1, d2, d3, c1, c2, p1, p2

MCSymmetry == Permutations(Daemons) \cup Permutations(Clients) \cup Permutations(Ports)
=============================================================================
