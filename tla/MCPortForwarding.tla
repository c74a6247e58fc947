-------------------------- MODULE MCPortForwarding --------------------------
(* Values for model-checking PortForwarding.                               *)
EXTENDS PortForwarding, TLC

CONSTANTS w1, p1, r1, c1, c2, g1, g2

\* One declared port per worker, wanted on its own number (a [[ports]] entry without a
\* "to"); the reserved port is not declared but may be asked for.
MCDeclared == [w \in Workers |-> [p \in Ports |-> IF p \in Reserved THEN None ELSE p]]
\* Remembered on another number than the declared one.
MCSaved == [w \in Workers |-> [p \in Ports |-> IF p \in Reserved THEN None ELSE r1]]
Symmetry == Permutations(Gos) \cup Permutations(Conns)
=============================================================================
