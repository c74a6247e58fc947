----------------------------- MODULE MCCmdRelay -----------------------------
(* CmdRelay on small instances: a reference that stands in both places, and two *)
(* references; a tool that succeeds and one that a signal ends.                 *)
EXTENDS CmdRelay

CONSTANTS v1, v2, r1, r2

SomeVars == {v1, v2}
SomeRefs == {r1, r2}
Same == [v \in SomeVars |-> r1]
Two == [v \in SomeVars |-> IF v = v1 THEN r1 ELSE r2]
Job(k, f, r, i, o) == [kind |-> k, filter |-> f, refOf |-> r, inputs |-> i, outputs |-> o]
SomeJobs == {Job("plain", TRUE, Same, 1, 2), Job("plain", FALSE, Same, 1, 1),
             Job("run", FALSE, Two, 0, 1), Job("inject", FALSE, Same, 0, 1)}
SomeCodes == {0, -1}
=============================================================================
