--------------------------- MODULE TerminalStream ---------------------------
(***************************************************************************)
(* What a terminal attached to a session is promised: the end of the       *)
(* scrollback, then every later chunk of output in order, then the end of  *)
(* the stream after the last chunk.  Chunks are numbered from 1; showing   *)
(* one again is not a step.  Only a terminal that did not keep up, or left,*)
(* is promised nothing.                                                    *)
(***************************************************************************)
EXTENDS Naturals

CONSTANTS Clients, None

VARIABLES
    written, \* how many chunks the session has produced
    over,    \* the session exited
    screen,  \* [Clients -> [from, upto] or None]: the chunks a client has been shown
    slow,    \* clients that did not keep up
    ended    \* clients whose stream the server ended

vars == <<written, over, screen, slow, ended>>

Init ==
    /\ written = 0
    /\ over = FALSE
    /\ screen = [c \in Clients |-> None]
    /\ slow = {}
    /\ ended = {}

Produce ==
    /\ ~over
    /\ written' = written + 1
    /\ UNCHANGED <<over, screen, slow, ended>>

Finish ==
    /\ over' = TRUE
    /\ UNCHANGED <<written, screen, slow, ended>>

\* The scrollback reaches up to the present.
Replay(c) ==
    /\ screen[c] = None
    /\ \E from \in 1..written + 1 :
          screen' = [screen EXCEPT ![c] = [from |-> from, upto |-> written]]
    /\ UNCHANGED <<written, over, slow, ended>>

Show(c) ==
    /\ screen[c] # None
    /\ \E n \in screen[c].upto + 1..written :
          /\ c \notin slow => n = screen[c].upto + 1
          /\ screen' = [screen EXCEPT ![c].upto = n]
    /\ UNCHANGED <<written, over, slow, ended>>

FallBehind ==
    /\ \E lagging \in SUBSET Clients : slow' = slow \cup lagging
    /\ UNCHANGED <<written, over, screen, ended>>

EndStream(c) ==
    /\ c \in slow \/ (over /\ screen[c] # None /\ screen[c].upto = written)
    /\ ended' = ended \cup {c}
    /\ UNCHANGED <<written, over, screen, slow>>

Next ==
    \/ Produce \/ Finish \/ FallBehind
    \/ \E c \in Clients : Replay(c) \/ Show(c) \/ EndStream(c)

Spec == Init /\ [][Next]_vars
=============================================================================
