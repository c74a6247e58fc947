------------------------------ MODULE Session -------------------------------
(***************************************************************************)
(* One session of a worker (internal/session) and the terminals attached   *)
(* to it (handleTermWS, internal/server/server.go): the process behind a   *)
(* PTY, the goroutine that reads its output and sees it exit, the monitor  *)
(* that tells running from idle, the manager that creates, lists and kills *)
(* it, the journal and the event stream.                                   *)
(*                                                                         *)
(* Output is counted in chunks, one Read of the PTY each; the ring holds   *)
(* whole chunks.  Time is what Session.mu's holders read of it: whether    *)
(* the last counted output is within activeWindow (recent) and whether the *)
(* window after a resize is still open (quiet).                            *)
(***************************************************************************)
EXTENDS Naturals, Sequences

CONSTANTS
    Clients,   \* terminal websockets
    MaxChunks, \* bounds how many chunks the process writes
    RingCap,   \* ringBytes, in chunks
    SubCap,    \* capacity of a subscriber's channel (512)
    None       \* nil

ASSUME SizeAssumption ==
    /\ MaxChunks \in Nat
    /\ RingCap \in Nat \ {0}
    /\ SubCap \in Nat \ {0}
    /\ None \notin [from : Nat, upto : Nat]

State == {"idle", "running", "exited"}

VARIABLES
    crpc,    \* Manager.Create: "new", "journal", "done"
    klpc,    \* Manager.Kill: "none", "kill", "done"
    rdpc,    \* readLoop: "none", "read", "deliver", "wait", "journal", "emit", "done"
    mnpc,    \* monitor: "none", "tick", "emit", "done"
    listed,  \* Manager.sessions has it
    alive,   \* the process
    written, \* chunks that went into the ring; the ring holds the last RingCap of them
    state,   \* Session.state
    recent,  \* lastOutput is within activeWindow
    quiet,   \* now is before suppressUntil
    event,   \* the state the monitor is about to emit
    news,    \* the last state emitted, None before the first
    jnl,     \* the session's journal entries
    tmpc,    \* [Clients -> {"new", "got", "subscribed", "stream", "gone", "ended"}]
    subs,    \* Session.subs
    buf,     \* [Clients -> Seq(1..MaxChunks)]: the subscriber's channel
    shut,    \* clients whose channel was closed
    screen,  \* [Clients -> [from, upto] or None]: what was sent on the websocket
    slow,    \* history: clients a chunk was dropped for
    work     \* history: output was counted since the session last became idle

sessionVars == <<crpc, klpc, listed, alive>>
monitorVars == <<mnpc, state, recent, quiet, event, news, work>>
clientVars == <<tmpc, subs, buf, shut, screen, slow>>
vars == <<sessionVars, rdpc, written, monitorVars, jnl, clientVars>>

TypeOK ==
    /\ crpc \in {"new", "journal", "done"}
    /\ klpc \in {"none", "kill", "done"}
    /\ rdpc \in {"none", "read", "deliver", "wait", "journal", "emit", "done"}
    /\ mnpc \in {"none", "tick", "emit", "done"}
    /\ listed \in BOOLEAN
    /\ alive \in BOOLEAN
    /\ written \in 0..MaxChunks
    /\ state \in State
    /\ recent \in BOOLEAN
    /\ quiet \in BOOLEAN
    /\ event \in State \cup {None}
    /\ news \in State \cup {None}
    /\ jnl \in Seq({"start", "exit"})
    /\ tmpc \in [Clients -> {"new", "got", "subscribed", "stream", "gone", "ended"}]
    /\ subs \subseteq Clients
    /\ buf \in [Clients -> Seq(1..MaxChunks)]
    /\ \A c \in Clients : Len(buf[c]) <= SubCap
    /\ shut \subseteq Clients
    /\ screen \in [Clients -> [from : 1..MaxChunks + 1, upto : 0..MaxChunks] \cup {None}]
    /\ slow \subseteq Clients
    /\ work \in BOOLEAN

Init ==
    /\ crpc = "new" /\ klpc = "none" /\ rdpc = "none" /\ mnpc = "none"
    /\ listed = FALSE
    /\ alive = FALSE
    /\ written = 0
    /\ state = "idle"
    /\ recent = FALSE
    /\ quiet = FALSE
    /\ event = None
    /\ news = None
    /\ jnl = <<>>
    /\ tmpc = [c \in Clients |-> "new"]
    /\ subs = {}
    /\ buf = [c \in Clients |-> <<>>]
    /\ shut = {}
    /\ screen = [c \in Clients |-> None]
    /\ slow = {}
    /\ work = FALSE

-----------------------------------------------------------------------------
(* Manager.                                                                *)

\* Create, up to the unlock: the process runs and the session can be found.  Its start
\* counts as output.
Create ==
    /\ crpc = "new"
    /\ crpc' = "journal"
    /\ listed' = TRUE
    /\ alive' = TRUE
    /\ recent' = TRUE
    /\ work' = TRUE
    /\ UNCHANGED <<klpc, rdpc, written, mnpc, state, quiet, event, news, jnl, clientVars>>

\* A faulty Create: starts the goroutines before it writes the journal.
CreateStartsEarly ==
    /\ crpc = "journal"
    /\ IF rdpc = "none"
       THEN rdpc' = "read" /\ mnpc' = "tick" /\ UNCHANGED <<crpc, jnl>>
       ELSE crpc' = "done" /\ jnl' = Append(jnl, "start") /\ UNCHANGED <<rdpc, mnpc>>
    /\ UNCHANGED <<klpc, listed, alive, written, state, recent, quiet, event, news, work, clientVars>>

\* Create, the rest: the journal entry, then the two goroutines.
CreateStarts ==
    /\ crpc = "journal"
    /\ crpc' = "done"
    /\ jnl' = Append(jnl, "start")
    /\ rdpc' = "read"
    /\ mnpc' = "tick"
    /\ UNCHANGED <<klpc, listed, alive, written, state, recent, quiet, event, news, work, clientVars>>

\* Kill forgets the session under Manager.mu ...
Kill ==
    /\ listed
    /\ listed' = FALSE
    /\ klpc' = "kill"
    /\ UNCHANGED <<crpc, alive, rdpc, written, monitorVars, jnl, clientVars>>

\* ... and kills the process after it.
KillProcess ==
    /\ klpc = "kill"
    /\ klpc' = "done"
    /\ alive' = FALSE
    /\ UNCHANGED <<crpc, listed, rdpc, written, monitorVars, jnl, clientVars>>

ProcessExits ==
    /\ alive
    /\ alive' = FALSE
    /\ UNCHANGED <<crpc, klpc, listed, rdpc, written, monitorVars, jnl, clientVars>>

-----------------------------------------------------------------------------
(* readLoop and handleExit.                                                *)

\* What the process wrote can be read after it died, too.
ReadChunk ==
    /\ rdpc = "read"
    /\ written < MaxChunks
    /\ written' = written + 1
    /\ rdpc' = "deliver"
    /\ UNCHANGED <<sessionVars, monitorVars, jnl, clientVars>>

\* A faulty readLoop: counts a repaint as activity.
DeliverCountsAll ==
    /\ rdpc = "deliver"
    /\ rdpc' = "read"
    /\ recent' = TRUE
    /\ work' = (work \/ ~quiet)
    /\ LET full == {c \in subs : Len(buf[c]) = SubCap}
       IN /\ buf' = [c \in Clients |-> IF c \in subs \ full THEN Append(buf[c], written) ELSE buf[c]]
          /\ slow' = slow \cup full
    /\ UNCHANGED <<sessionVars, written, mnpc, state, quiet, event, news, jnl, tmpc, subs, shut, screen>>

\* Under Session.mu: the output counts unless the resize window is open, and goes to
\* every subscriber whose channel has room.
Deliver ==
    /\ rdpc = "deliver"
    /\ rdpc' = "read"
    /\ recent' = (recent \/ ~quiet)
    /\ work' = (work \/ ~quiet)
    /\ LET full == {c \in subs : Len(buf[c]) = SubCap}
       IN /\ buf' = [c \in Clients |-> IF c \in subs \ full THEN Append(buf[c], written) ELSE buf[c]]
          /\ slow' = slow \cup full
    /\ UNCHANGED <<sessionVars, written, mnpc, state, quiet, event, news, jnl, tmpc, subs, shut, screen>>

\* The PTY has no other end any more: the process died, or closed it and lives on.
ReadFails ==
    /\ rdpc = "read"
    /\ rdpc' = "wait"
    /\ UNCHANGED <<sessionVars, written, monitorVars, jnl, clientVars>>

\* A faulty handleExit: forgets the subscribers without closing their channels.
HandleExitSilently ==
    /\ rdpc = "wait"
    /\ ~alive
    /\ rdpc' = "journal"
    /\ state' = "exited"
    /\ subs' = {}
    /\ UNCHANGED <<sessionVars, written, mnpc, recent, quiet, event, news, work, jnl,
                   tmpc, buf, shut, screen, slow>>

\* handleExit: cmd.Wait, then under Session.mu the state and the end of every subscription.
HandleExit ==
    /\ rdpc = "wait"
    /\ ~alive
    /\ rdpc' = "journal"
    /\ state' = "exited"
    /\ shut' = shut \cup subs
    /\ subs' = {}
    /\ UNCHANGED <<sessionVars, written, mnpc, recent, quiet, event, news, work, jnl,
                   tmpc, buf, screen, slow>>

\* A faulty handleExit: journals only a session the manager still lists.
JournalExitIfListed ==
    /\ rdpc = "journal"
    /\ rdpc' = "emit"
    /\ jnl' = IF listed THEN Append(jnl, "exit") ELSE jnl
    /\ UNCHANGED <<sessionVars, written, monitorVars, clientVars>>

JournalExit ==
    /\ rdpc = "journal"
    /\ rdpc' = "emit"
    /\ jnl' = Append(jnl, "exit")
    /\ UNCHANGED <<sessionVars, written, monitorVars, clientVars>>

EmitExit ==
    /\ rdpc = "emit"
    /\ rdpc' = "done"
    /\ news' = "exited"
    /\ UNCHANGED <<sessionVars, written, mnpc, state, recent, quiet, event, work, jnl, clientVars>>

-----------------------------------------------------------------------------
(* monitor.                                                                *)

\* A faulty monitor: does not look whether the session exited.
TickAfterExit ==
    /\ mnpc = "tick"
    /\ \/ recent /\ state # "running" /\ state' = "running"
       \/ ~recent /\ state = "running" /\ state' = "idle"
    /\ event' = state'
    /\ mnpc' = "emit"
    /\ work' = (work /\ state' # "idle")
    /\ UNCHANGED <<sessionVars, rdpc, written, recent, quiet, news, jnl, clientVars>>

\* A faulty monitor: has an event only for a session that gets busy.
TickQuietly ==
    /\ mnpc = "tick"
    /\ \/ recent /\ state = "idle" /\ state' = "running" /\ mnpc' = "emit"
       \/ ~recent /\ state = "running" /\ state' = "idle" /\ mnpc' = "tick"
    /\ event' = IF mnpc' = "emit" THEN state' ELSE event
    /\ work' = (work /\ state' # "idle")
    /\ UNCHANGED <<sessionVars, rdpc, written, recent, quiet, news, jnl, clientVars>>

\* A tick that changes the state; the event waits for the unlock.
Tick ==
    /\ mnpc = "tick"
    /\ \/ recent /\ state = "idle" /\ state' = "running"
       \/ ~recent /\ state = "running" /\ state' = "idle"
    /\ event' = state'
    /\ mnpc' = "emit"
    /\ work' = (work /\ state' # "idle")
    /\ UNCHANGED <<sessionVars, rdpc, written, recent, quiet, news, jnl, clientVars>>

EmitChange ==
    /\ mnpc = "emit"
    /\ mnpc' = "tick"
    /\ news' = event
    /\ event' = None
    /\ UNCHANGED <<sessionVars, rdpc, written, state, recent, quiet, work, jnl, clientVars>>

MonitorReturns ==
    /\ mnpc = "tick"
    /\ state = "exited"
    /\ mnpc' = "done"
    /\ UNCHANGED <<sessionVars, rdpc, written, state, recent, quiet, event, news, work, jnl, clientVars>>

\* activeWindow passes without output.
OutputAges ==
    /\ recent
    /\ recent' = FALSE
    /\ UNCHANGED <<sessionVars, rdpc, written, mnpc, state, quiet, event, news, work, jnl, clientVars>>

\* resizeQuiet passes without a resize.
QuietEnds ==
    /\ quiet
    /\ quiet' = FALSE
    /\ UNCHANGED <<sessionVars, rdpc, written, mnpc, state, recent, event, news, work, jnl, clientVars>>

-----------------------------------------------------------------------------
(* handleTermWS, one per terminal: its reader and its writer goroutine.    *)

\* s.mgr.Get
Open(c) ==
    /\ tmpc[c] = "new"
    /\ listed
    /\ tmpc' = [tmpc EXCEPT ![c] = "got"]
    /\ UNCHANGED <<sessionVars, rdpc, written, monitorVars, jnl, subs, buf, shut, screen, slow>>

\* What the ring holds.
Scrollback == [from |-> IF written > RingCap THEN written - RingCap + 1 ELSE 1, upto |-> written]

\* A faulty handleTermWS: takes the snapshot first and subscribes then.
SubscribeLate(c) ==
    /\ tmpc[c] = "got"
    /\ IF screen[c] = None
       THEN screen' = [screen EXCEPT ![c] = Scrollback] /\ UNCHANGED <<tmpc, subs, shut>>
       ELSE /\ tmpc' = [tmpc EXCEPT ![c] = "stream"]
            /\ IF state = "exited"
               THEN shut' = shut \cup {c} /\ UNCHANGED subs
               ELSE subs' = subs \cup {c} /\ UNCHANGED shut
            /\ UNCHANGED screen
    /\ UNCHANGED <<sessionVars, rdpc, written, monitorVars, jnl, buf, slow>>

\* sess.Subscribe, before the snapshot is taken.
Subscribe(c) ==
    /\ tmpc[c] = "got"
    /\ tmpc' = [tmpc EXCEPT ![c] = "subscribed"]
    /\ IF state = "exited"
       THEN shut' = shut \cup {c} /\ UNCHANGED subs
       ELSE subs' = subs \cup {c} /\ UNCHANGED shut
    /\ UNCHANGED <<sessionVars, rdpc, written, monitorVars, jnl, buf, screen, slow>>

\* The writer sends the ring's content.
Snapshot(c) ==
    /\ tmpc[c] = "subscribed"
    /\ tmpc' = [tmpc EXCEPT ![c] = "stream"]
    /\ screen' = [screen EXCEPT ![c] = Scrollback]
    /\ UNCHANGED <<sessionVars, rdpc, written, monitorVars, jnl, subs, buf, shut, slow>>

\* The writer sends a chunk from the channel; one the snapshot held is sent again.
Forward(c) ==
    /\ tmpc[c] = "stream"
    /\ buf[c] # <<>>
    /\ LET n == Head(buf[c])
       IN screen' = [screen EXCEPT ![c].upto = IF n > @ THEN n ELSE @]
    /\ buf' = [buf EXCEPT ![c] = Tail(@)]
    /\ UNCHANGED <<sessionVars, rdpc, written, monitorVars, jnl, tmpc, subs, shut, slow>>

\* A closed channel is drained first; then the writer closes the websocket.
StreamEnds(c) ==
    /\ tmpc[c] = "stream"
    /\ buf[c] = <<>>
    /\ c \in shut
    /\ tmpc' = [tmpc EXCEPT ![c] = "ended"]
    /\ UNCHANGED <<sessionVars, rdpc, written, monitorVars, jnl, subs, buf, shut, screen, slow>>

\* The websocket fails or is closed by the browser: cancel.
Leave(c) ==
    /\ tmpc[c] \in {"subscribed", "stream"}
    /\ tmpc' = [tmpc EXCEPT ![c] = "gone"]
    /\ subs' = subs \ {c}
    /\ shut' = shut \cup {c}
    /\ buf' = [buf EXCEPT ![c] = <<>>]
    /\ UNCHANGED <<sessionVars, rdpc, written, monitorVars, jnl, screen, slow>>

\* A "resize" message; the process repaints.
Resize(c) ==
    /\ tmpc[c] \in {"subscribed", "stream"}
    /\ ~quiet
    /\ quiet' = TRUE
    /\ UNCHANGED <<sessionVars, rdpc, written, mnpc, state, recent, event, news, work, jnl, clientVars>>

-----------------------------------------------------------------------------
ManagerStep == CreateStarts \/ KillProcess
ReadLoop == ReadChunk \/ Deliver \/ ReadFails \/ HandleExit \/ JournalExit \/ EmitExit
Monitor == Tick \/ EmitChange \/ MonitorReturns
Writer(c) == Snapshot(c) \/ Forward(c) \/ StreamEnds(c)

Next ==
    \/ Create \/ Kill \/ ManagerStep
    \/ ProcessExits \/ OutputAges \/ QuietEnds
    \/ ReadLoop \/ Monitor
    \/ \E c \in Clients : Open(c) \/ Subscribe(c) \/ Writer(c) \/ Leave(c) \/ Resize(c)

Spec == Init /\ [][Next]_vars

\* The goroutines are scheduled; Read returns an error once the process is dead and its
\* output read (the controlling terminal hangs up with its session leader); a websocket
\* write ends within writeWait, or the terminal is gone.
Fairness ==
    /\ WF_vars(ManagerStep)
    /\ WF_vars(Deliver \/ HandleExit \/ JournalExit \/ EmitExit \/ (ReadFails /\ ~alive))
    /\ \A c \in Clients : WF_vars(Writer(c))

FairSpec == Spec /\ Fairness

-----------------------------------------------------------------------------
(* Properties.                                                             *)

\* A terminal that keeps up sees the scrollback and every later chunk, with none missing
\* between the two, and its stream ends only after the last: see TerminalStream.
Stream == INSTANCE TerminalStream
            WITH over <- state = "exited",
                 ended <- {c \in Clients : tmpc[c] = "ended"}
StreamSpec == Stream!Spec

\* Whoever is attached when the process dies is told so, whatever else is going on: its
\* stream is drained and ended.
AttachedSeeTheEnd ==
    \A c \in Clients :
        (tmpc[c] \in {"subscribed", "stream"} /\ ~alive) ~> (tmpc[c] \in {"ended", "gone"})

\* The journal of a session is its start, then its exit: also when it is killed before the
\* start is written, or exits at once.
JournalInOrder == jnl \in {<<>>, <<"start">>, <<"start", "exit">>}

\* A session that is killed, though no longer listed, still gets its exit journalled.
KilledIsJournalled == klpc # "none" ~> jnl = <<"start", "exit">>

\* Exited is final: no tick of the monitor that overlaps handleExit revives the session.
ExitedIsFinal == [][state = "exited" => state' = "exited"]_vars

\* A session is running because of output that counts: a repaint after a resize, however
\* it overlaps the windows and the ticks, never makes an idle session run.
RunningMeansWork == state = "running" => work

\* session.go: an "Event is emitted on every state transition".  Between the monitor's ticks
\* the last event tells the state of a session that lives.  (Of one that exited it need not:
\* EmitChange may come after EmitExit.)
NewsIsState ==
    mnpc = "tick" /\ state # "exited" => news = state \/ (news = None /\ state = "idle")
=============================================================================
