------------------------------ MODULE CmdRelay ------------------------------
(***************************************************************************)
(* A host command called from a container: internal/cmdrelay, the shim of  *)
(* cmd/worker/shim.go and the connection between them.                     *)
(*                                                                         *)
(*   shim -- wUp, wDown -- relay (cmd/sr) -- dUp, dDown -- Serve (device)  *)
(*                                                                         *)
(* The shim dials the worker's relay socket; the coordinator's relay dials *)
(* the device and pipes the two connections (bridgeConn) until either side *)
(* ends; Serve runs the tool and frames its output and exit code back.     *)
(* Three goroutines of Serve write frames under frameWriter.mu, each frame *)
(* in two writes.  "op run" and "op inject" are calls of "op read", one    *)
(* after the other, and then a step in the container.                      *)
(*                                                                         *)
(* What is abstracted: the request (its outcome at the device is a choice) *)
(* and the bytes of a chunk.  A call's connections share nothing with the  *)
(* next call's, which here waits until the device is done with the last.   *)
(***************************************************************************)
EXTENDS Integers, Sequences, FiniteSets

CONSTANTS
    Jobs,      \* the invocations considered
    Vars,      \* op run: environment variables; op inject: places in the template
    Refs,      \* op:// references
    Codes,     \* exit codes of a tool; -1 is one that a signal ended
    Cap,       \* pieces a connection holds in one direction
    MaxFaults, \* connections that break and interrupts, during an invocation
    None

Streams == {"stdout", "stderr"}
Pipes == {"wUp", "wDown", "dUp", "dDown"}
Ends == {"shim", "relayW", "relayD", "serve"}
Tags == Streams \cup {"exit", "header", "stdin", "stdinEOF"}
Piece == [part : {"head", "body", "whole"}, tag : Tags, n : Int]

\* An invocation: how it is done; whether its tool reads stdin to the end; which
\* reference stands where; the chunks of its stdin and those its tool may print.
Invocation == [kind : {"plain", "run", "inject"}, filter : BOOLEAN, refOf : [Vars -> Refs],
               inputs : Nat, outputs : Nat]

ASSUME BoundAssumption ==
    /\ Jobs \subseteq Invocation /\ Codes \subseteq -1..255
    /\ MaxFaults \in Nat /\ Cap \in Nat \ {0}
    /\ None \notin Seq(Piece) \cup Vars \cup Codes \cup Tags \cup {"main"}

VARIABLES
    job,  \* this invocation
    left, cur, env, cache, failed, ran,  \* opRun and opInject: the variables to
             \* visit, the one being read, what was read, the command ran
    spc, srd, status, ppc, sent, rendered,  \* Shim: its reader, the tag read,
             \* the code returned, the stdin pump, chunks it sent, its output
    q, open, cut,  \* pieces in flight, ends not closed, hops broken (or an interrupt)
    rpc, rdone,    \* the relay and the direction whose io.Copy returned first
    mpc, todo, lock,  \* Serve, the frames it has yet to write, frameWriter.mu
    gpc, cp,       \* Serve's stdin goroutine, cmd's two copying goroutines
    tool, code, tin, tinOpen, printed, copied,  \* the tool and its pipes
    okPrints,      \* history: [Refs -> SUBSET Nat], chunks of each "op read" that succeeded
    exitSent       \* history: Serve wrote all of its exit frame in this call

opVars == <<left, cur, env, cache, failed, ran>>
shimVars == <<spc, srd, status, ppc, sent, rendered>>
netVars == <<q, open, cut>>
relayVars == <<rpc, rdone>>
mainVars == <<mpc, todo, lock>>
toolVars == <<tool, code, tin, tinOpen, printed, copied>>
serveVars == <<mainVars, gpc, cp, toolVars>>
vars == <<job, opVars, shimVars, netVars, relayVars, serveVars, okPrints, exitSent>>

kind == job.kind
refOf == job.refOf
Zero == [s \in Streams |-> 0]
Off == [s \in Streams |-> "off"]
NoPieces == [p \in Pipes |-> <<>>]
Nothing == [s \in Streams |-> <<>>]

OpTypes ==
    /\ left \subseteq Vars /\ cur \in Vars \cup {None}
    /\ env \in [Vars -> Seq(Piece) \cup {None}]
    /\ cache \in [Refs -> Seq(Piece) \cup {None}]
    /\ failed \in BOOLEAN /\ ran \in BOOLEAN

ShimTypes ==
    /\ spc \in {"resolve", "dial", "header", "tag", "body", "returned", "over"}
    /\ srd \in Tags \cup {None} /\ status \in Int \cup {None}
    /\ ppc \in {"off", "pump"} /\ sent \in 0..job.inputs
    /\ rendered \in [Streams -> Seq(Piece)]

NetTypes ==
    /\ q \in [Pipes -> Seq(Piece)] /\ open \subseteq Ends /\ cut \subseteq {"w", "d", "caller"}
    /\ rpc \in {"off", "dial", "copy", "over"} /\ rdone \subseteq {"up", "down"}

ServeTypes ==
    /\ mpc \in {"off", "header", "wait", "write", "over"}
    /\ todo \in Seq({"stderr", "exit"} \X Int) /\ lock \in Streams \cup {"main", None}
    /\ gpc \in {"off", "read", "done"}
    /\ cp \in [Streams -> {"off", "read", "body", "done", "failed"}]
    /\ exitSent \in BOOLEAN

ToolTypes ==
    /\ tool \in {"none", "running", "exited"} /\ code \in Codes \cup {None}
    /\ tool = "exited" => code # None
    /\ tin \in Nat /\ tinOpen \in BOOLEAN
    /\ printed \in [Streams -> Nat] /\ copied \in [Streams -> Nat]
    /\ okPrints \in [Refs -> SUBSET Nat]

TypeOK == job \in Jobs /\ OpTypes /\ ShimTypes /\ NetTypes /\ ServeTypes /\ ToolTypes

Init ==
    /\ job \in Jobs
    /\ left = (IF kind = "plain" THEN {} ELSE Vars)
    /\ cur = None /\ failed = FALSE /\ ran = FALSE
    /\ env = [v \in Vars |-> None] /\ cache = [r \in Refs |-> None]
    /\ spc = (IF kind = "plain" THEN "dial" ELSE "resolve")
    /\ srd = None /\ status = None /\ ppc = "off" /\ sent = 0 /\ rendered = Nothing
    /\ q = NoPieces /\ open = {} /\ cut = {} /\ rpc = "off" /\ rdone = {}
    /\ mpc = "off" /\ todo = <<>> /\ lock = None /\ gpc = "off" /\ cp = Off
    /\ tool = "none" /\ code = None /\ tin = 0 /\ tinOpen = FALSE
    /\ printed = Zero /\ copied = Zero
    /\ okPrints = [r \in Refs |-> {}] /\ exitSent = FALSE
-----------------------------------------------------------------------------
(* A connection: what one end wrote is read, then its end.  A closed or broken *)
(* connection refuses writes; what nobody read goes with the end that closes.  *)

Writer == [wUp |-> "shim", wDown |-> "relayW", dUp |-> "relayD", dDown |-> "serve"]
Reader == [wUp |-> "relayW", wDown |-> "shim", dUp |-> "serve", dDown |-> "relayD"]
Hop == [wUp |-> "w", wDown |-> "w", dUp |-> "d", dDown |-> "d"]

Broken(p) == ~({Writer[p], Reader[p]} \subseteq open) \/ Hop[p] \in cut
CanWrite(p) == ~Broken(p) /\ Len(q[p]) < Cap
CanRead(p) == q[p] # <<>>
ReadEnds(p) == q[p] = <<>> /\ Broken(p)

Close(ends) ==
    /\ open' = open \ ends
    /\ q' = [p \in Pipes |-> IF Reader[p] \in ends THEN <<>> ELSE q[p]]
Push(p, x) == q' = [q EXCEPT ![p] = Append(@, x)]
Pop(p) == q' = [q EXCEPT ![p] = Tail(@)]
Whole(t) == [part |-> "whole", tag |-> t, n |-> 0]
HeadOf(t) == [part |-> "head", tag |-> t, n |-> 0]
BodyOf(t, k) == [part |-> "body", tag |-> t, n |-> k]
-----------------------------------------------------------------------------
(* The container: runShim, opRun, opInject and Shim. *)

DeviceIdle == mpc \in {"off", "over"} /\ gpc # "read" /\ tool # "running" /\ rpc \in {"off", "over"}

\* A reference seen before is taken from the cache.
FromCache(v) ==
    /\ spc = "resolve" /\ v \in left /\ cache[refOf[v]] # None
    /\ env' = [env EXCEPT ![v] = cache[refOf[v]]] /\ left' = left \ {v}
    /\ UNCHANGED <<job, cur, cache, failed, ran, shimVars, netVars, relayVars, serveVars,
                   okPrints, exitSent>>

\* relayCapture: "op read" with an empty stdin and its stdout in a buffer; a call
\* starts with nothing left of the last.
StartsRead(v) ==
    /\ spc = "resolve" /\ v \in left /\ DeviceIdle
    /\ cur' = v /\ left' = left \ {v} /\ spc' = "dial"
    /\ q' = NoPieces /\ open' = {} /\ rpc' = "off" /\ rdone' = {}
    /\ mpc' = "off" /\ todo' = <<>> /\ lock' = None /\ gpc' = "off" /\ cp' = Off
    /\ tool' = "none" /\ code' = None /\ tin' = 0 /\ tinOpen' = FALSE
    /\ printed' = Zero /\ copied' = Zero /\ exitSent' = FALSE
    /\ UNCHANGED <<job, env, cache, failed, ran, srd, status, ppc, sent, rendered, cut,
                   okPrints>>

\* A faulty opRun without the cache.
ReadsAgain(v) == StartsRead(v)

ReadsRef(v) == cache[refOf[v]] = None /\ StartsRead(v)

\* dialRelay: the socket in the container accepts, and ForwardCmd with it.
ShimDials ==
    /\ spc = "dial" /\ spc' = "header" /\ rpc' = "dial" /\ open' = {"shim", "relayW"}
    /\ UNCHANGED <<job, opVars, srd, status, ppc, sent, rendered, q, cut, rdone, serveVars,
                   okPrints, exitSent>>

\* Shim's deferred Close, and the code of its return.
Returns(c) ==
    /\ spc' = "returned" /\ status' = c /\ Close({"shim"}) /\ ppc' = "off"

DialFails ==
    /\ spc = "dial" /\ Returns(127)
    /\ UNCHANGED <<job, opVars, srd, sent, rendered, cut, relayVars, serveVars,
                   okPrints, exitSent>>

ShimHeader ==
    /\ spc = "header"
    /\ IF Broken("wUp")
       THEN Returns(127)
       ELSE /\ CanWrite("wUp") /\ Push("wUp", Whole("header"))
            /\ spc' = "tag" /\ ppc' = "pump" /\ UNCHANGED <<status, open>>
    /\ UNCHANGED <<job, opVars, srd, sent, rendered, cut, relayVars, serveVars,
                   okPrints, exitSent>>

\* The stdin pump; a frame that cannot be sent ends it.
PumpSends ==
    /\ ppc = "pump" /\ sent < job.inputs /\ CanWrite("wUp")
    /\ Push("wUp", Whole("stdin")) /\ sent' = sent + 1
    /\ UNCHANGED <<job, opVars, spc, srd, status, ppc, rendered, open, cut, relayVars,
                   serveVars, okPrints, exitSent>>

\* A faulty pump: a last chunk that comes with the end of the input is lost.
PumpSendsEarlyEOF ==
    /\ ppc = "pump" /\ sent + 1 >= job.inputs /\ CanWrite("wUp")
    /\ Push("wUp", Whole("stdinEOF")) /\ ppc' = "off"
    /\ UNCHANGED <<job, opVars, spc, srd, status, sent, rendered, open, cut, relayVars,
                   serveVars, okPrints, exitSent>>

PumpSendsEOF ==
    /\ ppc = "pump" /\ sent = job.inputs /\ CanWrite("wUp")
    /\ Push("wUp", Whole("stdinEOF")) /\ ppc' = "off"
    /\ UNCHANGED <<job, opVars, spc, srd, status, sent, rendered, open, cut, relayVars,
                   serveVars, okPrints, exitSent>>

\* readFrame takes whatever comes first for a frame's head ...
ShimReadsTag ==
    /\ spc = "tag" /\ CanRead("wDown") /\ Pop("wDown")
    /\ spc' = "body" /\ srd' = Head(q["wDown"]).tag
    /\ UNCHANGED <<job, opVars, status, ppc, sent, rendered, open, cut, relayVars, serveVars,
                   okPrints, exitSent>>

\* ... and what follows for its payload.  An exit status keeps a code's low byte.
ShimReadsBody ==
    /\ spc = "body" /\ CanRead("wDown")
    /\ LET x == Head(q["wDown"]) IN
       IF srd = "exit"
       THEN Returns(x.n % 256) /\ UNCHANGED <<srd, rendered>>
       ELSE /\ rendered' = [rendered EXCEPT ![srd] = Append(@, x)]
            /\ Pop("wDown") /\ spc' = "tag" /\ srd' = None /\ UNCHANGED <<status, open, ppc>>
    /\ UNCHANGED <<job, opVars, sent, cut, relayVars, serveVars, okPrints, exitSent>>

LinkClosed ==
    /\ spc \in {"tag", "body"} /\ ReadEnds("wDown") /\ srd' = None /\ Returns(1)
    /\ UNCHANGED <<job, opVars, sent, rendered, cut, relayVars, serveVars,
                   okPrints, exitSent>>

\* The caller is interrupted: its process and its connection are gone.
ShimKilled ==
    /\ spc \notin {"returned", "over"} /\ Cardinality(cut) < MaxFaults
    /\ spc' = "over" /\ cut' = cut \cup {"caller"}
    /\ Close({"shim"}) /\ ppc' = "off" /\ srd' = None /\ rendered' = Nothing
    /\ UNCHANGED <<job, opVars, status, sent, relayVars, serveVars,
                   okPrints, exitSent>>

\* What runShim, opRun and opInject do with the code: opRun gives up at the
\* first failure, opInject leaves the reference and goes on.
AfterCall ==
    /\ spc = "returned" /\ cur' = None /\ srd' = None /\ rendered' = Nothing
    /\ IF kind # "plain" /\ status = 0
       THEN /\ env' = [env EXCEPT ![cur] = rendered["stdout"]]
            /\ cache' = [cache EXCEPT ![refOf[cur]] = rendered["stdout"]]
       ELSE UNCHANGED <<env, cache>>
    /\ failed' = (failed \/ (kind = "inject" /\ status # 0))
    /\ IF kind = "plain" \/ (kind = "run" /\ status # 0)
       THEN spc' = "over" /\ UNCHANGED status
       ELSE spc' = "resolve" /\ status' = None
    /\ UNCHANGED <<job, left, ran, ppc, sent, netVars, relayVars, serveVars,
                   okPrints, exitSent>>

\* op run executes the command here, op inject writes the file here, unless the
\* command is not found or the file cannot be written.
Completes ==
    /\ spc = "resolve" /\ left = {} /\ spc' = "over"
    /\ ran' \in BOOLEAN /\ (ran' => ~failed)
    /\ status' = (IF ran' THEN 0 ELSE IF failed \/ kind = "inject" THEN 1 ELSE 127)
    /\ UNCHANGED <<job, left, cur, env, cache, failed, srd, ppc, sent, rendered,
                   netVars, relayVars, serveVars, okPrints, exitSent>>
-----------------------------------------------------------------------------
(* The coordinator's relay, ForwardCmd and bridgeConn. *)

RelayDials ==
    /\ rpc = "dial"
    /\ \/ /\ rpc' = "copy" /\ mpc' = "header" /\ open' = open \cup {"relayD", "serve"}
          /\ UNCHANGED q
       \/ rpc' = "over" /\ Close({"relayW"}) /\ UNCHANGED mpc
    /\ UNCHANGED <<job, opVars, shimVars, cut, rdone, todo, lock, gpc, cp, toolVars,
                   okPrints, exitSent>>

From == [up |-> "wUp", down |-> "dDown"]
To == [up |-> "dUp", down |-> "wDown"]

RelayCopies(d) ==
    /\ rpc = "copy" /\ d \notin rdone /\ CanRead(From[d]) /\ CanWrite(To[d])
    /\ q' = [q EXCEPT ![From[d]] = Tail(@), ![To[d]] = Append(@, Head(q[From[d]]))]
    /\ UNCHANGED <<job, opVars, shimVars, open, cut, relayVars, serveVars, okPrints, exitSent>>

\* An io.Copy returns when its source ends or its destination refuses.
RelayEnds(d) ==
    /\ rpc = "copy" /\ rdone = {}
    /\ ReadEnds(From[d]) \/ (CanRead(From[d]) /\ Broken(To[d]))
    /\ rdone' = {d}
    /\ UNCHANGED <<job, opVars, shimVars, netVars, rpc, serveVars, okPrints, exitSent>>

\* A faulty bridge: the worker's connection is left open.
RelayClosesDevice ==
    /\ rpc = "copy" /\ rdone # {} /\ rpc' = "over" /\ rdone' = {} /\ Close({"relayD"})
    /\ UNCHANGED <<job, opVars, shimVars, cut, serveVars, okPrints, exitSent>>

\* The first to return closes both connections.
RelayCloses ==
    /\ rpc = "copy" /\ rdone # {} /\ rpc' = "over" /\ rdone' = {}
    /\ Close({"relayW", "relayD"})
    /\ UNCHANGED <<job, opVars, shimVars, cut, serveVars, okPrints, exitSent>>

\* The worker's ssh connection or the device's link breaks.
Cut(h) ==
    /\ spc # "over" /\ Cardinality(cut) < MaxFaults /\ h \notin cut
    /\ cut' = cut \cup {h} /\ q' = [p \in Pipes |-> IF Hop[p] = h THEN <<>> ELSE q[p]]
    /\ UNCHANGED <<job, opVars, shimVars, open, relayVars, serveVars, okPrints, exitSent>>
-----------------------------------------------------------------------------
(* The device: Serve, its goroutines, the tool. *)

ServeReturns == mpc' = "over" /\ Close({"serve"})

\* A command that is not exposed or not allowed (126), or does not start (127).
ServeRefuses(c) ==
    /\ mpc = "header" /\ CanRead("dUp") /\ Pop("dUp")
    /\ mpc' = "write" /\ todo' = << <<"stderr", 0>>, <<"exit", c>> >>
    /\ UNCHANGED <<job, opVars, shimVars, open, cut, relayVars, lock, gpc, cp, toolVars,
                   okPrints, exitSent>>

ServeStarts ==
    /\ mpc = "header" /\ CanRead("dUp") /\ Pop("dUp")
    /\ mpc' = "wait" /\ gpc' = "read" /\ cp' = [s \in Streams |-> "read"]
    /\ tool' = "running" /\ tinOpen' = TRUE
    /\ UNCHANGED <<job, opVars, shimVars, open, cut, relayVars, todo, lock, code, tin,
                   printed, copied, okPrints, exitSent>>

ServeNoHeader ==
    /\ mpc = "header" /\ ReadEnds("dUp") /\ ServeReturns
    /\ UNCHANGED <<job, opVars, shimVars, cut, relayVars, todo, lock, gpc, cp, toolVars,
                   okPrints, exitSent>>

ServeReports(c) ==
    /\ mpc = "wait" /\ tool = "exited" /\ mpc' = "write" /\ tinOpen' = FALSE
    /\ todo' = << <<"exit", c>> >>
    /\ UNCHANGED <<job, opVars, shimVars, netVars, relayVars, lock, gpc, cp, tool, code, tin,
                   printed, copied, okPrints, exitSent>>

CopiersReturned == \A s \in Streams : cp[s] \in {"done", "failed"}

\* A faulty wait: for the process only, whatever is left in its pipes.
ServeWaitsForProcess == ServeReports(code)

\* A faulty wait: an end by a signal is no error.
ServeWaitsIgnoresSignal == CopiersReturned /\ ServeReports(IF code < 0 THEN 0 ELSE code)

\* cmd.Wait: the process ended and both copying goroutines returned; a copy
\* that failed is an error of its own.
ServeWaits ==
    /\ CopiersReturned
    /\ ServeReports(IF code = 0 /\ \E s \in Streams : cp[s] = "failed" THEN 1 ELSE code)

\* A faulty frameWriter without its mutex.
WriteHeadUnlocked(w, t) == CanWrite("dDown") /\ Push("dDown", HeadOf(t)) /\ lock' = w

\* frameWriter.frame: the head and the payload are two writes under mu.
WriteHead(w, t) == lock = None /\ CanWrite("dDown") /\ Push("dDown", HeadOf(t)) /\ lock' = w
WriteBody(w, t, k) ==
    lock = w /\ CanWrite("dDown") /\ Push("dDown", BodyOf(t, k)) /\ lock' = None
WriteFails(w) == lock \in {None, w} /\ Broken("dDown") /\ lock' = None /\ UNCHANGED q

ServeFrame ==
    /\ mpc = "write" /\ todo # <<>>
    /\ LET t == Head(todo)[1]
           k == Head(todo)[2]
       IN  \/ WriteHead("main", t) /\ UNCHANGED <<todo, exitSent>>
           \/ WriteBody("main", t, k) /\ todo' = Tail(todo) /\ exitSent' = (t = "exit")
           \/ WriteFails("main") /\ todo' = Tail(todo) /\ UNCHANGED exitSent
    /\ UNCHANGED <<job, opVars, shimVars, open, cut, relayVars, mpc, gpc, cp, toolVars,
                   okPrints>>

ServeCloses ==
    /\ mpc = "write" /\ todo = <<>> /\ ServeReturns
    /\ UNCHANGED <<job, opVars, shimVars, cut, relayVars, todo, lock, gpc, cp, toolVars,
                   okPrints, exitSent>>

\* os/exec's goroutine of a stream: what the tool printed becomes a frame.
Copier(s) ==
    /\ \/ /\ cp[s] = "read" /\ copied[s] < printed[s] /\ WriteHead(s, s)
          /\ cp' = [cp EXCEPT ![s] = "body"] /\ UNCHANGED copied
       \/ /\ cp[s] = "body" /\ WriteBody(s, s, copied[s] + 1)
          /\ cp' = [cp EXCEPT ![s] = "read"] /\ copied' = [copied EXCEPT ![s] = @ + 1]
       \/ /\ cp[s] = "body" \/ (cp[s] = "read" /\ copied[s] < printed[s])
          /\ WriteFails(s) /\ cp' = [cp EXCEPT ![s] = "failed"] /\ UNCHANGED copied
       \/ /\ cp[s] = "read" /\ copied[s] = printed[s] /\ tool = "exited"
          /\ cp' = [cp EXCEPT ![s] = "done"] /\ UNCHANGED <<copied, q, lock>>
    /\ UNCHANGED <<job, opVars, shimVars, open, cut, relayVars, mpc, todo, gpc, tool, code,
                   tin, tinOpen, printed, okPrints, exitSent>>

\* The stdin goroutine writes a chunk into the tool's stdin ...
StdinChunk ==
    /\ gpc = "read" /\ CanRead("dUp") /\ Head(q["dUp"]).tag = "stdin" /\ Pop("dUp")
    /\ IF tool = "running"
       THEN tin' = tin + 1 /\ UNCHANGED <<gpc, tinOpen>>
       ELSE gpc' = "done" /\ tinOpen' = FALSE /\ UNCHANGED tin
    /\ UNCHANGED <<job, opVars, shimVars, open, cut, relayVars, mainVars, cp, tool, code,
                   printed, copied, okPrints, exitSent>>

\* A faulty goroutine: the tool's stdin is closed at STDIN_EOF only.
StdinEndsOpen ==
    /\ gpc = "read" /\ gpc' = "done"
    /\ \/ CanRead("dUp") /\ Head(q["dUp"]).tag = "stdinEOF" /\ Pop("dUp") /\ tinOpen' = FALSE
       \/ ReadEnds("dUp") /\ UNCHANGED <<q, tinOpen>>
    /\ UNCHANGED <<job, opVars, shimVars, open, cut, relayVars, mainVars, cp, tool, code, tin,
                   printed, copied, okPrints, exitSent>>

\* ... and closes it at STDIN_EOF or when the connection ends.
StdinEnds ==
    /\ gpc = "read"
    /\ \/ CanRead("dUp") /\ Head(q["dUp"]).tag = "stdinEOF" /\ Pop("dUp")
       \/ ReadEnds("dUp") /\ UNCHANGED q
    /\ gpc' = "done" /\ tinOpen' = FALSE
    /\ UNCHANGED <<job, opVars, shimVars, open, cut, relayVars, mainVars, cp, tool, code, tin,
                   printed, copied, okPrints, exitSent>>

ToolReads ==
    /\ tool = "running" /\ tin > 0 /\ tin' = tin - 1
    /\ UNCHANGED <<job, opVars, shimVars, netVars, relayVars, mainVars, gpc, cp, tool, code,
                   tinOpen, printed, copied, okPrints, exitSent>>

ToolPrints(s) ==
    /\ tool = "running" /\ printed["stdout"] + printed["stderr"] < job.outputs /\ cp[s] # "failed"
    /\ printed' = [printed EXCEPT ![s] = @ + 1]
    /\ UNCHANGED <<job, opVars, shimVars, netVars, relayVars, mainVars, gpc, cp, tool, code,
                   tin, tinOpen, copied, okPrints, exitSent>>

\* A filter ends at the end of its input, or when its output is refused.
ToolExits(c) ==
    /\ tool = "running"
    /\ job.filter => \/ tin = 0 /\ ~tinOpen
                 \/ \E s \in Streams : cp[s] = "failed"
    /\ tool' = "exited" /\ code' = c
    /\ okPrints' = IF cur = None \/ c # 0 THEN okPrints
                   ELSE [okPrints EXCEPT ![refOf[cur]] = @ \cup {printed["stdout"]}]
    /\ UNCHANGED <<job, opVars, shimVars, netVars, relayVars, mainVars, gpc, cp, tin, tinOpen,
                   printed, copied, exitSent>>
-----------------------------------------------------------------------------
Container ==
    \/ \E v \in Vars : FromCache(v) \/ ReadsRef(v)
    \/ ShimDials \/ DialFails \/ ShimHeader \/ ShimReadsTag \/ ShimReadsBody \/ LinkClosed
    \/ AfterCall \/ Completes
Pump == PumpSends \/ PumpSendsEOF
Serve == \/ \E c \in {126, 127} : ServeRefuses(c)
         \/ ServeStarts \/ ServeNoHeader \/ ServeWaits \/ ServeFrame \/ ServeCloses
Stdin == StdinChunk \/ StdinEnds
Exits == \E c \in Codes : ToolExits(c)

Next ==
    \/ Container \/ ShimKilled \/ Pump
    \/ RelayDials \/ RelayCloses
    \/ \E d \in {"up", "down"} : RelayCopies(d) \/ RelayEnds(d)
    \/ \E h \in {"w", "d"} : Cut(h)
    \/ Serve \/ Stdin \/ ToolReads \/ Exits
    \/ \E s \in Streams : Copier(s) \/ ToolPrints(s)

\* Every goroutine runs on; a stdin comes to its end and a tool reads its own and
\* exits.  Nobody need print, interrupt a call or break a connection.
Fairness ==
    /\ WF_vars(Container) /\ WF_vars(Pump) /\ WF_vars(RelayDials \/ RelayCloses)
    /\ \A d \in {"up", "down"} : WF_vars(RelayCopies(d) \/ RelayEnds(d))
    /\ WF_vars(Serve) /\ WF_vars(Stdin) /\ WF_vars(ToolReads \/ Exits)
    /\ \A s \in Streams : WF_vars(Copier(s))

Spec == Init /\ [][Next]_vars /\ Fairness
-----------------------------------------------------------------------------
Prefix(s, k) == [i \in 1..k |-> BodyOf(s, i)]

\* What the caller sees of a stream is what the tool printed there, in order,
\* without a gap or a foreign byte, whoever else writes frames; and the whole of
\* it once an exit code came back.  (A refusal is one chunk of stderr.)
OutputIsTheTools ==
    /\ tool # "none" =>
       \A s \in Streams : \E k \in 0..printed[s] : rendered[s] = Prefix(s, k)
    /\ spc = "returned" /\ srd = "exit" /\ tool # "none" =>
       \A s \in Streams : Len(rendered[s]) = printed[s]

\* Success is reported for a tool that succeeded; an exit code that came back is
\* the tool's own, or the refusal of a command that did not run.
StatusIsTheTools ==
    spc = "returned" /\ srd = "exit" =>
      IF tool = "none" THEN status \in {126, 127} ELSE tool = "exited" /\ status = code % 256

\* op run starts its command, and op inject writes its file, only with the whole
\* of what a successful "op read" printed in place of every reference ...
SecretsAreWhole ==
    ran => \A v \in Vars : \E k \in okPrints[refOf[v]] : env[v] = Prefix("stdout", k)

\* ... and with one value for a reference, however often it stands there and
\* whatever a second read would have returned.
OneValuePerReference ==
    ran => \A u, v \in Vars : refOf[u] = refOf[v] => env[u] = env[v]

\* A tool finds the end of its input early only if the connection ended.
InputEndsLate ==
    tool = "running" /\ ~tinOpen /\ sent < job.inputs =>
      cut # {} \/ "shim" \notin open

\* Each invocation ends, whatever the order in which its ten processes run.
CallsReturn == <>(spc = "over")

\* A tool does not outlive the call that wanted it: one that reads its input
\* to the end is told of the end when the connection goes.
ToolsEnd == tool = "running" ~> tool # "running"
=============================================================================
