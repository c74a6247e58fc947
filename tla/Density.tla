------------------------------ MODULE Density ------------------------------
(***************************************************************************)
(* Pausing, stopping and waking workers: the idle reaper, lazy resume      *)
(* (cmd/sr/density.go) and the handlers that act on containers             *)
(* (coordinator.go, ensureWorker in worker.go).                            *)
(*                                                                         *)
(* All of them act on the registry's entry, read a while ago.  The reaper  *)
(* looks at the activity clock, asks the worker whether it is busy, and    *)
(* pauses it: three steps, with others in between.  A request to a frozen  *)
(* container gets no answer until the container is thawed.                 *)
(*                                                                         *)
(* A port is the number of the start that published it: docker hands out a *)
(* new one each time.  Ports that are handed out again, tokens, and the    *)
(* registry's writes one by one are the subject of module Registry; a      *)
(* reconcile is two steps here.                                            *)
(***************************************************************************)
EXTENDS Naturals, FiniteSets

CONSTANTS
    Workers,   \* worker ids
    Handlers,  \* goroutines of HTTP handlers
    Ticker,    \* the goroutine that reconciles on a timer
    Reaper,    \* the goroutine that reaps on a timer
    Found,     \* [Workers -> Container]: the containers there are at the start
    MaxEvents, \* bounds the requests and what happens outside the coordinator
    None       \* no worker, no snapshot

Gos == Handlers \cup {Ticker, Reaper}
Status == {"none", "running", "paused", "exited"} \* "none": there is no such container
NoPort == 0

\* A container, or a *Worker; only what runs or is frozen has a port.
Container == [st : Status, port : Nat]
Gone == [st |-> "none", port |-> NoPort]

Kind == {"register", "request", "start", "stop", "nuke", "sync", "reap"}
GoPc == {"idle", "thaw", "remove", "run", "ports", "ready", "put", "used", "docker",
         "forget", "ps", "store", "again", "resumed", "dispatch", "serve", "check", "busy",
         "pause", "deepstop"}

ASSUME GosAssumption ==
    /\ {Ticker, Reaper} \cap Handlers = {}
    /\ Ticker # Reaper
    /\ Found \in [Workers -> Container]
    /\ \A w \in Workers : Found[w].port # NoPort <=> Found[w].st \in {"running", "paused"}
    /\ MaxEvents \in Nat
    /\ None \notin Workers \cup Kind \cup [Workers -> Container]

VARIABLES
    box,    \* [Workers -> Container]: docker's containers
    starts, \* how many times docker started one
    work,   \* the workers with a running session
    reg,    \* Registry.workers: [Workers -> Container], Gone if it has no entry
    seen,   \* the workers activity.seen has a time for
    age,    \* [Workers -> {"fresh", "idle", "deep"}]: the time since the last use, as
            \* the two grace periods tell it apart
    pc,     \* [Gos -> GoPc]
    kind,   \* [Gos -> Kind or None]: what the goroutine is doing
    on,     \* [Gos -> Workers or None]: to which worker
    ent,    \* [Gos -> Container]: the *Worker it has in hand
    rows,   \* [Gos -> [Workers -> Container] or None]: what docker ps told it
    events  \* how many events there were so far

dockVars == <<box, starts, work>>
useVars == <<seen, age>>
goVars == <<pc, kind, on, ent, rows>>
vars == <<dockVars, reg, useVars, goVars, events>>

TypeOK ==
    /\ box \in [Workers -> Container]
    /\ starts \in Nat
    /\ work \subseteq Workers
    /\ reg \in [Workers -> Container]
    /\ seen \subseteq Workers
    /\ age \in [Workers -> {"fresh", "idle", "deep"}]
    /\ pc \in [Gos -> GoPc]
    /\ kind \in [Gos -> Kind \cup {None}]
    /\ on \in [Gos -> Workers \cup {None}]
    /\ ent \in [Gos -> Container]
    /\ rows \in [Gos -> [Workers -> Container] \cup {None}]
    /\ events \in 0..MaxEvents

\* The daemon has booted: it knows the containers, and nothing of when they were used.
Init ==
    /\ box = Found
    /\ starts = 1
    /\ work = {}
    /\ reg = [w \in Workers |-> IF Found[w].st = "paused" THEN [Found[w] EXCEPT !.port = NoPort]
                                                          ELSE Found[w]]
    /\ seen = {}
    /\ age = [w \in Workers |-> "fresh"]
    /\ pc = [g \in Gos |-> "idle"]
    /\ kind = [g \in Gos |-> None]
    /\ on = [g \in Gos |-> None]
    /\ ent = [g \in Gos |-> Gone]
    /\ rows = [g \in Gos |-> None]
    /\ events = 0

-----------------------------------------------------------------------------
(* Goroutines.                                                             *)

Happen ==
    /\ events < MaxEvents
    /\ events' = events + 1

Begin(g, what, w, e, at) ==
    /\ pc[g] = "idle"
    /\ pc' = [pc EXCEPT ![g] = at]
    /\ kind' = [kind EXCEPT ![g] = what]
    /\ on' = [on EXCEPT ![g] = w]
    /\ ent' = [ent EXCEPT ![g] = e]
    /\ UNCHANGED rows

\* Goes on with *Worker e in hand.
Hold(g, e, at) ==
    /\ pc' = [pc EXCEPT ![g] = at]
    /\ ent' = [ent EXCEPT ![g] = e]
    /\ UNCHANGED <<kind, on, rows>>

Goto(g, at) == Hold(g, ent[g], at)

\* Calls reconcileNow; the *Worker in hand is used no more.
Refresh(g) == Hold(g, Gone, "ps")

End(g) ==
    /\ pc' = [pc EXCEPT ![g] = "idle"]
    /\ kind' = [kind EXCEPT ![g] = None]
    /\ on' = [on EXCEPT ![g] = None]
    /\ ent' = [ent EXCEPT ![g] = Gone]
    /\ rows' = [rows EXCEPT ![g] = None]

-----------------------------------------------------------------------------
(* Docker.  A command either changes a container or is refused.            *)

Up(w) == box[w].st = "running"
Paused(w) == box[w].st = "paused"
Exists(w) == box[w].st # "none"

\* A container starts, on a new port.
Started(w) ==
    /\ starts' = starts + 1
    /\ box' = [box EXCEPT ![w] = [st |-> "running", port |-> starts + 1]]
    /\ UNCHANGED work

\* docker start: what runs is left alone, what is paused is refused.
DockerStart(w) ==
    \/ box[w].st = "exited" /\ Started(w)
    \/ Up(w) /\ UNCHANGED dockVars

DockerUnpause(w) ==
    /\ Paused(w)
    /\ box' = [box EXCEPT ![w].st = "running"]
    /\ UNCHANGED <<starts, work>>

DockerPause(w) ==
    /\ Up(w)
    /\ box' = [box EXCEPT ![w].st = "paused"]
    /\ UNCHANGED <<starts, work>>

DockerStop(w) ==
    /\ Exists(w)
    /\ box' = [box EXCEPT ![w] = [st |-> "exited", port |-> NoPort]]
    /\ work' = work \ {w}
    /\ UNCHANGED starts

DockerRemove(w) ==
    /\ box' = [box EXCEPT ![w] = Gone]
    /\ work' = work \ {w}
    /\ UNCHANGED starts

\* A request to this port of w waits: the container behind it is frozen.
Frozen(w, port) == Paused(w) /\ box[w].port = port

-----------------------------------------------------------------------------
(* Registry.reconcileNow: docker ps, then the writes.                      *)

\* Where reconcileNow returns to: resume; the start handler, which reconciles once more
\* before it answers; elsewhere it was the last thing to do.
Return(g) ==
    IF kind[g] \in {"request", "start"}
    THEN /\ pc' = [pc EXCEPT ![g] = IF kind[g] = "start" THEN "ps" ELSE "again"]
         /\ kind' = [kind EXCEPT ![g] = IF @ = "start" THEN "sync" ELSE @]
         /\ rows' = [rows EXCEPT ![g] = None]
         /\ UNCHANGED <<on, ent>>
    ELSE End(g)

\* A row of docker ps, as adopt takes it: only a running worker has a port.
RowOf(w) == IF Up(w) THEN box[w] ELSE [box[w] EXCEPT !.port = NoPort]

Ps(g) ==
    /\ pc[g] = "ps"
    /\ rows' = [rows EXCEPT ![g] = [w \in Workers |-> RowOf(w)]]
    /\ pc' = [pc EXCEPT ![g] = "store"]
    /\ UNCHANGED <<kind, on, ent, dockVars, reg, useVars, events>>

Store(g) ==
    /\ pc[g] = "store"
    /\ reg' = rows[g]
    /\ Return(g)
    /\ UNCHANGED <<dockVars, useVars, events>>

\* docker ps fails: the registry stays as it is.
PsFails(g) ==
    /\ pc[g] = "ps"
    /\ Happen
    /\ Return(g)
    /\ UNCHANGED <<dockVars, reg, useVars>>

-----------------------------------------------------------------------------
(* activity: the clock of each worker.                                     *)

Touch(w) ==
    /\ seen' = seen \cup {w}
    /\ age' = [age EXCEPT ![w] = "fresh"]

\* time.Since(c.act.last(id)): a worker the map has no time for was never used.
IdleFor(w) == IF w \in seen THEN age[w] ELSE "deep"

\* One more of the grace periods passes without a use.
TimePasses(w) ==
    /\ age[w] # "deep"
    /\ age' = [age EXCEPT ![w] = IF @ = "fresh" THEN "idle" ELSE "deep"]
    /\ UNCHANGED <<dockVars, reg, seen, goVars, events>>

-----------------------------------------------------------------------------
(* POST /register: ensureWorker, waitReady, put, touch.                    *)

\* containerState: reuse what runs, thaw what is paused, recreate the rest.
RegisterStarts(g, w) ==
    /\ Happen
    /\ Begin(g, "register", w, Gone,
             IF Up(w) THEN "ports" ELSE IF Paused(w) THEN "thaw" ELSE "remove")
    /\ UNCHANGED <<dockVars, reg, useVars>>

Thaw(g) ==
    /\ pc[g] = "thaw"
    /\ \/ DockerUnpause(on[g]) /\ Goto(g, "ports")
       \/ ~Paused(on[g]) /\ Goto(g, "remove") /\ UNCHANGED dockVars
    /\ UNCHANGED <<reg, useVars, events>>

\* docker rm -f
Remove(g) ==
    /\ pc[g] = "remove"
    /\ DockerRemove(on[g])
    /\ Goto(g, "run")
    /\ UNCHANGED <<reg, useVars, events>>

\* docker run: refused if the name is taken again by now; the image, the network or the run
\* may fail as well.
Run(g) ==
    /\ pc[g] = "run"
    /\ \/ ~Exists(on[g]) /\ Started(on[g]) /\ Goto(g, "ports")
       \/ End(g) /\ UNCHANGED dockVars
    /\ UNCHANGED <<reg, useVars, events>>

\* populatePorts: an error if nothing is published.
ReadPorts(g) ==
    /\ pc[g] = "ports"
    /\ IF box[on[g]].port = NoPort THEN End(g) ELSE Hold(g, box[on[g]], "ready")
    /\ UNCHANGED <<dockVars, reg, useVars, events>>

\* waitReady returns on any answer, and in the end without one.
Ready(g) ==
    /\ pc[g] = "ready"
    /\ ~Frozen(on[g], ent[g].port)
    /\ Goto(g, "put")
    /\ UNCHANGED <<dockVars, reg, useVars, events>>

Put(g) ==
    /\ pc[g] = "put"
    /\ reg' = [reg EXCEPT ![on[g]] = ent[g]]
    /\ Hold(g, Gone, "used")
    /\ UNCHANGED <<dockVars, useVars, events>>

Used(g) ==
    /\ pc[g] = "used"
    /\ Touch(on[g])
    /\ End(g)
    /\ UNCHANGED <<dockVars, reg, events>>

-----------------------------------------------------------------------------
(* handleWorker: a request for a worker, which wakes it if need be.        *)

Serving(e) == e.st = "running" /\ e.port # NoPort

RequestStarts(g, w) ==
    /\ reg[w] # Gone
    /\ Happen
    /\ Begin(g, "request", w, reg[w], IF Serving(reg[w]) THEN "dispatch" ELSE "docker")
    /\ UNCHANGED <<dockVars, reg, useVars>>

\* resume and the start handler: unpause or start, by what the entry says; then reconcile.
Wake(g) ==
    /\ pc[g] = "docker"
    /\ kind[g] \in {"request", "start"}
    /\ LET w == on[g]
           frozen == ent[g].st = "paused"
       IN \/ frozen /\ DockerUnpause(w) /\ Refresh(g)
          \/ ~frozen /\ DockerStart(w) /\ Refresh(g)
          \/ /\ box[w].st \notin (IF frozen THEN {"paused"} ELSE {"exited", "running"})
             /\ End(g)
             /\ UNCHANGED dockVars
    /\ UNCHANGED <<reg, useVars, events>>

\* A faulty resume: waits until the registry has the entry again.
AgainWaits(g) ==
    /\ pc[g] = "again"
    /\ reg[on[g]] # Gone
    /\ Hold(g, reg[on[g]], "resumed")
    /\ UNCHANGED <<dockVars, reg, useVars, events>>

\* resume, after reconcile: waits for the worker as the entry has it now.
Again(g) ==
    /\ pc[g] = "again"
    /\ IF reg[on[g]] = Gone THEN End(g) ELSE Hold(g, reg[on[g]], "resumed")
    /\ UNCHANGED <<dockVars, reg, useVars, events>>

\* waitReady returns.  handleWorker reads the entry once more (if it is gone, the handler
\* fails on the nil pointer and the server drops the connection).
Resumed(g) ==
    /\ pc[g] = "resumed"
    /\ ~Frozen(on[g], ent[g].port)
    /\ IF Serving(ent[g]) /\ reg[on[g]] # Gone THEN Hold(g, reg[on[g]], "dispatch") ELSE End(g)
    /\ UNCHANGED <<dockVars, reg, useVars, events>>

Dispatch(g) ==
    /\ pc[g] = "dispatch"
    /\ Touch(on[g])
    /\ Goto(g, "serve")
    /\ UNCHANGED <<dockVars, reg, events>>

\* The worker answers, or nobody is there.
Serve(g) ==
    /\ pc[g] = "serve"
    /\ ~Frozen(on[g], ent[g].port)
    /\ End(g)
    /\ UNCHANGED <<dockVars, reg, useVars, events>>

-----------------------------------------------------------------------------
(* handleWorkerAction: stop, start and nuke.                               *)

ActionStarts(g, w, what) ==
    /\ reg[w] # Gone
    /\ Happen
    /\ Begin(g, what, w, IF what = "start" THEN reg[w] ELSE Gone, "docker")
    /\ UNCHANGED <<dockVars, reg, useVars>>

Stop(g) ==
    /\ pc[g] = "docker"
    /\ kind[g] = "stop"
    /\ \/ DockerStop(on[g]) /\ Refresh(g)
       \/ ~Exists(on[g]) /\ End(g) /\ UNCHANGED dockVars
    /\ UNCHANGED <<reg, useVars, events>>

Nuke(g) ==
    /\ pc[g] = "docker"
    /\ kind[g] = "nuke"
    /\ DockerRemove(on[g])
    /\ Goto(g, "forget")
    /\ UNCHANGED <<reg, useVars, events>>

\* c.reg.remove(id)
Forget(g) ==
    /\ pc[g] = "forget"
    /\ reg' = [reg EXCEPT ![on[g]] = Gone]
    /\ Refresh(g)
    /\ UNCHANGED <<dockVars, useVars, events>>

-----------------------------------------------------------------------------
(* The timers.                                                             *)

\* docker ps on the ticker; the UI's polls reconcile like it.
Tick ==
    /\ pc[Ticker] = "idle"
    /\ pc' = [pc EXCEPT ![Ticker] = "store"]
    /\ kind' = [kind EXCEPT ![Ticker] = "sync"]
    /\ rows' = [rows EXCEPT ![Ticker] = [w \in Workers |-> RowOf(w)]]
    /\ UNCHANGED <<on, ent, dockVars, reg, useVars, events>>

\* reapIdle comes to a worker of its list.
ReapStarts(w) ==
    /\ reg[w] # Gone
    /\ Begin(Reaper, "reap", w, reg[w], "check")
    /\ UNCHANGED <<dockVars, reg, useVars, events>>

\* A faulty reaper: looking at the clock counts as use.
CheckTouches(g) ==
    /\ pc[g] = "check"
    /\ IF ent[g].st = "running" /\ IdleFor(on[g]) # "fresh"
       THEN Touch(on[g]) /\ End(g)
       ELSE End(g) /\ UNCHANGED useVars
    /\ UNCHANGED <<dockVars, reg, events>>

\* Too recently used, or not to be reaped in its state: on to the next.
Check(g) ==
    /\ pc[g] = "check"
    /\ LET idle == IdleFor(on[g])
       IN CASE ent[g].st = "running" /\ idle # "fresh" -> Goto(g, "busy")
            [] ent[g].st = "paused" /\ idle = "deep" -> Hold(g, Gone, "deepstop")
            [] OTHER -> End(g)
    /\ UNCHANGED <<dockVars, reg, useVars, events>>

\* A faulty workerBusy: nobody at the port counts as idle.
BusyIfToldSo(w, port) == box[w].port = port /\ w \in work

\* workerBusy: nobody at the port counts as busy, as "can't tell".
Busy(w, port) == port # NoPort /\ (box[w].port = port => w \in work)

AskBusy(g) ==
    /\ pc[g] = "busy"
    /\ ~Frozen(on[g], ent[g].port)
    /\ IF Busy(on[g], ent[g].port)
       THEN Touch(on[g]) /\ End(g)
       ELSE Hold(g, Gone, "pause") /\ UNCHANGED useVars
    /\ UNCHANGED <<dockVars, reg, events>>

\* docker pause; reconcile if docker did it.
Pause(g) ==
    /\ pc[g] = "pause"
    /\ \/ DockerPause(on[g]) /\ Refresh(g)
       \/ ~Up(on[g]) /\ End(g) /\ UNCHANGED dockVars
    /\ UNCHANGED <<reg, useVars, events>>

DeepStop(g) ==
    /\ pc[g] = "deepstop"
    /\ \/ DockerStop(on[g]) /\ Refresh(g)
       \/ ~Exists(on[g]) /\ End(g) /\ UNCHANGED dockVars
    /\ UNCHANGED <<reg, useVars, events>>

-----------------------------------------------------------------------------
(* Outside the coordinator.                                                *)

\* A container exits, comes back (its restart policy, docker start), or is removed
\* (sr nuke).
ContainerChanges(w) ==
    /\ Happen
    /\ \/ (Up(w) \/ Paused(w)) /\ DockerStop(w)
       \/ box[w].st = "exited" /\ Started(w)
       \/ Exists(w) /\ DockerRemove(w)
    /\ UNCHANGED <<reg, useVars, goVars>>

\* A session of the worker starts or stops running.
WorkChanges(w) ==
    /\ Up(w)
    /\ work' = IF w \in work THEN work \ {w} ELSE work \cup {w}
    /\ UNCHANGED <<box, starts, reg, useVars, goVars, events>>

\* The daemon dies, is started again and reconciles.
Restart ==
    /\ Happen
    /\ reg' = [w \in Workers |-> RowOf(w)]
    /\ seen' = {}
    /\ pc' = [g \in Gos |-> "idle"]
    /\ kind' = [g \in Gos |-> None]
    /\ on' = [g \in Gos |-> None]
    /\ ent' = [g \in Gos |-> Gone]
    /\ rows' = [g \in Gos |-> None]
    /\ UNCHANGED <<dockVars, age>>

Step(g) ==
    \/ Ps(g) \/ Store(g) \/ PsFails(g)
    \/ Thaw(g) \/ Remove(g) \/ Run(g) \/ ReadPorts(g) \/ Ready(g) \/ Put(g) \/ Used(g)
    \/ Wake(g) \/ Again(g) \/ Resumed(g) \/ Dispatch(g) \/ Serve(g)
    \/ Stop(g) \/ Nuke(g) \/ Forget(g)
    \/ Check(g) \/ AskBusy(g) \/ Pause(g) \/ DeepStop(g)

Next ==
    \/ \E g \in Gos : Step(g)
    \/ \E g \in Handlers, w \in Workers :
          \/ RegisterStarts(g, w)
          \/ RequestStarts(g, w)
          \/ \E what \in {"stop", "start", "nuke"} : ActionStarts(g, w, what)
    \/ Tick
    \/ \E w \in Workers :
          ReapStarts(w) \/ ContainerChanges(w) \/ WorkChanges(w) \/ TimePasses(w)
    \/ Restart

\* Goroutines are scheduled, the timers go off, the reaper's for every worker, and time
\* passes.  Nothing obliges users, sessions or containers, so a request to a frozen
\* container may wait for ever.
Fairness ==
    /\ \A g \in Gos : WF_vars(Step(g))
    /\ WF_vars(Tick)
    /\ \A w \in Workers : SF_vars(ReapStarts(w)) /\ WF_vars(TimePasses(w))

Spec == Init /\ [][Next]_vars /\ Fairness

-----------------------------------------------------------------------------
(* Properties.                                                             *)

\* A goroutine that waits for a container that is frozen.
Waits(g) ==
    /\ pc[g] \in {"ready", "resumed", "serve", "busy"}
    /\ Frozen(on[g], ent[g].port)

\* reapIdle and workerBusy: no worker runs for ever with nobody using it and no session
\* running, unless the reaper hangs asking a container that was frozen meanwhile.
Neglected(w) == Up(w) /\ w \notin work /\ \A g \in Handlers : on[g] # w
IdleIsReaped == \A w \in Workers : []<>(~Neglected(w) \/ Waits(Reaper))

\* workerBusy, "never reap on uncertainty": whatever port the reaper's entry has, it goes
\* on to pause a worker only if none of its sessions runs as it asks.
BusyIsSpared ==
    [][pc[Reaper] = "busy" /\ pc'[Reaper] = "pause" => on[Reaper] \notin work]_vars

\* handleWorker and resume: every request, and every other handler, comes to an end or
\* waits for a frozen container.
HandlersReturn == \A g \in Handlers : []<>(pc[g] = "idle" \/ Waits(g))
=============================================================================
