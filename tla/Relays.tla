------------------------------- MODULE Relays -------------------------------
(***************************************************************************)
(* The SSH client to each worker and the relay over it: PortMapper.client, *)
(* ForwardCmd with its accept loop, forget and CloseWorker; the ticker     *)
(* that reconciles and heals (healWiring), and the handlers and the reaper *)
(* that stop, pause, start and register workers around it.  ForwardAgent   *)
(* has the shape of ForwardCmd and is left out.                            *)
(*                                                                         *)
(* The ssh library and the worker's sshd are external: a request that      *)
(* wants an answer gets none while the container is frozen and fails when  *)
(* the connection is gone; the newest listener on a path owns it           *)
(* (StreamLocalBindUnlink in assets/entrypoint.sh); closing a listener     *)
(* cancels its path on its connection.  A worker has one connection that   *)
(* is alive at most, so a client is "live" (that one) or "dead".           *)
(* The module shares no names with DeviceLink, the link to a device; the    *)
(* theorems about both stand in DeviceLink_proofs.                          *)
(***************************************************************************)
EXTENDS FiniteSets, Naturals

CONSTANTS
    Workers,
    Gos,        \* goroutines that run ForwardCmd and its accept loop
    Ticker,     \* the goroutine of the 15-second ticker
    Reaper,     \* the goroutine of reapIdle
    Handler,    \* an HTTP handler that starts, stops or registers
    None,
    MaxEvents   \* bound on lifecycle actions, lost connections, containers
                \* that exit and ticks that overtake a ForwardCmd

ASSUME RelaysAssumption ==
    /\ MaxEvents \in Nat
    /\ None \notin Workers \cup Gos \cup {Ticker, Reaper, Handler}

Actors == {Ticker, Reaper, Handler}

VARIABLES
    ctr,        \* the container: "running", "paused" or "exited"
    ent,        \* the registry's entry: its state, and whether its ssh port
                \* is that of the container's latest start
    client,     \* PortMapper.clients: None, "live" or "dead"
    relay,      \* PortMapper.cmds: the goroutine whose listener is entered
    owner,      \* the goroutine whose listener the socket's path leads to
    mu,         \* who holds PortMapper.mu, or None
    go,         \* the ForwardCmd goroutines
    act,        \* what each actor is doing
    events

relayVars == <<ctr, ent, client, relay, owner, mu, go, act, events>>

Idle == [at |-> "idle", w |-> None, fresh |-> FALSE, ref |-> "none", open |-> FALSE]
Resting == [at |-> "idle", w |-> None, op |-> "none", ref |-> "none",
            todo |-> {}, fresh |-> {}]

RelaysInit ==
    /\ ctr = [w \in Workers |-> "exited"]
    /\ ent = [w \in Workers |-> [st |-> "exited", fresh |-> FALSE]]
    /\ client = [w \in Workers |-> None]
    /\ relay = [w \in Workers |-> None]
    /\ owner = [w \in Workers |-> None]
    /\ mu = None
    /\ go = [g \in Gos |-> Idle]
    /\ act = [a \in Actors |-> Resting]
    /\ events = 0

Event == events < MaxEvents /\ events' = events + 1

-----------------------------------------------------------------------------
(* What others see of a connection that goes, and of a container.          *)

Dead(ref) == IF ref = "live" THEN "dead" ELSE ref

\* w's connection is gone: so are the listeners on it.
Cut(f, w) ==
    [g \in Gos |-> IF f[g].w # w THEN f[g]
                   ELSE [f[g] EXCEPT !.ref = Dead(@), !.open = FALSE]]
CutAct(f, w) ==
    [a \in Actors |-> IF f[a].w # w THEN f[a] ELSE [f[a] EXCEPT !.ref = Dead(@)]]

\* A start publishes another ssh port: whoever read the old one holds it on.
Moved(f, w) ==
    [g \in Gos |-> IF f[g].w # w THEN f[g] ELSE [f[g] EXCEPT !.fresh = FALSE]]

\* Docker starts, thaws, freezes or stops a container; a container that
\* starts or stops has lost its connection.
Docker(w, to) ==
    /\ ctr' = [ctr EXCEPT ![w] = to]
    /\ LET boots == ctr[w] = "exited" /\ to = "running"
           cut   == to = "exited"
       IN  /\ ent' = IF boots THEN [ent EXCEPT ![w].fresh = FALSE] ELSE ent
           /\ client' = IF cut /\ client[w] = "live"
                          THEN [client EXCEPT ![w] = "dead"] ELSE client
           /\ owner' = IF cut THEN [owner EXCEPT ![w] = None] ELSE owner
           /\ go' = CASE boots -> Moved(go, w)
                      [] cut   -> Cut(go, w)
                      [] OTHER -> go

\* What Docker leaves to the action that uses it: the actors.
ActAfter(f, w, to) ==
    CASE to = "exited" -> CutAct(f, w)
      [] ctr[w] = "exited" -> [f EXCEPT ![Ticker].fresh = @ \ {w}]
      [] OTHER -> f

Reconciled ==
    [w \in Workers |-> [st |-> ctr[w], fresh |-> ctr[w] = "running"]]

\* A request that wants an answer returns; while the container is frozen it
\* does not.
Answered(w, ref) == ref = "dead" \/ ctr[w] # "paused"

-----------------------------------------------------------------------------
(* ForwardCmd.                                                             *)

\* onWorkerUp starts a goroutine with the entry it was given.
Spawn(f, w, fresh) ==
    LET g == CHOOSE h \in Gos : f[h] = Idle
    IN  [f EXCEPT ![g] = [Idle EXCEPT !.at = "check", !.w = w, !.fresh = fresh]]
CanSpawn == \E g \in Gos : go[g] = Idle

Step(g, at) == go' = [go EXCEPT ![g].at = at]
Ends(g) == go' = [go EXCEPT ![g] = Idle]

Check(g) ==
    /\ go[g].at = "check" /\ mu = None
    /\ IF relay[go[g].w] # None THEN Ends(g) ELSE Step(g, "client")
    /\ UNCHANGED <<ctr, ent, client, relay, owner, mu, act, events>>

Listening(w, ref) == [Idle EXCEPT !.at = "listen", !.w = w, !.ref = ref]

\* client: the cached one, alive or not; else dial and hold the lock.
Client(g) ==
    LET w == go[g].w IN
    /\ go[g].at = "client" /\ mu = None
    /\ IF client[w] # None
         THEN go' = [go EXCEPT ![g] = Listening(w, client[w])] /\ UNCHANGED mu
         ELSE Step(g, "dial") /\ mu' = g
    /\ UNCHANGED <<ctr, ent, client, relay, owner, act, events>>

\* The connect times out, the handshake with a frozen sshd does not.
Dial(g) ==
    LET w == go[g].w IN
    /\ go[g].at = "dial"
    /\ \/ /\ ctr[w] = "running" /\ go[g].fresh
          /\ client' = [client EXCEPT ![w] = "live"]
          /\ go' = [go EXCEPT ![g] = Listening(w, "live")]
       \/ /\ ctr[w] = "exited" \/ ~go[g].fresh
          /\ Ends(g)
          /\ UNCHANGED client
    /\ mu' = None
    /\ UNCHANGED <<ctr, ent, relay, owner, act, events>>

Listen(g) ==
    LET w == go[g].w IN
    /\ go[g].at = "listen" /\ Answered(w, go[g].ref)
    /\ IF go[g].ref = "live"
         THEN /\ go' = [go EXCEPT ![g].at = "insert", ![g].open = TRUE]
              /\ owner' = [owner EXCEPT ![w] = g]
         ELSE Ends(g) /\ UNCHANGED owner
    /\ UNCHANGED <<ctr, ent, client, relay, mu, act, events>>

Insert(g) ==
    LET w == go[g].w IN
    /\ go[g].at = "insert" /\ mu = None
    /\ IF relay[w] = None
         THEN /\ relay' = [relay EXCEPT ![w] = g]
              /\ go' = [go EXCEPT ![g].at = "accept", ![g].ref = "none"]
         ELSE Step(g, "lost") /\ UNCHANGED relay
    /\ UNCHANGED <<ctr, ent, client, owner, mu, act, events>>

\* A path that is cancelled ends every listener on it.
Cancelled(f, w) ==
    [h \in Gos |-> IF f[h].w = w THEN [f[h] EXCEPT !.open = FALSE] ELSE f[h]]

\* "lost a race - keep the first": ln.Close outside the lock.
Lose(g) ==
    LET w == go[g].w IN
    /\ go[g].at = "lost" /\ Answered(w, go[g].ref)
    /\ IF go[g].ref = "live"
         THEN /\ go' = [Cancelled(go, w) EXCEPT ![g] = Idle]
              /\ owner' = [owner EXCEPT ![w] = None]
         ELSE Ends(g) /\ UNCHANGED owner
    /\ UNCHANGED <<ctr, ent, client, relay, mu, act, events>>

\* Accept fails once the listener is closed or its connection gone.
AcceptFails(g) ==
    /\ go[g].at = "accept" /\ ~go[g].open
    /\ Step(g, "forget")
    /\ UNCHANGED <<ctr, ent, client, relay, owner, mu, act, events>>

\* A mutant: the accept loop ends and its entry stays.
ForgetNothing(g) ==
    /\ go[g].at = "forget" /\ mu = None
    /\ Ends(g)
    /\ UNCHANGED <<ctr, ent, client, relay, owner, mu, act, events>>

ForgetCmd(g) ==
    LET w == go[g].w IN
    /\ go[g].at = "forget" /\ mu = None
    /\ relay' = IF relay[w] = g THEN [relay EXCEPT ![w] = None] ELSE relay
    /\ Ends(g)
    /\ UNCHANGED <<ctr, ent, client, owner, mu, act, events>>

GoStep(g) ==
    \/ Check(g) \/ Client(g) \/ Dial(g) \/ Listen(g) \/ Insert(g) \/ Lose(g)
    \/ AcceptFails(g) \/ ForgetCmd(g)

-----------------------------------------------------------------------------
(* CloseWorker(w), for whichever actor calls it: "close" then "closing".   *)

\* The listener is closed on this side first, then the cancel is sent.
Close(a) ==
    LET w == act[a].w IN
    /\ act[a].at = "close" /\ mu = None
    /\ mu' = a
    /\ act' = [act EXCEPT ![a].at = "closing"]
    /\ go' = IF relay[w] = None THEN go ELSE [go EXCEPT ![relay[w]].open = FALSE]
    /\ UNCHANGED <<ctr, ent, client, relay, owner, events>>

After(a) == CASE a = Ticker -> "up"
              [] a = Reaper -> "rec"
              [] OTHER -> IF act[a].op = "stop" THEN "docker" ELSE "up"

Closing(a) ==
    LET w == act[a].w IN
    /\ act[a].at = "closing"
    /\ relay[w] # None => Answered(w, IF client[w] = None THEN "dead" ELSE client[w])
    /\ mu' = None
    /\ client' = [client EXCEPT ![w] = None]
    /\ relay' = [relay EXCEPT ![w] = None]
    /\ owner' = [owner EXCEPT ![w] = None]
    /\ go' = Cut(go, w)
    /\ act' = [CutAct(act, w) EXCEPT ![a].at = After(a)]
    /\ UNCHANGED <<ctr, ent, events>>

-----------------------------------------------------------------------------
(* The ticker: reconcile, then healWiring over the list.                   *)

\* Ticks are 15 seconds apart: one that overtakes a ForwardCmd which is not
\* held up is an event.
Overtakes == \E g \in Gos : go[g].at \notin {"idle", "accept"}

Tick ==
    /\ act[Ticker] = Resting
    /\ IF Overtakes THEN Event ELSE UNCHANGED events
    /\ ent' = Reconciled
    /\ LET up == {w \in Workers : ctr[w] = "running"}
       IN  act' = [act EXCEPT ![Ticker] =
                      IF up = {} THEN Resting
                      ELSE [Resting EXCEPT !.at = "next", !.todo = up, !.fresh = up]]
    /\ UNCHANGED <<ctr, client, relay, owner, mu, go>>

\* On to the next worker of the list.
Onward == [Resting EXCEPT !.at = "next", !.todo = act[Ticker].todo,
                          !.fresh = act[Ticker].fresh \cap act[Ticker].todo]

NextWorker ==
    /\ act[Ticker].at = "next"
    /\ IF act[Ticker].todo = {}
         THEN act' = [act EXCEPT ![Ticker] = Resting]
         ELSE \E w \in act[Ticker].todo :
                 act' = [act EXCEPT ![Ticker].at = "client", ![Ticker].w = w,
                                    ![Ticker].todo = @ \ {w}]
    /\ UNCHANGED <<ctr, ent, client, relay, owner, mu, go, events>>

\* A mutant: a cached client counts as alive and is not probed.
TrustClient ==
    LET w == act[Ticker].w IN
    /\ act[Ticker].at = "client" /\ mu = None
    /\ act' = [act EXCEPT ![Ticker].at = IF client[w] = None THEN "close" ELSE "has"]
    /\ UNCHANGED <<ctr, ent, client, relay, owner, mu, go, events>>

\* clientLive: the client under the lock, then a keepalive without it.
ReadClient ==
    LET w == act[Ticker].w IN
    /\ act[Ticker].at = "client" /\ mu = None
    /\ act' = [act EXCEPT
          ![Ticker].at  = IF client[w] = None THEN "close" ELSE "ping",
          ![Ticker].ref = IF client[w] = None THEN "none" ELSE client[w]]
    /\ UNCHANGED <<ctr, ent, client, relay, owner, mu, go, events>>

Ping ==
    /\ act[Ticker].at = "ping"
    /\ Answered(act[Ticker].w, act[Ticker].ref)
    /\ act' = [act EXCEPT
          ![Ticker].at  = IF act[Ticker].ref = "live" THEN "has" ELSE "close",
          ![Ticker].ref = "none"]
    /\ UNCHANGED <<ctr, ent, client, relay, owner, mu, go, events>>

HasCmd ==
    /\ act[Ticker].at = "has" /\ mu = None
    /\ act' = [act EXCEPT ![Ticker] =
                  IF relay[@.w] = None THEN [@ EXCEPT !.at = "up"] ELSE Onward]
    /\ UNCHANGED <<ctr, ent, client, relay, owner, mu, go, events>>

TickerUp ==
    LET w == act[Ticker].w IN
    /\ act[Ticker].at = "up" /\ CanSpawn
    /\ go' = Spawn(go, w, w \in act[Ticker].fresh)
    /\ act' = [act EXCEPT ![Ticker] = Onward]
    /\ UNCHANGED <<ctr, ent, client, relay, owner, mu, events>>

-----------------------------------------------------------------------------
(* The reaper.                                                             *)

Pause(w) ==
    /\ act[Reaper] = Resting
    /\ ent[w].st = "running" /\ ctr[w] = "running"
    /\ Event
    /\ Docker(w, "paused")
    /\ act' = [act EXCEPT ![Reaper].at = "close", ![Reaper].w = w]
    /\ UNCHANGED <<relay, mu>>

DeepStop(w) ==
    /\ act[Reaper] = Resting
    /\ ent[w].st = "paused" /\ ctr[w] # "exited"
    /\ Event
    /\ Docker(w, "exited")
    /\ act' = [CutAct(act, w) EXCEPT ![Reaper].at = "rec", ![Reaper].w = w]
    /\ UNCHANGED <<relay, mu>>

ReaperReconciles ==
    /\ act[Reaper].at = "rec"
    /\ ent' = Reconciled
    /\ act' = [act EXCEPT ![Reaper] = Resting]
    /\ UNCHANGED <<ctr, client, relay, owner, mu, go, events>>

-----------------------------------------------------------------------------
(* Start and resume, stop (and nuke, to the wiring), register.             *)

Start(w) ==
    /\ act[Handler] = Resting
    /\ ctr[w] # "running"
    /\ Event
    /\ Docker(w, "running")
    /\ act' = [ActAfter(act, w, "running") EXCEPT
                  ![Handler] = [Resting EXCEPT !.at = "rec", !.w = w, !.op = "start"]]
    /\ UNCHANGED <<relay, mu>>

\* provisionWorker returns the worker with the port it just read.
Register(w) ==
    /\ act[Handler] = Resting
    /\ Event
    /\ Docker(w, "running")
    /\ act' = [ActAfter(act, w, "running") EXCEPT
                  ![Handler] = [Resting EXCEPT !.at = "up", !.w = w, !.op = "register",
                                               !.fresh = {w}]]
    /\ UNCHANGED <<relay, mu>>

Stop(w) ==
    /\ act[Handler] = Resting
    /\ Event
    /\ act' = [act EXCEPT ![Handler] = [Resting EXCEPT !.at = "close", !.w = w,
                                                       !.op = "stop"]]
    /\ UNCHANGED <<ctr, ent, client, relay, owner, mu, go>>

HandlerStops ==
    LET w == act[Handler].w IN
    /\ act[Handler].at = "docker"
    /\ Docker(w, "exited")
    /\ act' = [CutAct(act, w) EXCEPT ![Handler].at = "rec"]
    /\ UNCHANGED <<relay, mu, events>>

HandlerReconciles ==
    LET w == act[Handler].w IN
    /\ act[Handler].at = "rec"
    /\ ent' = Reconciled
    /\ act' = [act EXCEPT ![Handler] =
                  IF @.op = "start" /\ ctr[w] = "running"
                    THEN [@ EXCEPT !.at = "close", !.fresh = {w}] ELSE Resting]
    /\ UNCHANGED <<ctr, client, relay, owner, mu, go, events>>

\* onWorkerUp, and the registry's put, which only a register has left to do.
HandlerUp ==
    LET w == act[Handler].w
        fresh == w \in act[Handler].fresh
    IN
    /\ act[Handler].at = "up" /\ CanSpawn
    /\ go' = Spawn(go, w, fresh)
    /\ ent' = IF act[Handler].op = "register"
                THEN [ent EXCEPT ![w] = [st |-> "running", fresh |-> fresh]] ELSE ent
    /\ act' = [act EXCEPT ![Handler] = Resting]
    /\ UNCHANGED <<ctr, client, relay, owner, mu, events>>

-----------------------------------------------------------------------------
(* What happens to a container and a connection from outside.              *)

ContainerExits(w) ==
    /\ ctr[w] # "exited"
    /\ Event
    /\ Docker(w, "exited")
    /\ act' = CutAct(act, w)
    /\ UNCHANGED <<relay, mu>>

ConnectionLost(w) ==
    /\ client[w] = "live"
    /\ Event
    /\ client' = [client EXCEPT ![w] = "dead"]
    /\ owner' = [owner EXCEPT ![w] = None]
    /\ go' = Cut(go, w)
    /\ act' = CutAct(act, w)
    /\ UNCHANGED <<ctr, ent, relay, mu>>

TickerStep == Tick \/ NextWorker \/ ReadClient \/ Ping \/ HasCmd \/ TickerUp
              \/ Close(Ticker) \/ Closing(Ticker)
ReaperStep == Close(Reaper) \/ Closing(Reaper) \/ ReaperReconciles
HandlerStep == Close(Handler) \/ Closing(Handler) \/ HandlerStops
               \/ HandlerReconciles \/ HandlerUp

RelaysNext ==
    \/ \E g \in Gos : GoStep(g)
    \/ TickerStep
    \/ ReaperStep
    \/ HandlerStep
    \/ \E w \in Workers :
        \/ Pause(w) \/ DeepStop(w)
        \/ Start(w) \/ Register(w) \/ Stop(w)
        \/ ContainerExits(w) \/ ConnectionLost(w)

\* Go runs every goroutine.
RelaysFairness ==
    /\ \A g \in Gos : WF_relayVars(GoStep(g))
    /\ WF_relayVars(TickerStep)
    /\ WF_relayVars(ReaperStep)
    /\ WF_relayVars(HandlerStep)

RelaysSpec == RelaysInit /\ [][RelaysNext]_relayVars /\ RelaysFairness

-----------------------------------------------------------------------------
RelaysTypeOK ==
    /\ ctr \in [Workers -> {"running", "paused", "exited"}]
    /\ ent \in [Workers -> [st : {"running", "paused", "exited"}, fresh : BOOLEAN]]
    /\ client \in [Workers -> {None, "live", "dead"}]
    /\ relay \in [Workers -> Gos \cup {None}]
    /\ owner \in [Workers -> Gos \cup {None}]
    /\ mu \in Gos \cup Actors \cup {None}
    /\ go \in [Gos -> [at : {"idle", "check", "client", "dial", "listen", "insert",
                             "lost", "accept", "forget"},
                       w : Workers \cup {None}, fresh : BOOLEAN,
                       ref : {"none", "live", "dead"}, open : BOOLEAN]]
    /\ act \in [Actors -> [at : {"idle", "next", "client", "ping", "has", "close",
                                 "closing", "up", "docker", "rec"},
                           w : Workers \cup {None},
                           op : {"none", "start", "stop", "register"},
                           ref : {"none", "live", "dead"},
                           todo : SUBSET Workers, fresh : SUBSET Workers]]
    /\ events \in 0..MaxEvents

Wired(w) ==
    /\ client[w] = "live"
    /\ relay[w] # None
    /\ owner[w] = relay[w]
    /\ go[relay[w]].open

(* A worker that runs for good, with no worker frozen for good, has its     *)
(* relay in the end, whatever was lost and whoever wired it at once         *)
(* (coordinator.go healWiring; portmap.go ForwardCmd, forget, CloseWorker). *)
WiredInTheEnd ==
    \A w \in Workers :
        <>[](ctr[w] = "running" /\ \A v \in Workers : ctr[v] # "paused")
            => <>[]Wired(w)

(* A relay in the map is one that is served or about to be taken out: the   *)
(* entry that hasCmd looks at never stands for a listener nobody accepts on *)
(* (portmap.go ForwardCmd, forget; a goroutine that lost the race does not  *)
(* take out the winner's entry).                                            *)
RelayIsServed ==
    \A w \in Workers : relay[w] # None =>
        go[relay[w]].w = w /\ go[relay[w]].at \in {"accept", "forget"}
=============================================================================
