--------------------------- MODULE PortForwarding ---------------------------
(***************************************************************************)
(* Host-port forwarding of the coordinator (cmd/sr/portmap.go,             *)
(* coordinator.go, portstore.go, device.go, devicelink.go).                *)
(*                                                                         *)
(* The PortMapper keeps, per worker and container port, a forward: a       *)
(* listener bound on the host-presence device that was active at the time, *)
(* and the closer that tears it down.  Three kinds of goroutine touch it:  *)
(*   - tasks (Gos): autoMap goroutines and the HTTP handlers that map,     *)
(*     unmap, stop, start and nuke, and the ticker that heals a worker;    *)
(*   - for each device connection, the goroutine that handles its hello    *)
(*     (activate -> setDevice) and the one that waits for it to end        *)
(*     (deactivate -> clearDevice), each of which swaps the active device  *)
(*     and re-forwards every running worker's ports.                       *)
(* A step of the model is one critical section of PortMapper.mu,           *)
(* Coordinator.mu, portStore.mu or deviceLinkServer.mu, or one call made   *)
(* outside all of them (Device.Forward, the registry's list).              *)
(***************************************************************************)
EXTENDS Naturals, FiniteSets

CONSTANTS
    Workers,   \* worker (project) ids
    Ports,     \* container ports a request or a config may name
    Reserved,  \* reservedPorts: never forwarded
    HostPorts, \* ports a device can bind; bounds how many listeners can leak
    Conns,     \* device-link connections; a reconnect is another connection
    Grants,    \* the connections whose device grants bind_port
    Gos,       \* goroutine slots: bounds how many tasks run at once
    MaxEvents, \* bounds the requests (users, CLI, ticker) plus the device connections
    Declared,  \* [Workers -> [Ports -> HostPorts or None]]: [[ports]] from -> to
    Saved,     \* [Workers -> [Ports -> HostPorts or None]]: portmaps.json at the start
    Local,     \* localDevice{}
    None       \* nil, an absent map entry

ASSUME PortsAssumption ==
    /\ Ports \subseteq HostPorts       \* both are TCP port numbers
    /\ Reserved \subseteq Ports
    /\ Grants \subseteq Conns
    /\ Local \notin Conns
    /\ None \notin HostPorts
    /\ MaxEvents \in Nat
    /\ Declared \in [Workers -> [Ports -> HostPorts \cup {None}]]
    /\ Saved \in [Workers -> [Ports -> HostPorts \cup {None}]]

Devices == Conns \cup {Local}

\* The two goroutines of a connection that swap the active device.
HelloOf(c) == <<c, "hello">>   \* handleRequests, which serves its hello
WaitOf(c) == <<c, "wait">>     \* handleConn, which waits for its end
Switchers == Conns \X {"hello", "wait"}

(***************************************************************************)
(* A listener is known by where it is bound and what it feeds.  The record *)
(* stands for the net.Listener (or the device-side tag) and for the closer *)
(* a forward keeps; .host is forward.hostPort.                             *)
(***************************************************************************)
Listener == [dev : Devices, host : HostPorts, w : Workers, p : Ports]

Kinds == {"auto", "map", "unmap", "stop", "start", "nuke", "heal", "register"}
Job == [kind : Kinds, w : Workers, p : Ports \cup {None}, want : HostPorts \cup {None}]

ASSUME NoneAssumption == None \notin Listener \cup Job

TaskPc == {"idle", "snapshot", "check", "bind", "insert", "unmap", "set", "del",
           "close", "docker", "forget", "remove", "up", "wire", "put"}
SwitchPc == {"wait", "mapper", "rebind", "done"}

VARIABLES
    link,    \* [Conns -> {"new", "up", "dead"}]: the SSH connection
    coDev,   \* Coordinator.dev
    pmDev,   \* PortMapper.dev
    spc,     \* [Switchers -> SwitchPc]: where the goroutine is
    scur,    \* [Switchers -> Devices]: the device it read or was given
    stodo,   \* [Switchers -> SUBSET Workers]: workers rebindPorts still has to visit
    reg,     \* [Workers -> {"none", "running", "stopped"}]: the registry
    fwds,    \* PortMapper.fwds
    open,    \* the listeners bound on some device
    store,   \* portStore.m (saved under its own lock on every change)
    pc,      \* [Gos -> TaskPc]
    job,     \* [Gos -> Job or None]
    held,    \* [Gos -> Listener or None]: bound by Map and not yet in fwds
    todo,    \* [Gos -> SUBSET (Ports \X HostPorts)]: what autoMap still has to apply
    asked,   \* how many requests and connections there were so far
    waived   \* history: [Workers -> SUBSET Ports], ports the user unmapped or that a
             \* rebind skipped since the worker's ports were last asked for

switchVars == <<link, coDev, spc, scur, stodo>>
taskVars == <<pc, job, held, todo>>
vars == <<link, coDev, pmDev, spc, scur, stodo, reg, fwds, open, store,
          pc, job, held, todo, asked, waived>>

NoPorts == [p \in Ports |-> None]

TypeOK ==
    /\ link \in [Conns -> {"new", "up", "dead"}]
    /\ coDev \in Devices
    /\ pmDev \in Devices
    /\ spc \in [Switchers -> SwitchPc]
    /\ scur \in [Switchers -> Devices]
    /\ stodo \in [Switchers -> SUBSET Workers]
    /\ reg \in [Workers -> {"none", "running", "stopped"}]
    /\ fwds \in [Workers -> [Ports -> Listener \cup {None}]]
    /\ open \subseteq Listener
    /\ store \in [Workers -> [Ports -> HostPorts \cup {None}]]
    /\ pc \in [Gos -> TaskPc]
    /\ job \in [Gos -> Job \cup {None}]
    /\ held \in [Gos -> Listener \cup {None}]
    /\ todo \in [Gos -> SUBSET (Ports \X HostPorts)]
    /\ asked \in 0..MaxEvents
    /\ waived \in [Workers -> SUBSET Ports]

\* The daemon starts with the local device and with the workers docker already runs; it
\* wires those as healWiring does, their ports not being owed a forward until then.
\* portmaps.json remembers ports of those workers only.
Init ==
    /\ link = [c \in Conns |-> "new"]
    /\ coDev = Local
    /\ pmDev = Local
    /\ spc = [t \in Switchers |-> "wait"]
    /\ scur = [t \in Switchers |-> Local]
    /\ stodo = [t \in Switchers |-> {}]
    /\ reg \in [Workers -> {"none", "running"}]
    /\ fwds = [w \in Workers |-> NoPorts]
    /\ open = {}
    /\ store = [w \in Workers |-> IF reg[w] = "none" THEN NoPorts ELSE Saved[w]]
    /\ pc = [g \in Gos |-> "idle"]
    /\ job = [g \in Gos |-> None]
    /\ held = [g \in Gos |-> None]
    /\ todo = [g \in Gos |-> {}]
    /\ asked = 0
    /\ waived = [w \in Workers |-> Ports]

-----------------------------------------------------------------------------
(* Tasks: starting, moving on, ending.                                     *)

\* One more request or connection arrives.
Ask ==
    /\ asked < MaxEvents
    /\ asked' = asked + 1

Begin(g, kind, w, p, want, at) ==
    /\ pc[g] = "idle"
    /\ pc' = [pc EXCEPT ![g] = at]
    /\ job' = [job EXCEPT ![g] = [kind |-> kind, w |-> w, p |-> p, want |-> want]]
    /\ UNCHANGED todo

Goto(g, at) ==
    /\ pc' = [pc EXCEPT ![g] = at]
    /\ UNCHANGED <<job, todo>>

End(g) ==
    /\ pc' = [pc EXCEPT ![g] = "idle"]
    /\ job' = [job EXCEPT ![g] = None]
    /\ todo' = [todo EXCEPT ![g] = {}]

\* autoMap goes on to the next of the ports it has left (the declared ones first), or
\* returns.
Proceed(g, left) ==
    IF left = {}
    THEN End(g)
    ELSE /\ \E x \in left :
               /\ \/ Declared[job[g].w][x[1]] # None
                  \/ \A y \in left : Declared[job[g].w][y[1]] = None
               /\ todo' = [todo EXCEPT ![g] = left \ {x}]
               /\ job' = [job EXCEPT ![g].p = x[1], ![g].want = x[2]]
         /\ pc' = [pc EXCEPT ![g] = "check"]

\* go c.autoMap(w): from here on w's declared ports are owed a forward.
GoAutoMap(g, w) ==
    /\ Begin(g, "auto", w, None, None, "snapshot")
    /\ waived' = [waived EXCEPT ![w] = {}]

\* The task's own goroutine carries on as the autoMap it starts last.
BecomeAutoMap(g, w) ==
    /\ pc' = [pc EXCEPT ![g] = "snapshot"]
    /\ job' = [job EXCEPT ![g] = [kind |-> "auto", w |-> w, p |-> None, want |-> None]]
    /\ waived' = [waived EXCEPT ![w] = {}]
    /\ UNCHANGED todo

-----------------------------------------------------------------------------
(* PortMapper: one lock region each.                                       *)

Forwards(w) == {fwds[w][p] : p \in Ports} \ {None}

\* A faulty unmapPorts: runs the closers and leaves the entries in the map.
UnmapPortsKeepsEntries(w) ==
    /\ open' = open \ Forwards(w)
    /\ UNCHANGED fwds

\* unmapPorts, and the forwards' part of CloseWorker: run every closer, drop the map.
UnmapPorts(w) ==
    /\ open' = open \ Forwards(w)
    /\ fwds' = [fwds EXCEPT ![w] = NoPorts]

\* Unmap.
Unmap(w, p) ==
    /\ open' = open \ {fwds[w][p]}
    /\ fwds' = [fwds EXCEPT ![w][p] = None]

\* The devices whose listeners live, and those of them that grant bind_port.
Attached == {Local} \cup {c \in Conns : link[c] = "up"}
Binding == Attached \ (Conns \ Grants)

Bound(d) == {l.host : l \in {m \in open : m.dev = d}}

\* Device.Forward can bind host port h on d: the port asked for if the request is
\* strict, else any (the preferred one may be taken, by another program too).
CanBind(d, want, h) ==
    /\ d \in Binding
    /\ h \notin Bound(d)
    /\ want # None => h = want

\* Device.Forward fails: the link is gone or grants no bind_port, or the request is
\* strict and the port taken, by a listener of this model or by another program.
BindFails(d, want) == d \notin Binding \/ want # None

\* What follows a successful Map that returned host port h.
MapReturns(g, h) ==
    IF job[g].kind = "auto"
    THEN Proceed(g, todo[g])
    ELSE /\ pc' = [pc EXCEPT ![g] = "set"]
         /\ job' = [job EXCEPT ![g].want = h]
         /\ UNCHANGED todo

\* A faulty autoMap: gives a busy port up without asking for an OS-assigned one.
MapFailsForGood(g) == IF job[g].kind = "auto" THEN Proceed(g, todo[g]) ELSE End(g)

\* What follows a failed one: autoMap retries with an OS-assigned port, then gives the
\* port up; the handler answers 502.
MapFails(g) ==
    \/ /\ job[g].kind = "auto" /\ job[g].want # None
       /\ pc' = [pc EXCEPT ![g] = "check"]
       /\ job' = [job EXCEPT ![g].want = None]
       /\ UNCHANGED todo
    \/ job[g].kind = "auto" /\ job[g].want = None /\ Proceed(g, todo[g])
    \/ job[g].kind # "auto" /\ End(g)

\* Map, first lock region: a reserved port is refused, a mapped one returned as it is.
MapCheck(g) ==
    /\ pc[g] = "check"
    /\ LET w == job[g].w
           p == job[g].p
       IN \/ p \in Reserved /\ MapFails(g)
          \/ p \notin Reserved /\ fwds[w][p] # None /\ MapReturns(g, fwds[w][p].host)
          \/ p \notin Reserved /\ fwds[w][p] = None /\ Goto(g, "bind")
    /\ UNCHANGED <<switchVars, pmDev, reg, fwds, open, store, held, asked, waived>>

\* Map, outside the lock: m.dev.Forward(want, localPort != 0, dial).
MapBind(g) ==
    /\ pc[g] = "bind"
    /\ \E h \in HostPorts :
          /\ CanBind(pmDev, job[g].want, h)
          /\ LET l == [dev |-> pmDev, host |-> h, w |-> job[g].w, p |-> job[g].p]
             IN /\ open' = open \cup {l}
                /\ held' = [held EXCEPT ![g] = l]
    /\ pc' = [pc EXCEPT ![g] = "insert"]
    /\ UNCHANGED <<switchVars, pmDev, reg, fwds, store, asked, waived, job, todo>>

MapBindFails(g) ==
    /\ pc[g] = "bind"
    /\ BindFails(pmDev, job[g].want)
    /\ MapFails(g)
    /\ UNCHANGED <<switchVars, pmDev, reg, fwds, open, store, held, asked, waived>>

\* Map, second lock region: the entry is written whatever is there by now.
MapInsert(g) ==
    /\ pc[g] = "insert"
    /\ LET w == job[g].w
           p == job[g].p
       IN /\ fwds' = [fwds EXCEPT ![w][p] = held[g]]
          /\ held' = [held EXCEPT ![g] = None]
          /\ waived' = [waived EXCEPT ![w] = IF job[g].kind = "map" THEN @ \ {p} ELSE @]
    /\ MapReturns(g, held[g].host)
    /\ UNCHANGED <<switchVars, pmDev, reg, open, store, asked>>

-----------------------------------------------------------------------------
(* Coordinator.autoMap: the declared ports, a remembered host port winning *)
(* over the declared one, then whatever else is remembered.                *)

HostFor(w, p) == IF store[w][p] # None THEN store[w][p] ELSE Declared[w][p]
Wanted(w) == {x \in Ports \X HostPorts : x[2] = HostFor(w, x[1])}

AutoMapSnapshot(g) ==
    /\ pc[g] = "snapshot"
    /\ Proceed(g, Wanted(job[g].w))
    /\ UNCHANGED <<switchVars, pmDev, reg, fwds, open, store, held, asked, waived>>

-----------------------------------------------------------------------------
(* handlePortMap.                                                          *)

MapRequest(g, w, p, want) ==
    /\ reg[w] # "none"
    /\ Ask
    /\ Begin(g, "map", w, p, want, "unmap")
    /\ UNCHANGED <<switchVars, pmDev, reg, fwds, open, store, held, waived>>

UnmapRequest(g, w, p) ==
    /\ reg[w] # "none"
    /\ Ask
    /\ Begin(g, "unmap", w, p, None, "unmap")
    /\ UNCHANGED <<switchVars, pmDev, reg, fwds, open, store, held, waived>>

HandlerUnmaps(g) ==
    /\ pc[g] = "unmap"
    /\ Unmap(job[g].w, job[g].p)
    /\ waived' = [waived EXCEPT ![job[g].w] = @ \cup {job[g].p}]
    /\ Goto(g, IF job[g].kind = "map" THEN "check" ELSE "del")
    /\ UNCHANGED <<switchVars, pmDev, reg, store, asked, held>>

\* c.ports.set(id, port, hostPort)
HandlerRemembers(g) ==
    /\ pc[g] = "set"
    /\ store' = [store EXCEPT ![job[g].w][job[g].p] = job[g].want]
    /\ End(g)
    /\ UNCHANGED <<switchVars, pmDev, reg, fwds, open, held, asked, waived>>

\* c.ports.del(id, port)
HandlerForgets(g) ==
    /\ pc[g] = "del"
    /\ store' = [store EXCEPT ![job[g].w][job[g].p] = None]
    /\ End(g)
    /\ UNCHANGED <<switchVars, pmDev, reg, fwds, open, held, asked, waived>>

-----------------------------------------------------------------------------
(* handleWorkerAction, POST /register and healWiring, as far as they touch *)
(* forwards, the port store and the registry.                              *)

\* Also reapIdle, which pauses an idle container and closes the worker then.
StopRequest(g, w) ==
    /\ reg[w] # "none"
    /\ Ask
    /\ Begin(g, "stop", w, None, None, "close")
    /\ UNCHANGED <<switchVars, pmDev, reg, fwds, open, store, held, waived>>

NukeRequest(g, w) ==
    /\ reg[w] # "none"
    /\ Ask
    /\ Begin(g, "nuke", w, None, None, "close")
    /\ UNCHANGED <<switchVars, pmDev, reg, fwds, open, store, held, waived>>

\* Also resume, which a request for a paused or stopped worker calls.
StartRequest(g, w) ==
    /\ reg[w] # "none"
    /\ Ask
    /\ Begin(g, "start", w, None, None, "up")
    /\ UNCHANGED <<switchVars, pmDev, reg, fwds, open, store, held, waived>>

\* healWiring finds the worker's ssh client gone, or alive and a relay missing.
HealStarts(g, w) ==
    /\ reg[w] = "running"
    /\ Ask
    /\ \E at \in {"close", "wire"} : Begin(g, "heal", w, None, None, at)
    /\ UNCHANGED <<switchVars, pmDev, reg, fwds, open, store, held, waived>>

\* c.pm.CloseWorker(id)
TaskClosesWorker(g) ==
    /\ pc[g] = "close"
    /\ UnmapPorts(job[g].w)
    /\ waived' = [waived EXCEPT ![job[g].w] = Ports]
    /\ Goto(g, CASE job[g].kind = "stop" -> "docker"
                 [] job[g].kind = "nuke" -> "forget"
                 [] OTHER -> "wire")
    /\ UNCHANGED <<switchVars, pmDev, reg, store, asked, held>>

\* docker stop, then reconcileNow; when docker fails the handler answers 500 and the
\* registry stays as it is.
StopDocker(g) ==
    /\ pc[g] = "docker"
    /\ \/ reg' = [reg EXCEPT ![job[g].w] = IF @ = "none" THEN @ ELSE "stopped"]
       \/ UNCHANGED reg
    /\ End(g)
    /\ UNCHANGED <<switchVars, pmDev, fwds, open, store, held, asked, waived>>

\* docker start or unpause, then reconcileNow.
StartDocker(g) ==
    /\ pc[g] = "up"
    /\ \/ /\ reg[job[g].w] # "none"
          /\ reg' = [reg EXCEPT ![job[g].w] = "running"]
          /\ Goto(g, "close")
       \/ /\ End(g)
          /\ UNCHANGED reg
    /\ UNCHANGED <<switchVars, pmDev, fwds, open, store, held, asked, waived>>

\* onWorkerUp, at the end of start and of healWiring.
WireWorker(g) ==
    /\ pc[g] = "wire"
    /\ BecomeAutoMap(g, job[g].w)
    /\ UNCHANGED <<switchVars, pmDev, reg, fwds, open, store, asked, held>>

\* nuke: c.ports.delWorker(id), after docker rm.
NukeForgets(g) ==
    /\ pc[g] = "forget"
    /\ store' = [store EXCEPT ![job[g].w] = NoPorts]
    /\ Goto(g, "remove")
    /\ UNCHANGED <<switchVars, pmDev, reg, fwds, open, held, asked, waived>>

\* nuke: c.reg.remove(id); the reconcileNow that follows adopts the container again if
\* docker rm had failed.
NukeRemoves(g) ==
    /\ pc[g] = "remove"
    /\ \/ reg' = [reg EXCEPT ![job[g].w] = "none"]
       \/ UNCHANGED reg
    /\ End(g)
    /\ UNCHANGED <<switchVars, pmDev, fwds, open, store, held, asked, waived>>

\* A reconcile finds that the container stopped, was paused or runs again.
ContainerChanges(w) ==
    /\ reg[w] # "none"
    /\ Ask
    /\ \E st \in {"running", "stopped"} : reg' = [reg EXCEPT ![w] = st]
    /\ UNCHANGED <<switchVars, pmDev, fwds, open, store, taskVars, waived>>

\* POST /register: onWorkerUp(worker) starts autoMap ...
RegisterWires(g, h, w) ==
    /\ Ask
    /\ g # h
    /\ pc[g] = "idle"
    /\ pc[h] = "idle"
    /\ pc' = [pc EXCEPT ![g] = "put", ![h] = "snapshot"]
    /\ job' = [job EXCEPT
                 ![g] = [kind |-> "register", w |-> w, p |-> None, want |-> None],
                 ![h] = [kind |-> "auto", w |-> w, p |-> None, want |-> None]]
    /\ waived' = [waived EXCEPT ![w] = {}]
    /\ UNCHANGED <<switchVars, pmDev, reg, fwds, open, store, held, todo>>

\* ... and only then does reg.put(worker) list it.
RegisterPuts(g) ==
    /\ pc[g] = "put"
    /\ reg' = [reg EXCEPT ![job[g].w] = "running"]
    /\ End(g)
    /\ UNCHANGED <<switchVars, pmDev, fwds, open, store, held, asked, waived>>

-----------------------------------------------------------------------------
(* The device link: connections come and go, each with its two goroutines. *)

Connect(c) ==
    /\ link[c] = "new"
    /\ Ask
    /\ link' = [link EXCEPT ![c] = "up"]
    /\ UNCHANGED <<coDev, pmDev, spc, scur, stodo, reg, fwds, open, store,
                   taskVars, waived>>

\* The connection drops; the device closes every listener it had bound for it.
LinkDown(c) ==
    /\ link[c] = "up"
    /\ link' = [link EXCEPT ![c] = "dead"]
    /\ open' = {l \in open : l.dev # c}
    /\ UNCHANGED <<coDev, pmDev, spc, scur, stodo, reg, fwds, store,
                   taskVars, asked, waived>>

\* handleRequests takes the hello from its queue, possibly after the link dropped:
\* activate, up to setDevice's first half under Coordinator.mu.
Activate(c) ==
    /\ link[c] # "new"
    /\ spc[HelloOf(c)] = "wait"
    /\ coDev' = c
    /\ scur' = [scur EXCEPT ![HelloOf(c)] = c]
    /\ spc' = [spc EXCEPT ![HelloOf(c)] = "mapper"]
    /\ UNCHANGED <<link, pmDev, stodo, reg, fwds, open, store, taskVars, asked, waived>>

\* A faulty clearDevice: reverts to local whatever device is active now.
DeactivateAny(c) ==
    /\ link[c] = "dead"
    /\ spc[WaitOf(c)] = "wait"
    /\ coDev' = Local
    /\ scur' = [scur EXCEPT ![WaitOf(c)] = coDev']
    /\ spc' = [spc EXCEPT ![WaitOf(c)] = "mapper"]
    /\ UNCHANGED <<link, pmDev, stodo, reg, fwds, open, store, taskVars, asked, waived>>

\* A faulty clearDevice: leaves the coordinator without a device.
DeactivateToNil(c) ==
    /\ link[c] = "dead"
    /\ spc[WaitOf(c)] = "wait"
    /\ coDev' = IF coDev = c THEN None ELSE coDev
    /\ scur' = [scur EXCEPT ![WaitOf(c)] = coDev']
    /\ spc' = [spc EXCEPT ![WaitOf(c)] = "mapper"]
    /\ UNCHANGED <<link, pmDev, stodo, reg, fwds, open, store, taskVars, asked, waived>>

\* handleConn returns from sc.Wait(): deactivate, up to clearDevice's first half under
\* Coordinator.mu, back to local only if c is still the active one.
Deactivate(c) ==
    /\ link[c] = "dead"
    /\ spc[WaitOf(c)] = "wait"
    /\ coDev' = IF coDev = c THEN Local ELSE coDev
    /\ scur' = [scur EXCEPT ![WaitOf(c)] = coDev']
    /\ spc' = [spc EXCEPT ![WaitOf(c)] = "mapper"]
    /\ UNCHANGED <<link, pmDev, stodo, reg, fwds, open, store, taskVars, asked, waived>>

\* Workers rebindPorts finds in the registry's list.
Listed == {w \in Workers : reg[w] = "running"}

\* c.pm.setDevice, after Coordinator.mu was released, and rebindPorts' c.reg.list(): no
\* other goroutine's step both reads PortMapper.dev and writes the registry, so nothing
\* is lost by taking the two together.
MapperSetDevice(t) ==
    /\ spc[t] = "mapper"
    /\ pmDev' = scur[t]
    /\ scur' = [scur EXCEPT ![t] = Local]
    /\ stodo' = [stodo EXCEPT ![t] = Listed]
    /\ spc' = [spc EXCEPT ![t] = IF Listed = {} THEN "done" ELSE "rebind"]
    /\ waived' = [w \in Workers |-> IF w \in Listed THEN waived[w] ELSE Ports]
    /\ UNCHANGED <<link, coDev, reg, fwds, open, store, taskVars, asked>>

\* rebindPorts, loop body: unmapPorts, then go autoMap.
RebindWorker(t, g, w) ==
    /\ spc[t] = "rebind"
    /\ w \in stodo[t]
    /\ stodo' = [stodo EXCEPT ![t] = @ \ {w}]
    /\ spc' = [spc EXCEPT ![t] = IF stodo'[t] = {} THEN "done" ELSE @]
    /\ UnmapPorts(w)
    /\ GoAutoMap(g, w)
    /\ UNCHANGED <<link, coDev, pmDev, scur, reg, store, asked, held>>

-----------------------------------------------------------------------------
MapStep(g) == MapCheck(g) \/ MapBind(g) \/ MapBindFails(g) \/ MapInsert(g)

HandlerStep(g) ==
    \/ HandlerUnmaps(g) \/ HandlerRemembers(g) \/ HandlerForgets(g)
    \/ TaskClosesWorker(g) \/ StopDocker(g) \/ StartDocker(g) \/ WireWorker(g)
    \/ NukeForgets(g) \/ NukeRemoves(g) \/ RegisterPuts(g)

Request(g, w) ==
    \/ \E p \in Ports, want \in HostPorts \cup {None} : MapRequest(g, w, p, want)
    \/ \E p \in Ports : UnmapRequest(g, w, p)
    \/ StopRequest(g, w) \/ NukeRequest(g, w) \/ StartRequest(g, w) \/ HealStarts(g, w)
    \/ \E h \in Gos : RegisterWires(g, h, w)

LinkStep(c) ==
    Connect(c) \/ LinkDown(c) \/ Activate(c) \/ Deactivate(c)

SwitchStep(t) ==
    \/ MapperSetDevice(t)
    \/ \E g \in Gos, w \in Workers : RebindWorker(t, g, w)

Next ==
    \/ \E g \in Gos : AutoMapSnapshot(g) \/ MapStep(g) \/ HandlerStep(g)
    \/ \E g \in Gos, w \in Workers : Request(g, w)
    \/ \E w \in Workers : ContainerChanges(w)
    \/ \E c \in Conns : LinkStep(c)
    \/ \E t \in Switchers : SwitchStep(t)

Spec == Init /\ [][Next]_vars

-----------------------------------------------------------------------------
(* Properties.                                                             *)

\* No forward outlives its listener: while the device that bound it is attached, a port
\* the PortMapper lists is really being listened on, whatever unmap, rebind, stop, nuke
\* and late Map calls ran in between, and so is a port Map is about to list.
ForwardsAreOpen ==
    /\ \A w \in Workers, p \in Ports :
          fwds[w][p] # None /\ fwds[w][p].dev \in Attached => fwds[w][p] \in open
    /\ \A g \in Gos : held[g] # None /\ held[g].dev \in Attached => held[g] \in open

\* A closer is owned once: no two forwards, and no forward and running Map, share a
\* listener, so tearing one worker's or one port's forward down never closes another's.
OneOwner ==
    /\ \A w, v \in Workers, p, q \in Ports :
          fwds[w][p] # None /\ fwds[w][p] = fwds[v][q] => w = v /\ p = q
    /\ \A w \in Workers, p \in Ports, g \in Gos : fwds[w][p] # None => fwds[w][p] # held[g]
    /\ \A g, h \in Gos : held[g] # None /\ held[g] = held[h] => g = h

\* Nobody is in the middle of anything and no event is waiting to be handled.
Settled ==
    /\ \A g \in Gos : pc[g] = "idle"
    /\ \A c \in Conns :
          /\ spc[HelloOf(c)] = "done" \/ (spc[HelloOf(c)] = "wait" /\ link[c] = "new")
          /\ spc[WaitOf(c)] = "done" \/ (spc[WaitOf(c)] = "wait" /\ link[c] # "dead")

\* Once a device change has settled, every declared port of every running worker is
\* forwarded somewhere again (rebindPorts), if the device new forwards bind on can bind
\* at all and the user did not unmap the port meanwhile.  A worker that was not in the
\* registry when the last rebind listed it is not covered.
DeclaredPortsForwarded ==
    Settled /\ pmDev \in Binding =>
        \A w \in Workers, p \in Ports \ Reserved :
            reg[w] = "running" /\ Declared[w][p] # None /\ p \notin waived[w] =>
                fwds[w][p] # None

\* clearDevice "reverts to the local device when d disconnects, but only if d is still
\* the active one": a connection that ends never takes the host-presence role away from
\* another connection.
OnlyOwnEndDemotes ==
    [][\A c \in Conns : coDev = c /\ coDev' = Local => link[c] = "dead"]_vars
=============================================================================
