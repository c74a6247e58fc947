------------------------------ MODULE Registry ------------------------------
(***************************************************************************)
(* What the coordinator believes of the containers: the registry           *)
(* (cmd/sr/registry.go), ensureWorker (worker.go) and the reverse proxies  *)
(* (coordinator.go).                                                       *)
(*                                                                         *)
(* Docker is the source of truth and the registry a copy of it, refreshed  *)
(* by reconcileNow: one docker ps, then one write to the map for each row. *)
(* A goroutine uses the entry it read when it began.  Each docker command  *)
(* and each access to the map is a step, and others may step in between.   *)
(*                                                                         *)
(* Who stops, starts, pauses and thaws containers, and when, is the        *)
(* business of module Density; here it may happen at any time.             *)
(***************************************************************************)
EXTENDS Naturals, FiniteSets

CONSTANTS
    Workers,   \* worker ids
    Ports,     \* loopback ports docker publishes the workers' API on
    Gos,       \* goroutines of handlers and timers
    Found,     \* [Workers -> Container or None]: the containers there are at the start
    MaxEvents, \* bounds the requests and what happens to the containers
    None       \* an absent container, entry, port or proxy

Status == {"running", "paused", "exited"}
Tokens == Nat \ {0} \* newToken never returns one twice
NoToken == 0         \* "": the token could not be read

Container == [st : Status, port : Ports \cup {None}, tok : Tokens]

\* What a *Worker says; its status is empty if its container was gone.
Entry == [id : Workers, st : Status \cup {""}, port : Ports \cup {None}, tok : Tokens \cup {NoToken}]

\* A row of docker ps.
Row == [st : Status, port : Ports \cup {None}]

GoPc == {"idle", "thaw", "remove", "run", "token", "ports", "state", "put", "proxy",
         "forget", "ps", "adopt", "inspect", "store", "prune"}

ASSUME GosAssumption ==
    /\ IsFiniteSet(Workers)
    /\ MaxEvents \in Nat
    /\ None \notin Ports \cup Nat \cup Entry \cup Container \cup Row

\* Each container has a token of its own and, unless it exited, a port of its own.
ASSUME FoundAssumption ==
    /\ Found \in [Workers -> Container \cup {None}]
    /\ \A w \in Workers : Found[w] # None =>
          /\ Found[w].tok <= Cardinality(Workers)
          /\ Found[w].port = None <=> Found[w].st = "exited"
    /\ \A v, w \in Workers : v # w /\ Found[v] # None /\ Found[w] # None =>
          /\ Found[v].tok # Found[w].tok
          /\ Found[v].port = Found[w].port => Found[v].port = None

VARIABLES
    box,     \* [Workers -> Container or None]: docker's containers
    minted,  \* the last token drawn
    reg,     \* Registry.workers: [Workers -> Entry or None]
    proxies, \* Coordinator.proxies: [Workers -> [Ports -> the token it sends, or None]]
    booted,  \* runDaemon has reconciled and serves
    pc,      \* [Gos -> GoPc]
    ent,     \* [Gos -> Entry or None]: the *Worker the goroutine has in hand
    rows,    \* [Gos -> [Workers -> Row or None]]: what docker ps told it
    todo,    \* [Gos -> SUBSET Workers]: rows to adopt, then entries to remove
    events   \* how many events there were so far

dockVars == <<box, minted>>
goVars == <<pc, ent, rows, todo>>
vars == <<dockVars, reg, proxies, booted, goVars, events>>

NoRows == [w \in Workers |-> None]
NoProxies == [w \in Workers |-> [p \in Ports |-> None]]

TypeOK ==
    /\ box \in [Workers -> Container \cup {None}]
    /\ minted \in Nat
    /\ reg \in [Workers -> Entry \cup {None}]
    /\ proxies \in [Workers -> [Ports -> Tokens \cup {NoToken, None}]]
    /\ booted \in BOOLEAN
    /\ pc \in [Gos -> GoPc]
    /\ ent \in [Gos -> Entry \cup {None}]
    /\ rows \in [Gos -> [Workers -> Row \cup {None}]]
    /\ todo \in [Gos -> SUBSET Workers]
    /\ events \in 0..MaxEvents

Init ==
    /\ box = Found
    /\ minted = Cardinality(Workers)
    /\ reg = NoRows
    /\ proxies = NoProxies
    /\ booted = FALSE
    /\ pc = [g \in Gos |-> "idle"]
    /\ ent = [g \in Gos |-> None]
    /\ rows = [g \in Gos |-> NoRows]
    /\ todo = [g \in Gos |-> {}]
    /\ events = 0

-----------------------------------------------------------------------------
(* Goroutines.                                                             *)

Happen ==
    /\ events < MaxEvents
    /\ events' = events + 1

\* Goes on, or starts, with *Worker e in hand.
Hold(g, e, at) ==
    /\ pc' = [pc EXCEPT ![g] = at]
    /\ ent' = [ent EXCEPT ![g] = e]
    /\ UNCHANGED <<rows, todo>>

Goto(g, at) == Hold(g, ent[g], at)

End(g) ==
    /\ pc' = [pc EXCEPT ![g] = "idle"]
    /\ ent' = [ent EXCEPT ![g] = None]
    /\ rows' = [rows EXCEPT ![g] = NoRows]
    /\ todo' = [todo EXCEPT ![g] = {}]

-----------------------------------------------------------------------------
(* Docker.  A paused container keeps its port, one that exited gives it up.*)

Exists(w) == box[w] # None
Up(w) == Exists(w) /\ box[w].st = "running"
Paused(w) == Exists(w) /\ box[w].st = "paused"
FreePorts == Ports \ {box[w].port : w \in {v \in Workers : Exists(v)}}

DockerUnpause(w) ==
    /\ Paused(w)
    /\ box' = [box EXCEPT ![w].st = "running"]

DockerPause(w) ==
    /\ Up(w)
    /\ box' = [box EXCEPT ![w].st = "paused"]

DockerStop(w) ==
    /\ Up(w) \/ Paused(w)
    /\ box' = [box EXCEPT ![w].st = "exited", ![w].port = None]

DockerStart(w) ==
    /\ Exists(w) /\ ~Up(w) /\ ~Paused(w)
    /\ \E p \in FreePorts : box' = [box EXCEPT ![w].st = "running", ![w].port = p]

DockerRemove(w) == box' = [box EXCEPT ![w] = None]

\* The handlers of stop, start and resume, the reaper, sr stop, sr nuke, a restart policy
\* or the user at work on a container.
ContainerChanges(w) ==
    /\ Happen
    /\ \/ DockerUnpause(w) \/ DockerPause(w) \/ DockerStop(w) \/ DockerStart(w)
       \/ Exists(w) /\ DockerRemove(w)
    /\ UNCHANGED <<minted, reg, proxies, booted, goVars>>

\* The worker's gate lets a request to port p with token t in.
LetIn(p, t, w) == Up(w) /\ box[w].port = p /\ box[w].tok = t

-----------------------------------------------------------------------------
(* Registry.reconcileNow, called by the timers, the UI's polls and every   *)
(* handler that changed a container.  reconcile's throttle skips a call    *)
(* right after another's, which did what it would do.                      *)

ReconcileStarts(g) ==
    /\ pc[g] = "idle"
    /\ booted \/ \A h \in Gos : pc[h] = "idle"
    /\ Hold(g, None, "ps")
    /\ UNCHANGED <<dockVars, reg, proxies, booted, events>>

\* docker ps
Ps(g) ==
    /\ pc[g] = "ps"
    /\ rows' = [rows EXCEPT ![g] =
                   [w \in Workers |->
                       IF Exists(w) THEN [st |-> box[w].st, port |-> box[w].port] ELSE None]]
    /\ todo' = [todo EXCEPT ![g] = {w \in Workers : Exists(w)}]
    /\ pc' = [pc EXCEPT ![g] = "adopt"]
    /\ UNCHANGED <<ent, dockVars, reg, proxies, booted, events>>

\* docker ps fails: the registry stays as it is.
PsFails(g) ==
    /\ pc[g] = "ps"
    /\ Happen
    /\ booted' = TRUE
    /\ End(g)
    /\ UNCHANGED <<dockVars, reg, proxies>>

\* containerEnv(c, "SHELLRAISER_WORKER_TOKEN")
TokenRead(w) == IF Exists(w) THEN box[w].tok ELSE NoToken

\* A row becomes a Worker; only a running one has a port.
Adopted(w, row, token) ==
    [id |-> w, st |-> row.st, tok |-> token, port |-> IF row.st = "running" THEN row.port ELSE None]

\* A faulty adopt: an entry that is there already is left as it is.
AdoptOnce(g) ==
    /\ pc[g] = "adopt"
    /\ \E w \in todo[g] :
          IF reg[w] # None
          THEN Hold(g, reg[w], "store")
          ELSE Hold(g, Adopted(w, rows[g][w], NoToken), "inspect")
    /\ UNCHANGED <<dockVars, reg, proxies, booted, events>>

\* adopt: the token is the registry's or, if it has none, the container's.
Adopt(g) ==
    /\ pc[g] = "adopt"
    /\ \E w \in todo[g] :
          IF reg[w] # None /\ reg[w].tok # NoToken
          THEN Hold(g, Adopted(w, rows[g][w], reg[w].tok), "store")
          ELSE Hold(g, Adopted(w, rows[g][w], NoToken), "inspect")
    /\ UNCHANGED <<dockVars, reg, proxies, booted, events>>

\* adopt's docker inspect.
Inspect(g) ==
    /\ pc[g] = "inspect"
    /\ Hold(g, [ent[g] EXCEPT !.tok = TokenRead(ent[g].id)], "store")
    /\ UNCHANGED <<dockVars, reg, proxies, booted, events>>

\* adopt's put.
Store(g) ==
    /\ pc[g] = "store"
    /\ reg' = [reg EXCEPT ![ent[g].id] = ent[g]]
    /\ todo' = [todo EXCEPT ![g] = @ \ {ent[g].id}]
    /\ pc' = [pc EXCEPT ![g] = "adopt"]
    /\ ent' = [ent EXCEPT ![g] = None]
    /\ UNCHANGED <<rows, dockVars, proxies, booted, events>>

\* Every row adopted, the entries without a row are listed.
ListStale(g) ==
    /\ pc[g] = "adopt"
    /\ todo[g] = {}
    /\ todo' = [todo EXCEPT ![g] = {w \in Workers : reg[w] # None /\ rows[g][w] = None}]
    /\ rows' = [rows EXCEPT ![g] = NoRows]
    /\ pc' = [pc EXCEPT ![g] = "prune"]
    /\ UNCHANGED <<ent, dockVars, reg, proxies, booted, events>>

Prune(g) ==
    /\ pc[g] = "prune"
    /\ \E w \in todo[g] :
          /\ reg' = [reg EXCEPT ![w] = None]
          /\ todo' = [todo EXCEPT ![g] = @ \ {w}]
    /\ UNCHANGED <<pc, ent, rows, dockVars, proxies, booted, events>>

\* The boot's reconcile over, the daemon serves.
Reconciled(g) ==
    /\ pc[g] = "prune"
    /\ todo[g] = {}
    /\ booted' = TRUE
    /\ End(g)
    /\ UNCHANGED <<dockVars, reg, proxies, events>>

Reconcile(g) ==
    \/ Ps(g) \/ PsFails(g) \/ Adopt(g) \/ Inspect(g) \/ Store(g)
    \/ ListStale(g) \/ Prune(g) \/ Reconciled(g)

-----------------------------------------------------------------------------
(* POST /register: ensureWorker, then put.                                 *)

\* containerState: reuse what runs, thaw what is paused, recreate the rest.
RegisterStarts(g, w) ==
    /\ booted
    /\ pc[g] = "idle"
    /\ Happen
    /\ Hold(g, [id |-> w, st |-> "", port |-> None, tok |-> NoToken],
            IF Up(w) THEN "token" ELSE IF Paused(w) THEN "thaw" ELSE "remove")
    /\ UNCHANGED <<dockVars, reg, proxies, booted>>

Thaw(g) ==
    /\ pc[g] = "thaw"
    /\ LET w == ent[g].id
       IN \/ DockerUnpause(w) /\ Goto(g, "token")
          \/ ~Paused(w) /\ Goto(g, "remove") /\ UNCHANGED box
    /\ UNCHANGED <<minted, reg, proxies, booted, events>>

\* docker rm -f
Remove(g) ==
    /\ pc[g] = "remove"
    /\ DockerRemove(ent[g].id)
    /\ Goto(g, "run")
    /\ UNCHANGED <<minted, reg, proxies, booted, events>>

\* A faulty register: every container gets the same token.
RunSameToken(g) ==
    /\ pc[g] = "run"
    /\ LET w == ent[g].id
           t == Cardinality(Workers) + 1
       IN /\ minted' = t
          /\ \/ /\ ~Exists(w)
                /\ \E p \in FreePorts :
                      box' = [box EXCEPT ![w] = [st |-> "running", port |-> p, tok |-> t]]
                /\ Hold(g, [ent[g] EXCEPT !.tok = t], "ports")
             \/ End(g) /\ UNCHANGED box
    /\ UNCHANGED <<reg, proxies, booted, events>>

\* newToken, then docker run.  It refuses a name that is taken again by now; the image, the
\* network or the run may fail as well.
Run(g) ==
    /\ pc[g] = "run"
    /\ LET w == ent[g].id
           t == minted + 1
       IN /\ minted' = t
          /\ \/ /\ ~Exists(w)
                /\ \E p \in FreePorts :
                      box' = [box EXCEPT ![w] = [st |-> "running", port |-> p, tok |-> t]]
                /\ Hold(g, [ent[g] EXCEPT !.tok = t], "ports")
             \/ End(g) /\ UNCHANGED box
    /\ UNCHANGED <<reg, proxies, booted, events>>

ReadToken(g) ==
    /\ pc[g] = "token"
    /\ Hold(g, [ent[g] EXCEPT !.tok = TokenRead(ent[g].id)], "ports")
    /\ UNCHANGED <<dockVars, reg, proxies, booted, events>>

\* populatePorts: publishedPort, an error if nothing is published.
ReadPorts(g) ==
    /\ pc[g] = "ports"
    /\ LET w == ent[g].id
       IN IF Up(w) \/ Paused(w)
          THEN Hold(g, [ent[g] EXCEPT !.port = box[w].port], "state")
          ELSE End(g)
    /\ UNCHANGED <<dockVars, reg, proxies, booted, events>>

\* A faulty register: the state of a container that is gone is nil.
ReadStateNil(g) ==
    /\ pc[g] = "state"
    /\ LET w == ent[g].id
       IN Hold(g, [ent[g] EXCEPT !.st = IF Exists(w) THEN box[w].st ELSE None], "put")
    /\ UNCHANGED <<dockVars, reg, proxies, booted, events>>

ReadState(g) ==
    /\ pc[g] = "state"
    /\ LET w == ent[g].id
       IN Hold(g, [ent[g] EXCEPT !.st = IF Exists(w) THEN box[w].st ELSE ""], "put")
    /\ UNCHANGED <<dockVars, reg, proxies, booted, events>>

Put(g) ==
    /\ pc[g] = "put"
    /\ reg' = [reg EXCEPT ![ent[g].id] = ent[g]]
    /\ End(g)
    /\ UNCHANGED <<dockVars, proxies, booted, events>>

Register(g) ==
    Thaw(g) \/ Remove(g) \/ Run(g) \/ ReadToken(g) \/ ReadPorts(g) \/ ReadState(g) \/ Put(g)

-----------------------------------------------------------------------------
(* handleWorker, once it has the entry it will use; nuke, once it has      *)
(* removed the container.                                                  *)

RequestStarts(g, w) ==
    /\ booted
    /\ pc[g] = "idle"
    /\ reg[w] # None
    /\ Happen
    /\ Hold(g, reg[w], "proxy")
    /\ UNCHANGED <<dockVars, reg, proxies, booted>>

\* proxyFor: the proxy made first for a worker's port is used ever after.  (Without a
\* port the request reaches nobody.)
ProxyFor(g) ==
    /\ pc[g] = "proxy"
    /\ LET e == ent[g]
       IN proxies' = IF e.port = None \/ proxies[e.id][e.port] # None
                     THEN proxies
                     ELSE [proxies EXCEPT ![e.id][e.port] = e.tok]
    /\ End(g)
    /\ UNCHANGED <<dockVars, reg, booted, events>>

NukeStarts(g, w) ==
    /\ booted
    /\ pc[g] = "idle"
    /\ reg[w] # None
    /\ Happen
    /\ DockerRemove(w)
    /\ Hold(g, reg[w], "forget")
    /\ UNCHANGED <<minted, reg, proxies, booted>>

\* c.reg.remove(id), then reconcileNow.
Forget(g) ==
    /\ pc[g] = "forget"
    /\ reg' = [reg EXCEPT ![ent[g].id] = None]
    /\ Hold(g, None, "ps")
    /\ UNCHANGED <<dockVars, proxies, booted, events>>

\* The daemon dies and is started again.
Restart ==
    /\ Happen
    /\ reg' = NoRows
    /\ proxies' = NoProxies
    /\ booted' = FALSE
    /\ pc' = [g \in Gos |-> "idle"]
    /\ ent' = [g \in Gos |-> None]
    /\ rows' = [g \in Gos |-> NoRows]
    /\ todo' = [g \in Gos |-> {}]
    /\ UNCHANGED dockVars

Step(g) == Reconcile(g) \/ Register(g) \/ ProxyFor(g) \/ Forget(g)

Next ==
    \/ \E g \in Gos : Step(g) \/ ReconcileStarts(g)
    \/ \E g \in Gos, w \in Workers :
          RegisterStarts(g, w) \/ RequestStarts(g, w) \/ NukeStarts(g, w)
    \/ \E w \in Workers : ContainerChanges(w)
    \/ Restart

\* Goroutines are scheduled, and the ticker reconciles every 15 seconds.
Fairness ==
    /\ \A g \in Gos : WF_vars(Step(g))
    /\ WF_vars(\E g \in Gos : ReconcileStarts(g))

Spec == Init /\ [][Next]_vars /\ Fairness

-----------------------------------------------------------------------------
(* Properties.                                                             *)

\* A port that changed hands: whatever stale port and token the coordinator has for a
\* worker (in the registry, a proxy or a handler's hand), no other worker's container
\* lets in a request made with them.
Reaches(w, p, t) == \A v \in Workers : LetIn(p, t, v) => v = w
NoCrossTalk ==
    /\ \A w \in Workers : reg[w] # None => Reaches(w, reg[w].port, reg[w].tok)
    /\ \A w \in Workers, p \in Ports : proxies[w][p] # None => Reaches(w, p, proxies[w][p])
    /\ \A g \in Gos : ent[g] # None => Reaches(ent[g].id, ent[g].port, ent[g].tok)

\* "Docker is the source of truth": once the containers are left alone, the registry ends
\* up listing those that exist with their state and port, whatever stale rows and entries
\* were written meanwhile.
RegistryMatches(w) ==
    IF Exists(w)
    THEN reg[w] # None /\ reg[w].st = box[w].st /\ (Up(w) => reg[w].port = box[w].port)
    ELSE reg[w] = None
RegistryConverges == (<>[][FALSE]_box) => <>[](\A w \in Workers : RegistryMatches(w))
=============================================================================
