------------------------------- MODULE Daemon -------------------------------
(***************************************************************************)
(* How the coordinator's daemon starts, is found and leaves: runDaemon and *)
(* Coordinator.Run on one side, liveCoordinator, ensureCoordinator and the *)
(* commands sr, sr down, sr --fg and sr serve on the other.                *)
(*                                                                         *)
(* The processes share a directory: coord.lock, coord.json and sr.sock.    *)
(* What outlives a process is a file: coord.json and the socket's path,    *)
(* which leads to the last process that listened there.  A flock and a TCP *)
(* port go with their process.                                             *)
(***************************************************************************)
EXTENDS Naturals

CONSTANTS
    Daemons,    \* processes that run runDaemon, each once
    Clients,    \* processes that run sr or sr down, each once
    Ports,      \* what --port or the persisted port may say
    Unset

ASSUME DaemonAssumption == Unset \notin Daemons \cup Ports

VARIABLES
    pc,         \* where a daemon is: it reads and writes in this order
    port,       \* the port it was given
    leaving,    \* daemons told to shut down, which exit in 100 ms
    lock,       \* who holds the flock on coord.lock, or Unset
    kept,       \* FALSE once a collected file has dropped a daemon's flock
    meta,       \* the port in coord.json, or Unset before there is one
    sock,       \* who listened last on sr.sock, or Unset
    tcp,        \* who listens on a TCP port, or Unset
    client,     \* the commands
    ends        \* how many daemons have crashed or shut down

daemonVars == <<pc, port, leaving, lock, kept, meta, sock, tcp, client, ends>>

Alive == {"lock", "meta", "boot", "bind", "up"}
Starting == {"lock", "meta", "boot"}

DaemonInit ==
    /\ pc = [d \in Daemons |-> "none"]
    /\ port = [d \in Daemons |-> Unset]
    /\ leaving = {}
    /\ lock = Unset
    /\ kept = TRUE
    /\ meta \in Ports \cup {Unset}    \* a daemon of long ago may have left one
    /\ sock = Unset
    /\ tcp = [p \in Ports |-> Unset]
    /\ client = [c \in Clients |-> [at |-> "idle", op |-> "up", since |-> 0]]
    /\ ends = 0

-----------------------------------------------------------------------------
(* runDaemon.                                                              *)

\* A process is started, by a client or as sr --fg or sr serve.
Started(d, p) ==
    /\ pc[d] = "none"
    /\ pc' = [pc EXCEPT ![d] = "lock"]
    /\ port' = [port EXCEPT ![d] = p]

Foreground(d, p) ==
    /\ Started(d, p)
    /\ UNCHANGED <<leaving, lock, kept, meta, sock, tcp, client, ends>>

\* A mutant: coord.json is written before the lock is tried.
TryLockLate(d) ==
    /\ pc[d] = "lock"
    /\ meta' = port[d]
    /\ IF lock = Unset
         THEN lock' = d /\ pc' = [pc EXCEPT ![d] = "meta"]
         ELSE UNCHANGED lock /\ pc' = [pc EXCEPT ![d] = "dead"]
    /\ UNCHANGED <<port, leaving, kept, sock, tcp, client, ends>>

\* "another coordinator is already running - exiting"
TryLock(d) ==
    /\ pc[d] = "lock"
    /\ IF lock = Unset
         THEN lock' = d /\ pc' = [pc EXCEPT ![d] = "meta"]
         ELSE UNCHANGED lock /\ pc' = [pc EXCEPT ![d] = "dead"]
    /\ UNCHANGED <<port, leaving, kept, meta, sock, tcp, client, ends>>

\* The lock's file is a local variable that nothing uses again: when it is
\* collected, its finalizer closes it, and the flock is gone.
Collect(d) ==
    /\ lock = d
    /\ lock' = Unset
    /\ kept' = FALSE
    /\ UNCHANGED <<pc, port, leaving, meta, sock, tcp, client, ends>>

WriteMeta(d) ==
    /\ pc[d] = "meta"
    /\ meta' = port[d]
    /\ pc' = [pc EXCEPT ![d] = "boot"]
    /\ UNCHANGED <<port, leaving, lock, kept, sock, tcp, client, ends>>

\* Run removes whatever is at the socket's path, listens there and answers.
Listen(d) ==
    /\ pc[d] = "boot"
    /\ sock' = d
    /\ pc' = [pc EXCEPT ![d] = "bind"]
    /\ UNCHANGED <<port, leaving, lock, kept, meta, tcp, client, ends>>

\* A process ends: its flock and its port are free.
Dies(d) ==
    /\ pc' = [pc EXCEPT ![d] = "dead"]
    /\ lock' = IF lock = d THEN Unset ELSE lock
    /\ tcp' = [p \in Ports |-> IF tcp[p] = d THEN Unset ELSE tcp[p]]
    /\ UNCHANGED <<port, leaving, kept, meta, sock, client>>

\* ListenAndServe; runDaemon is fatal when it fails.
BindPort(d) ==
    /\ pc[d] = "bind"
    /\ tcp[port[d]] = Unset
    /\ tcp' = [tcp EXCEPT ![port[d]] = d]
    /\ pc' = [pc EXCEPT ![d] = "up"]
    /\ UNCHANGED <<port, leaving, lock, kept, meta, sock, client, ends>>

PortTaken(d) ==
    /\ pc[d] = "bind"
    /\ tcp[port[d]] # Unset
    /\ Dies(d)
    /\ UNCHANGED ends

\* A kill, or another fatal on the way up.
Crash(d) ==
    /\ pc[d] \in Alive \ {"lock"} /\ d \notin leaving
    /\ Dies(d)
    /\ ends' = ends + 1

\* The exit a shutdown has asked for; until then it answers as before.
Quit(d) ==
    /\ pc[d] \in Alive /\ d \in leaving
    /\ Dies(d)
    /\ ends' = ends + 1

DaemonStep(d) ==
    TryLock(d) \/ WriteMeta(d) \/ Listen(d) \/ BindPort(d) \/ PortTaken(d)

-----------------------------------------------------------------------------
(* The commands.                                                           *)

Answers == sock # Unset /\ pc[sock] \in {"bind", "up"}

\* liveCoordinator: coord.json names the socket, and health answers on it.
Live == meta # Unset /\ Answers

Goes(c, at) == client' = [client EXCEPT ![c].at = at]

Command(c, op) ==
    /\ client[c].at = "idle"
    /\ client' = [client EXCEPT ![c] = [at |-> "look", op |-> op, since |-> ends]]
    /\ UNCHANGED <<pc, port, leaving, lock, kept, meta, sock, tcp, ends>>

\* A mutant: a coord.json is taken for a daemon.
LookAtFile(c) ==
    /\ client[c].at = "look"
    /\ Goes(c, IF meta # Unset THEN "call"
               ELSE IF client[c].op = "up" THEN "spawn" ELSE "done")
    /\ UNCHANGED <<pc, port, leaving, lock, kept, meta, sock, tcp, ends>>

Look(c) ==
    /\ client[c].at = "look"
    /\ Goes(c, IF Live THEN "call"
               ELSE IF client[c].op = "up" THEN "spawn" ELSE "done")
    /\ UNCHANGED <<pc, port, leaving, lock, kept, meta, sock, tcp, ends>>

Spawn(c, d, p) ==
    /\ client[c].at = "spawn"
    /\ Started(d, p)
    /\ Goes(c, "poll")
    /\ UNCHANGED <<leaving, lock, kept, meta, sock, tcp, ends>>

Poll(c) ==
    /\ client[c].at = "poll" /\ Live
    /\ Goes(c, "call")
    /\ UNCHANGED <<pc, port, leaving, lock, kept, meta, sock, tcp, ends>>

\* "coordinator did not come up": 80 polls, 12 seconds, outlast a start.
GiveUp(c) ==
    /\ client[c].at = "poll" /\ ~Live
    /\ \A d \in Daemons : pc[d] \notin Starting
    /\ Goes(c, "failed")
    /\ UNCHANGED <<pc, port, leaving, lock, kept, meta, sock, tcp, ends>>

\* registerWithDetails; sr fails when nobody answers.
Register(c) ==
    /\ client[c].at = "call" /\ client[c].op = "up"
    /\ Goes(c, IF Answers THEN "done" ELSE "failed")
    /\ UNCHANGED <<pc, port, leaving, lock, kept, meta, sock, tcp, ends>>

\* sr down ignores the answer.
Shutdown(c) ==
    /\ client[c].at = "call" /\ client[c].op = "down"
    /\ leaving' = IF Answers THEN leaving \cup {sock} ELSE leaving
    /\ Goes(c, "done")
    /\ UNCHANGED <<pc, port, lock, kept, meta, sock, tcp, ends>>

ClientStep(c) ==
    \/ Look(c) \/ Poll(c) \/ GiveUp(c) \/ Register(c) \/ Shutdown(c)
    \/ \E d \in Daemons, p \in Ports : Spawn(c, d, p)

DaemonNext ==
    \/ \E d \in Daemons :
        \/ DaemonStep(d) \/ Collect(d) \/ Crash(d) \/ Quit(d)
        \/ \E p \in Ports : Foreground(d, p)
    \/ \E c \in Clients :
        \/ ClientStep(c)
        \/ \E op \in {"up", "down"} : Command(c, op)

DaemonSpec == DaemonInit /\ [][DaemonNext]_daemonVars

-----------------------------------------------------------------------------
DaemonTypeOK ==
    /\ pc \in [Daemons -> Alive \cup {"none", "dead"}]
    /\ port \in [Daemons -> Ports \cup {Unset}]
    /\ leaving \in SUBSET Daemons
    /\ lock \in Daemons \cup {Unset}
    /\ kept \in BOOLEAN
    /\ meta \in Ports \cup {Unset}
    /\ sock \in Daemons \cup {Unset}
    /\ tcp \in [Ports -> Daemons \cup {Unset}]
    /\ client \in [Clients -> [at : {"idle", "look", "spawn", "poll", "call", "done",
                                     "failed"},
                               op : {"up", "down"}, since : Nat]]
    /\ ends \in Nat

(* A daemon that is up is the one the commands find: coord.json has its     *)
(* port, the socket and the port lead to it, whatever other daemons were    *)
(* started beside it or died before it (daemon.go runDaemon, coordinator.go *)
(* Run) - as long as no daemon has lost its lock.                           *)
FoundByClients ==
    kept => \A d \in Daemons : pc[d] = "up" =>
        /\ meta = port[d]
        /\ sock = d
        /\ tcp[port[d]] = d

\* sr failed though no daemon crashed or shut down since it began.
Unexcused(c) == client[c].at = "failed" /\ ends = client[c].since

(* sr fails only when a daemon crashed or shut down under it: commands that *)
(* start a daemon at once, a stale coord.json and a socket left behind do   *)
(* not disturb it (daemon.go ensureCoordinator, liveCoordinator) - as long  *)
(* as no daemon has lost its lock.                                          *)
FailuresHaveACause == kept => \A c \in Clients : ~Unexcused(c)
=============================================================================
