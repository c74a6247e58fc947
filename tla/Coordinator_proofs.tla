-------------------------- MODULE Coordinator_proofs --------------------------
(***************************************************************************)
(* Proofs about the coordinator's process, its start-up (Daemon) and its   *)
(* event hub (EventHub): while no daemon has lost its lock, one that is up *)
(* is the one the commands find, and a command fails only when a daemon    *)
(* crashed or shut down under it; what a browser is told adds up to what   *)
(* the hub keeps, and that is the state a followed session is in.          *)
(***************************************************************************)
EXTENDS Daemon, EventHub, FiniteSetTheorems, TLAPS

(* Daemon.                                                                 *)

Locked == {"meta", "boot", "bind", "up"}

\* Every daemon past the lock has it, and who has it is past it.
Holders ==
    /\ \A d \in Daemons : pc[d] \in Locked => lock = d
    /\ \A d \in Daemons : lock = d => pc[d] \in Locked

\* What a daemon has written on its way up stays.
Written ==
    /\ \A d \in Daemons : pc[d] \in {"boot", "bind", "up"} => meta = port[d]
    /\ \A d \in Daemons : pc[d] \in {"bind", "up"} => sock = d
    /\ \A d \in Daemons : pc[d] = "up" => tcp[port[d]] = d

\* A port is taken by a daemon that is up.
Taken == \A d \in Daemons, p \in Ports : tcp[p] = d => pc[d] = "up"

Given == \A d \in Daemons : pc[d] # "none" => port[d] \in Ports

\* What a command knows while no daemon has ended since it began.
Hopeful(c) ==
    /\ client[c].at = "poll" => Live \/ \E d \in Daemons : pc[d] \in Starting
    /\ client[c].at = "call" => Answers
    /\ client[c].at # "failed"

Knows == \A c \in Clients : ends = client[c].since => Hopeful(c)
Past == \A c \in Clients : client[c].since =< ends

Safe == Holders /\ Written /\ Taken /\ Knows

DaemonInv == DaemonTypeOK /\ Given /\ Past /\ (kept => Safe)

-----------------------------------------------------------------------------
LEMMA DaemonInvInit == DaemonInit => DaemonInv
  <1> SUFFICES ASSUME DaemonInit PROVE DaemonInv
    OBVIOUS
  <1>1. DaemonTypeOK
    BY DEF DaemonInit, DaemonTypeOK, Alive
  <1>2. Given /\ Past
    BY DEF DaemonInit, Given, Past
  <1>3. Safe
    BY DaemonAssumption DEF DaemonInit, Safe, Holders, Written, Taken, Knows, Hopeful, Locked
  <1> QED BY <1>1, <1>2, <1>3 DEF DaemonInv

\* The parts that hold whether or not a lock was lost.
LEMMA DaemonTypeStep ==
  DaemonTypeOK /\ Given /\ Past /\ [DaemonNext]_daemonVars => DaemonTypeOK' /\ Given' /\ Past'
  <1> SUFFICES ASSUME DaemonTypeOK, Given, Past, [DaemonNext]_daemonVars
               PROVE  DaemonTypeOK' /\ Given' /\ Past'
    OBVIOUS
  <1> USE DEF DaemonTypeOK, Given, Past, Alive
  <1>1. ASSUME NEW d \in Daemons, DaemonStep(d) PROVE DaemonTypeOK' /\ Given' /\ Past'
    <2>1. CASE TryLock(d)
      BY <2>1 DEF TryLock
    <2>2. CASE WriteMeta(d)
      BY <2>2 DEF WriteMeta
    <2>3. CASE Listen(d)
      BY <2>3 DEF Listen
    <2>4. CASE BindPort(d)
      BY <2>4 DEF BindPort
    <2>5. CASE PortTaken(d)
      BY <2>5 DEF PortTaken, Dies
    <2> QED BY <1>1, <2>1, <2>2, <2>3, <2>4, <2>5 DEF DaemonStep
  <1>2. ASSUME NEW d \in Daemons, Collect(d) PROVE DaemonTypeOK' /\ Given' /\ Past'
    BY <1>2 DEF Collect
  <1>3. ASSUME NEW d \in Daemons, Crash(d) \/ Quit(d) PROVE DaemonTypeOK' /\ Given' /\ Past'
    BY <1>3 DEF Crash, Quit, Dies
  <1>4. ASSUME NEW d \in Daemons, NEW p \in Ports, Foreground(d, p)
        PROVE DaemonTypeOK' /\ Given' /\ Past'
    BY <1>4 DEF Foreground, Started
  <1>5. ASSUME NEW c \in Clients, ClientStep(c) PROVE DaemonTypeOK' /\ Given' /\ Past'
    <2>1. CASE Look(c)
      BY <2>1 DEF Look, Goes
    <2>2. CASE Poll(c)
      BY <2>2 DEF Poll, Goes
    <2>3. CASE GiveUp(c)
      BY <2>3 DEF GiveUp, Goes
    <2>4. CASE Register(c)
      BY <2>4 DEF Register, Goes
    <2>5. CASE Shutdown(c)
      BY <2>5 DEF Shutdown, Goes, Answers
    <2>6. ASSUME NEW d \in Daemons, NEW p \in Ports, Spawn(c, d, p)
          PROVE DaemonTypeOK' /\ Given' /\ Past'
      BY <2>6 DEF Spawn, Started, Goes
    <2> QED BY <1>5, <2>1, <2>2, <2>3, <2>4, <2>5, <2>6 DEF ClientStep
  <1>6. ASSUME NEW c \in Clients, NEW op \in {"up", "down"}, Command(c, op)
        PROVE DaemonTypeOK' /\ Given' /\ Past'
    BY <1>6 DEF Command
  <1>7. CASE UNCHANGED daemonVars
    BY <1>7 DEF daemonVars
  <1> QED BY <1>1, <1>2, <1>3, <1>4, <1>5, <1>6, <1>7 DEF DaemonNext

-----------------------------------------------------------------------------
(* The steps of one daemon, while every flock is kept.                     *)

LEMMA DaemonSafe ==
  ASSUME DaemonTypeOK, Given, Safe, NEW d \in Daemons, DaemonStep(d)
  PROVE  Safe'
  <1> USE DEF DaemonTypeOK, Given, Safe
  <1>1. CASE TryLock(d)
    <2>1. CASE lock = Unset
      <3>1. Holders'
        BY <1>1, <2>1, DaemonAssumption DEF TryLock, Holders, Locked
      <3>2. Written' /\ Taken'
        BY <1>1, <2>1, DaemonAssumption DEF TryLock, Written, Taken
      <3>3. Knows'
        BY <1>1, <2>1 DEF TryLock, Knows, Hopeful, Live, Answers, Starting
      <3> QED BY <3>1, <3>2, <3>3
    <2>2. CASE lock # Unset
      <3>1. Holders'
        BY <1>1, <2>2 DEF TryLock, Holders, Locked
      <3>2. Written' /\ Taken'
        BY <1>1, <2>2, DaemonAssumption DEF TryLock, Written, Taken
      <3>3. Live' \/ \E e \in Daemons : pc'[e] \in Starting
        <4>1. PICK e \in Daemons : lock = e
          BY <2>2
        <4>2. e # d /\ pc[e] \in Locked /\ pc'[e] = pc[e]
          BY <1>1, <4>1 DEF TryLock, Holders, Locked
        <4>3. CASE pc[e] \in {"bind", "up"}
          BY <1>1, <4>2, <4>3, DaemonAssumption DEF TryLock, Written, Live, Answers
        <4> QED BY <4>2, <4>3 DEF Locked, Starting
      <3>4. Answers => Answers'
        BY <1>1, <2>2 DEF TryLock, Answers
      <3>5. Knows'
        BY <1>1, <2>2, <3>3, <3>4 DEF TryLock, Knows, Hopeful
      <3> QED BY <3>1, <3>2, <3>5
    <2> QED BY <2>1, <2>2
  <1>2. CASE WriteMeta(d)
    <2>1. Holders'
      BY <1>2 DEF WriteMeta, Holders, Locked
    <2>2. \A e \in Daemons : pc[e] \in {"boot", "bind", "up"} => e = d
      BY <1>2 DEF WriteMeta, Holders, Locked
    <2>3. Written' /\ Taken'
      BY <1>2, <2>2, DaemonAssumption DEF WriteMeta, Written, Taken
    <2>4. Knows'
      BY <1>2 DEF WriteMeta, Knows, Hopeful, Live, Answers, Starting
    <2> QED BY <2>1, <2>3, <2>4
  <1>3. CASE Listen(d)
    <2>1. Holders'
      BY <1>3 DEF Listen, Holders, Locked
    <2>2. \A e \in Daemons : pc[e] \in {"boot", "bind", "up"} => e = d
      BY <1>3 DEF Listen, Holders, Locked
    <2>3. Written' /\ Taken'
      BY <1>3, <2>2, DaemonAssumption DEF Listen, Written, Taken
    <2>4. Live' /\ Answers'
      BY <1>3, <2>2, DaemonAssumption DEF Listen, Written, Live, Answers
    <2>5. Knows'
      BY <1>3, <2>4 DEF Listen, Knows, Hopeful
    <2> QED BY <2>1, <2>3, <2>5
  <1>4. CASE BindPort(d)
    <2>1. Holders'
      BY <1>4 DEF BindPort, Holders, Locked
    <2>2. \A e \in Daemons : pc[e] = "up" => e = d
      BY <1>4 DEF BindPort, Holders, Locked
    <2>3. Written' /\ Taken'
      BY <1>4, <2>2, DaemonAssumption DEF BindPort, Written, Taken
    <2>4. Knows'
      BY <1>4 DEF BindPort, Knows, Hopeful, Live, Answers, Starting
    <2> QED BY <2>1, <2>3, <2>4
  <1>5. ~PortTaken(d)
    <2> SUFFICES ASSUME PortTaken(d) PROVE FALSE
      OBVIOUS
    <2>1. port[d] \in Ports /\ tcp[port[d]] # Unset /\ pc[d] = "bind"
      BY DEF PortTaken
    <2>2. PICK e \in Daemons : tcp[port[d]] = e
      BY <2>1
    <2>3. pc[e] = "up"
      BY <2>1, <2>2 DEF Taken
    <2> QED BY <2>1, <2>3 DEF Holders, Locked
  <1> QED BY <1>1, <1>2, <1>3, <1>4, <1>5 DEF DaemonStep

\* A daemon that ends leaves the others as they were; of the commands, those
\* under way have their cause.
LEMMA EndSafe ==
  ASSUME DaemonTypeOK, Given, Past, Safe, NEW d \in Daemons, Crash(d) \/ Quit(d)
  PROVE  Safe'
  <1> USE DEF DaemonTypeOK, Safe
  <1>1. Dies(d) /\ ends' = ends + 1
    BY DEF Crash, Quit
  <1>2. Holders'
    BY <1>1, DaemonAssumption DEF Dies, Holders, Locked
  <1>3. Written'
    BY <1>1, DaemonAssumption DEF Dies, Written, Given
  <1>4. Taken'
    BY <1>1, DaemonAssumption DEF Dies, Taken
  <1>5. Knows'
    BY <1>1 DEF Dies, Knows, Past
  <1> QED BY <1>2, <1>3, <1>4, <1>5

LEMMA StartSafe ==
  ASSUME DaemonTypeOK, Safe, NEW d \in Daemons, NEW p \in Ports, Started(d, p),
         UNCHANGED <<leaving, lock, kept, meta, sock, tcp, ends>>
  PROVE  /\ Holders' /\ Written' /\ Taken'
         /\ pc'[d] \in Starting
         /\ Answers => Answers'
         /\ Live => Live'
         /\ \A e \in Daemons : pc[e] \in Starting => pc'[e] \in Starting
  <1> USE DEF DaemonTypeOK, Safe, Started
  <1>1. Holders'
    BY DEF Holders, Locked
  <1>2. Written' /\ Taken'
    BY DaemonAssumption DEF Written, Taken
  <1>3. pc'[d] \in Starting
    BY DEF Starting
  <1>4. (Answers => Answers') /\ (Live => Live')
    BY DEF Answers, Live
  <1> QED BY <1>1, <1>2, <1>3, <1>4 DEF Starting

LEMMA ClientSafe ==
  ASSUME DaemonTypeOK, Safe, NEW c \in Clients, ClientStep(c)
  PROVE  Safe'
  <1> USE DEF DaemonTypeOK, Safe
  <1>1. ASSUME Look(c) \/ Poll(c) \/ GiveUp(c) \/ Register(c) \/ Shutdown(c)
        PROVE Safe'
    <2>1. UNCHANGED <<pc, port, lock, kept, meta, sock, tcp, ends>>
      BY <1>1 DEF Look, Poll, GiveUp, Register, Shutdown
    <2>2. Holders' /\ Written' /\ Taken'
      BY <2>1 DEF Holders, Written, Taken
    <2>3. (Live' = Live) /\ (Answers' = Answers)
      BY <2>1 DEF Live, Answers
    <2>4. \A x \in Clients \ {c} : client'[x] = client[x]
      BY <1>1 DEF Look, Poll, GiveUp, Register, Shutdown, Goes
    <2>5. \A x \in Clients : client'[x].since = client[x].since
      BY <1>1 DEF Look, Poll, GiveUp, Register, Shutdown, Goes
    <2>6. ASSUME ends = client[c].since PROVE Hopeful(c)'
      <3>1. Hopeful(c)
        BY <2>6 DEF Knows
      <3>2. CASE Look(c)
        BY <3>2, <2>3 DEF Look, Goes, Hopeful, Live
      <3>3. CASE Poll(c)
        BY <3>3, <2>3 DEF Poll, Goes, Hopeful, Live
      <3>4. CASE GiveUp(c)
        BY <3>4, <3>1 DEF GiveUp, Goes, Hopeful
      <3>5. CASE Register(c)
        BY <3>5, <3>1, <2>3 DEF Register, Goes, Hopeful
      <3>6. CASE Shutdown(c)
        BY <3>6 DEF Shutdown, Goes, Hopeful
      <3> QED BY <1>1, <3>2, <3>3, <3>4, <3>5, <3>6
    <2>7. \A x \in Clients \ {c} : Hopeful(x) => Hopeful(x)'
      BY <2>1, <2>3, <2>4 DEF Hopeful
    <2>8. Knows'
      BY <2>1, <2>5, <2>6, <2>7 DEF Knows
    <2> QED BY <2>2, <2>8
  <1>2. ASSUME NEW d \in Daemons, NEW p \in Ports, Spawn(c, d, p) PROVE Safe'
    <2>1. Started(d, p) /\ UNCHANGED <<leaving, lock, kept, meta, sock, tcp, ends>>
      BY <1>2 DEF Spawn
    <2>2. client' = [client EXCEPT ![c].at = "poll"]
      BY <1>2 DEF Spawn, Goes
    <2>3. Knows'
      BY <2>1, <2>2, StartSafe DEF Knows, Hopeful
    <2> QED BY <2>1, <2>3, StartSafe
  <1> QED BY <1>1, <1>2 DEF ClientStep

LEMMA DaemonSafeStep == DaemonInv /\ [DaemonNext]_daemonVars /\ kept' => Safe'
  <1> SUFFICES ASSUME DaemonInv, [DaemonNext]_daemonVars, kept' PROVE Safe'
    OBVIOUS
  <1>1. kept \/ \E d \in Daemons : Collect(d)
    BY DEF DaemonNext, daemonVars, DaemonStep, TryLock, WriteMeta, Listen, BindPort, PortTaken, Dies,
           Crash, Quit, Foreground, ClientStep, Look, Poll, GiveUp, Register, Shutdown,
           Spawn, Command
  <1>2. kept
    BY <1>1 DEF Collect
  <1>3. DaemonTypeOK /\ Given /\ Past /\ Safe
    BY <1>2 DEF DaemonInv
  <1>4. ASSUME NEW d \in Daemons, NEW p \in Ports, Foreground(d, p) PROVE Safe'
    <2>1. Started(d, p) /\ UNCHANGED <<leaving, lock, kept, meta, sock, tcp, ends>>
          /\ client' = client
      BY <1>4 DEF Foreground
    <2>2. Knows'
      BY <1>3, <2>1, StartSafe DEF Knows, Hopeful, Safe
    <2> QED BY <1>3, <2>1, <2>2, StartSafe DEF Safe
  <1>5. ASSUME NEW c \in Clients, NEW op \in {"up", "down"}, Command(c, op) PROVE Safe'
    <2>1. UNCHANGED <<pc, port, lock, meta, sock, tcp, ends>>
      BY <1>5 DEF Command
    <2>2. Holders' /\ Written' /\ Taken'
      BY <1>3, <2>1 DEF Safe, Holders, Written, Taken
    <2>3. (Live' = Live) /\ (Answers' = Answers)
      BY <2>1 DEF Live, Answers
    <2>4. Knows'
      BY <1>3, <1>5, <2>1, <2>3 DEF Command, Safe, Knows, Hopeful, DaemonTypeOK
    <2> QED BY <2>2, <2>4 DEF Safe
  <1>6. CASE UNCHANGED daemonVars
    BY <1>3, <1>6 DEF daemonVars, Safe, Holders, Written, Taken, Knows, Hopeful, Live, Answers
  <1>7. ASSUME NEW d \in Daemons, Collect(d) PROVE Safe'
    BY <1>7 DEF Collect
  <1> QED BY <1>3, <1>4, <1>5, <1>6, <1>7, DaemonSafe, EndSafe, ClientSafe DEF DaemonNext

THEOREM DaemonInvariance == DaemonSpec => []DaemonInv
  <1>1. DaemonInv /\ [DaemonNext]_daemonVars => DaemonInv'
    BY DaemonTypeStep, DaemonSafeStep DEF DaemonInv
  <1> QED BY DaemonInvInit, <1>1, PTL DEF DaemonSpec

(* Every reachable state of Daemon satisfies the type invariant, for all    *)
(* processes and ports.                                                     *)
THEOREM DaemonTypeCorrect == DaemonSpec => []DaemonTypeOK
  <1>1. DaemonInv => DaemonTypeOK
    BY DEF DaemonInv
  <1> QED BY DaemonInvariance, <1>1, PTL

(* While no flock is lost, a daemon that is up is the one the commands      *)
(* find, however many are started beside it (daemon.go runDaemon).          *)
THEOREM UpMeansFound == DaemonSpec => []FoundByClients
  <1>1. DaemonInv => FoundByClients
    BY DEF DaemonInv, Safe, Written, FoundByClients
  <1> QED BY DaemonInvariance, <1>1, PTL

(* While no flock is lost, sr fails only when a daemon crashed or shut down *)
(* under it, for any number of commands that start daemons at once          *)
(* (daemon.go ensureCoordinator).                                           *)
THEOREM FailuresAreExcused == DaemonSpec => []FailuresHaveACause
  <1>1. DaemonInv => FailuresHaveACause
    BY DEF DaemonInv, Safe, Knows, Hopeful, FailuresHaveACause, Unexcused
  <1> QED BY DaemonInvariance, <1>1, PTL

-----------------------------------------------------------------------------
(* EventHub.                                                               *)

KeptMap == [Workers -> [Sessions -> Kept]]

\* What an event is about, and what it makes the hub keep.
About(e, w, s) == e.w = w /\ (e.st = "gone" \/ e.s = s)
Says(e) == IF e.st \in {"gone", "exited"} THEN None ELSE e.st

\* A goroutine that reads a worker says so, and is the one in the map if one is.
Linked ==
    /\ \A r \in Readers : rpc[r] # None => rw[r] \in Workers
    /\ \A w \in Workers :
          readers[w] # None /\ rpc[readers[w]] # None => rw[readers[w]] = w

\* What a reader holds is of its own worker and about one session, and it holds
\* nothing before it connects or after it returned.
OwnEvent(r, e) == e.w = rw[r] /\ e.s \in Sessions /\ e.st # "gone"
Own ==
    /\ \A r \in Readers : \A e \in rsnap[r] : OwnEvent(r, e)
    /\ \A r \in Readers : \A i \in 1..Len(rbuf[r]) : OwnEvent(r, rbuf[r][i])
    /\ \A r \in Readers : rpc[r] \notin {"stream", "broken"} => rbuf[r] = <<>>
    /\ \A r \in Readers : rpc[r] # "seed" => rsnap[r] = {}

Lives(w, s) == sess[w][s] \in {"idle", "running"}

\* A session that lives emits the state it is in, if any.
EmitsItsState ==
    \A w \in Workers, s \in Sessions :
        /\ Lives(w, s) => pend[w][s] \subseteq {sess[w][s]}
        /\ sess[w][s] = "none" => s \notin moved[w] /\ pend[w][s] = {}

\* The last event about a session on its way to the hub has its state, or what the hub
\* keeps has.
LastInPipe(r, i, w, s) ==
    /\ rbuf[r][i].s = s
    /\ rbuf[r][i].st = sess[w][s]
    /\ \A j \in (i + 1)..Len(rbuf[r]) : rbuf[r][j].s # s
InPipe(r, w, s) ==
    \/ \E i \in 1..Len(rbuf[r]) : LastInPipe(r, i, w, s)
    \/ (\A i \in 1..Len(rbuf[r]) : rbuf[r][i].s # s) /\ last[w][s] = sess[w][s]

Current(w, s) ==
    Following(w) /\ s \in moved[w] /\ Lives(w, s) /\ pend[w][s] = {} =>
        InPipe(readers[w], w, s)
CurrentInPipe == \A w \in Workers, s \in Sessions : Current(w, s)

\* The last event about a session on its way to a browser, or what the browser was
\* told, is what the hub keeps.
LastInChannel(b, i, w, s) ==
    /\ About(bbuf[b][i], w, s)
    /\ Says(bbuf[b][i]) = last[w][s]
    /\ \A j \in (i + 1)..Len(bbuf[b]) : ~About(bbuf[b][j], w, s)
InChannel(b, w, s) ==
    \/ \E i \in 1..Len(bbuf[b]) : LastInChannel(b, i, w, s)
    \/ /\ \A i \in 1..Len(bbuf[b]) : ~About(bbuf[b][i], w, s)
       /\ told[b][w][s] = last[w][s]

SnapshotInChannel ==
    \A b \in sub \ missed : \A w \in Workers, s \in Sessions : InChannel(b, w, s)

HubInv == TypeOK /\ Linked /\ Own /\ EmitsItsState /\ CurrentInPipe /\ SnapshotInChannel

-----------------------------------------------------------------------------
(* What the operators of the hub do.                                       *)

LEMMA AfterIs ==
  ASSUME NEW map \in KeptMap, NEW e \in Event
  PROVE  /\ After(map, e) \in KeptMap
         /\ \A w \in Workers, s \in Sessions :
               After(map, e)[w][s] = IF About(e, w, s) THEN Says(e) ELSE map[w][s]
  <1> USE DEF KeptMap, Kept, Event, EventState, About, Says
  <1>1. CASE e.st = "gone"
    BY <1>1 DEF After, Nothing
  <1>2. CASE e.st = "exited"
    BY <1>2 DEF After
  <1>3. CASE e.st \in {"idle", "running"}
    BY <1>3 DEF After
  <1> QED BY <1>1, <1>2, <1>3

LEMMA NothingTyped == NothingKept \in KeptMap
  BY DEF NothingKept, Nothing, KeptMap, Kept

\* A permutation of a finite set is a sequence of its elements that has each once.
LEMMA Permuted ==
  ASSUME NEW S, IsFiniteSet(S), NEW q \in SetToSeqs(S)
  PROVE  /\ Len(q) \in Nat /\ q \in [1..Len(q) -> S]
         /\ \A e \in S : \E i \in 1..Len(q) : q[i] = e
         /\ \A i, j \in 1..Len(q) : q[i] = q[j] => i = j
  <1> DEFINE n == Cardinality(S)
  <1>1. n \in Nat /\ q \in [1..n -> S] /\ \A i, j \in 1..n : i # j => q[i] # q[j]
    BY FS_CardinalityType DEF SetToSeqs
  <1>2. q \in Injection(1..n, S)
    BY <1>1 DEF Injection, IsInjective
  <1>3. Cardinality(1..n) = n
    BY <1>1, FS_Interval
  <1>4. q \in Surjection(1..n, S)
    BY <1>2, <1>3, FS_Injection
  <1>5. Len(q) = n
    BY <1>1
  <1> QED BY <1>1, <1>4, <1>5 DEF Surjection

\* A set with one record for each member of a finite set is as large as that.
LEMMA Imaged ==
  ASSUME NEW S, IsFiniteSet(S), NEW f, DOMAIN f = S,
         \A x, y \in S : f[x] = f[y] => x = y
  PROVE  IsFiniteSet({f[x] : x \in S}) /\ Cardinality({f[x] : x \in S}) = Cardinality(S)
  <1> DEFINE T == {f[x] : x \in S}
             g == [x \in S |-> f[x]]
  <1>1. g \in Bijection(S, T)
    BY DEF Bijection, Injection, Surjection, IsInjective
  <1> QED BY <1>1, FS_Bijection DEF ExistsBijection

GoneEvents(gone) == {[w |-> w, s |-> None, st |-> "gone"] : w \in gone}

LEMMA GoneEventsFinite ==
  ASSUME NEW gone \in SUBSET Workers
  PROVE  IsFiniteSet(GoneEvents(gone)) /\ GoneEvents(gone) \subseteq Event
  <1> DEFINE f == [w \in gone |-> [w |-> w, s |-> None, st |-> "gone"]]
  <1>1. IsFiniteSet(gone)
    BY FiniteAssumption, FS_Subset
  <1>2. \A x, y \in gone : f[x] = f[y] => x = y
    <2> SUFFICES ASSUME NEW x \in gone, NEW y \in gone, f[x] = f[y] PROVE x = y
      OBVIOUS
    <2>1. f[x].w = x /\ f[y].w = y
      OBVIOUS
    <2> QED BY <2>1
  <1>3. IsFiniteSet({f[w] : w \in gone})
    <2> HIDE DEF f
    <2>1. DOMAIN f = gone
      BY DEF f
    <2> QED BY <1>1, <1>2, <2>1, Imaged
  <1>4. GoneEvents(gone) = {f[w] : w \in gone}
    BY DEF GoneEvents
  <1> QED BY <1>3, <1>4 DEF GoneEvents, Event, EventState

KeptEvents == {[w |-> x[1], s |-> x[2], st |-> last[x[1]][x[2]]] : x \in Keeping}

LEMMA KeptEventsFinite ==
  ASSUME last \in KeptMap
  PROVE  /\ IsFiniteSet(KeptEvents)
         /\ Cardinality(Keeping) \in Nat /\ Cardinality(KeptEvents) = Cardinality(Keeping)
         /\ KeptEvents \subseteq Event
         /\ \A e \in KeptEvents : e.st = last[e.w][e.s] /\ e.st \in {"idle", "running"}
  <1> DEFINE f == [x \in Keeping |-> [w |-> x[1], s |-> x[2], st |-> last[x[1]][x[2]]]]
  <1>1. IsFiniteSet(Keeping)
    BY FiniteAssumption, FS_Product, FS_Subset DEF Keeping
  <1>2. \A x, y \in Keeping : f[x] = f[y] => x = y
    <2> SUFFICES ASSUME NEW x \in Keeping, NEW y \in Keeping, f[x] = f[y] PROVE x = y
      OBVIOUS
    <2>1. f[x].w = x[1] /\ f[x].s = x[2] /\ f[y].w = y[1] /\ f[y].s = y[2]
      OBVIOUS
    <2>2. x \in Workers \X Sessions /\ y \in Workers \X Sessions
      BY DEF Keeping
    <2>3. x = <<x[1], x[2]>> /\ y = <<y[1], y[2]>>
      BY <2>2
    <2>4. x[1] = y[1] /\ x[2] = y[2]
      BY <2>1
    <2> QED BY <2>3, <2>4
  <1>3. /\ IsFiniteSet({f[x] : x \in Keeping})
        /\ Cardinality({f[x] : x \in Keeping}) = Cardinality(Keeping)
    <2> HIDE DEF f
    <2>1. DOMAIN f = Keeping
      BY DEF f
    <2> QED BY <1>1, <1>2, <2>1, Imaged
  <1>4. KeptEvents = {f[x] : x \in Keeping}
    BY DEF KeptEvents
  <1>5. ASSUME NEW e \in KeptEvents
        PROVE  e \in Event /\ e.st = last[e.w][e.s] /\ e.st \in {"idle", "running"}
    <2>1. PICK x \in Keeping : e = [w |-> x[1], s |-> x[2], st |-> last[x[1]][x[2]]]
      BY DEF KeptEvents
    <2>2. x[1] \in Workers /\ x[2] \in Sessions /\ last[x[1]][x[2]] # None
      BY DEF Keeping
    <2>3. last[x[1]][x[2]] \in {"idle", "running"}
      BY <2>2 DEF KeptMap, Kept
    <2>4. e.w = x[1] /\ e.s = x[2] /\ e.st = last[x[1]][x[2]]
      BY <2>1
    <2> QED BY <2>1, <2>2, <2>3, <2>4 DEF Event, EventState
  <1>6. Cardinality(Keeping) \in Nat
    BY <1>1, FS_CardinalityType
  <1> QED BY <1>3, <1>4, <1>5, <1>6

LEMMA BroadcastTyped ==
  ASSUME TypeOK, NEW es \in Seq(Event), Broadcast(es)
  PROVE  /\ sub' \subseteq Browsers /\ missed' \subseteq Browsers
         /\ bbuf' \in [Browsers -> Seq(Event)]
         /\ \A b \in Browsers : Len(bbuf'[b]) <= BrowserCap
         /\ told' \in [Browsers -> [Workers -> [Sessions -> Kept]]]
  <1>1. missed' \subseteq Browsers /\ sub' = sub
    BY DEF TypeOK, Broadcast
  <1>2. told' \in [Browsers -> KeptMap]
    BY NothingTyped DEF TypeOK, Broadcast, KeptMap
  <1>3. ASSUME NEW b \in Browsers
        PROVE  bbuf'[b] \in Seq(Event) /\ Len(bbuf'[b]) <= BrowserCap
    <2>1. CASE b \in sub \ missed'
      <3>1. bbuf'[b] = bbuf[b] \o es /\ ~(Len(bbuf[b]) + Len(es) > BrowserCap)
        BY <2>1 DEF Broadcast
      <3>2. bbuf[b] \in Seq(Event)
        BY DEF TypeOK
      <3> QED BY <3>1, <3>2, CapAssumption
    <2>2. CASE b \notin sub \ missed'
      <3>1. bbuf'[b] = <<>>
        BY <2>2 DEF Broadcast
      <3> QED BY <3>1, CapAssumption
    <2> QED BY <2>1, <2>2
  <1>4. bbuf' \in [Browsers -> Seq(Event)]
    BY <1>3 DEF Broadcast
  <1> QED BY <1>1, <1>2, <1>3, <1>4 DEF TypeOK, KeptMap

LEMMA RecordTyped ==
  ASSUME TypeOK, NEW e \in Event, Record(e)
  PROVE  /\ sub' \subseteq Browsers /\ missed' \subseteq Browsers
         /\ bbuf' \in [Browsers -> Seq(Event)]
         /\ \A b \in Browsers : Len(bbuf'[b]) <= BrowserCap
         /\ told' \in [Browsers -> [Workers -> [Sessions -> Kept]]]
         /\ last' \in [Workers -> [Sessions -> Kept]]
  <1>1. <<e>> \in Seq(Event) /\ Broadcast(<<e>>)
    BY DEF Record
  <1>2. last' \in KeptMap
    BY AfterIs DEF Record, TypeOK, KeptMap
  <1> QED BY <1>1, <1>2, BroadcastTyped DEF KeptMap

\* What syncReaders makes of the map and of the goroutines: a worker that runs and was
\* not followed gets one of its own, one that was followed and does not run loses its.
LEMMA SyncIs ==
  ASSUME TypeOK, SyncReaders
  PROVE  \E start \in Injection(Running \ Followed, Free) :
            /\ \A w \in Workers :
                  readers'[w] = IF w \in Followed \ Running THEN None
                                ELSE IF w \in Running \ Followed THEN start[w] ELSE readers[w]
            /\ readers' \in [Workers -> Readers \cup {None}]
            /\ \A r \in Readers : rpc'[r] = IF r \in Range(start) THEN "fetch" ELSE rpc[r]
            /\ rpc' \in [Readers -> {None, "fetch", "seed", "stream", "broken"}]
            /\ \A r \in Readers \ Range(start) : rw'[r] = rw[r]
            /\ \A w \in Running \ Followed : rw'[start[w]] = w
            /\ rw' \in [Readers -> Workers \cup {None}]
  <1> DEFINE new == Running \ Followed
             gone == Followed \ Running
  <1>1. PICK start \in Injection(new, Free) :
            /\ readers' = [w \in Workers |-> IF w \in gone THEN None
                                              ELSE IF w \in new THEN start[w] ELSE readers[w]]
            /\ rpc' = [r \in Readers |-> IF r \in Range(start) THEN "fetch" ELSE rpc[r]]
            /\ rw' = [r \in Readers |-> IF r \in Range(start) THEN AntiFunction(start)[r]
                                                               ELSE rw[r]]
    BY DEF SyncReaders
  <1>2. start \in [new -> Free] /\ \A v, w \in new : start[v] = start[w] => v = w
    BY DEF Injection, IsInjective
  <1>3. new \subseteq Workers /\ Free \subseteq Readers
    BY DEF Running, Free
  <1>4. \A w \in Workers : readers'[w] = IF w \in gone THEN None
                                         ELSE IF w \in new THEN start[w] ELSE readers[w]
    BY <1>1
  <1>5. readers' \in [Workers -> Readers \cup {None}]
    BY <1>1, <1>2, <1>3, <1>4 DEF TypeOK
  <1>6. Range(start) \subseteq Readers
    BY <1>2, <1>3 DEF Range
  <1>7. \A r \in Readers : rw'[r] = IF r \in Range(start) THEN AntiFunction(start)[r]
                                    ELSE rw[r]
    BY <1>1
  <1>8. \A w \in new : start[w] \in Range(start) /\ AntiFunction(start)[start[w]] = w
    BY <1>2 DEF Range, AntiFunction, Inverse
  <1>9. \A r \in Range(start) : \E w \in new : r = start[w]
    BY <1>2 DEF Range
  <1>10. \A r \in Readers : rw'[r] \in Workers \cup {None}
    <2> TAKE r \in Readers
    <2>1. CASE r \in Range(start)
      <3>1. PICK w \in new : r = start[w]
        BY <1>9, <2>1
      <3> QED BY <1>3, <1>7, <1>8, <2>1, <3>1
    <2>2. CASE r \notin Range(start)
      BY <1>7, <2>2 DEF TypeOK
    <2> QED BY <2>1, <2>2
  <1>11. \A w \in new : rw'[start[w]] = w
    BY <1>6, <1>7, <1>8
  <1>12. rw' \in [Readers -> Workers \cup {None}]
    BY <1>1, <1>10
  <1>13. rpc' \in [Readers -> {None, "fetch", "seed", "stream", "broken"}]
    BY <1>1 DEF TypeOK
  <1>14. \A r \in Readers \ Range(start) : rw'[r] = rw[r]
    BY <1>7
  <1> QED BY <1>1, <1>4, <1>5, <1>11, <1>12, <1>13, <1>14

\* Telling the browsers of each worker that is gone, in an order.
LEMMA GoneIs ==
  ASSUME SyncReaders
  PROVE  \E es \in Seq(Event) :
            /\ Broadcast(es)
            /\ \A i \in 1..Len(es) : es[i].w \in Followed \ Running /\ es[i].st = "gone"
            /\ \A w \in Followed \ Running : \E i \in 1..Len(es) : es[i].w = w
            /\ \A i, j \in 1..Len(es) : es[i].w = es[j].w => i = j
  <1> DEFINE gone == Followed \ Running
  <1>1. gone \in SUBSET Workers
    BY DEF Followed
  <1>2. PICK es \in SetToSeqs(GoneEvents(gone)) : Broadcast(es)
    BY DEF SyncReaders, GoneEvents
  <1>3. IsFiniteSet(GoneEvents(gone)) /\ GoneEvents(gone) \subseteq Event
    BY <1>1, GoneEventsFinite
  <1>4. /\ Len(es) \in Nat /\ es \in [1..Len(es) -> GoneEvents(gone)]
        /\ \A e \in GoneEvents(gone) : \E i \in 1..Len(es) : es[i] = e
        /\ \A i, j \in 1..Len(es) : es[i] = es[j] => i = j
    BY <1>3, Permuted
  <1>5. es \in Seq(Event)
    <2>1. Len(es) \in Nat /\ es \in [1..Len(es) -> Event]
      BY <1>3, <1>4
    <2> QED BY <2>1
  <1>6. \A i \in 1..Len(es) : es[i] \in GoneEvents(gone)
    BY <1>4
  <1>7. \A e \in GoneEvents(gone) :
            e.w \in gone /\ e.st = "gone" /\ e = [w |-> e.w, s |-> None, st |-> "gone"]
    BY DEF GoneEvents
  <1>8. ASSUME NEW w \in gone PROVE [w |-> w, s |-> None, st |-> "gone"] \in GoneEvents(gone)
    BY DEF GoneEvents
  <1>9. ASSUME NEW w \in gone PROVE \E i \in 1..Len(es) : es[i].w = w
    <2>1. PICK i \in 1..Len(es) : es[i] = [w |-> w, s |-> None, st |-> "gone"]
      BY <1>4, <1>8
    <2> QED BY <2>1
  <1>10. ASSUME NEW i \in 1..Len(es), NEW j \in 1..Len(es), es[i].w = es[j].w
         PROVE  i = j
    <2>1. es[i] = es[j]
      BY <1>6, <1>7, <1>10
    <2> QED BY <1>4, <2>1
  <1> QED BY <1>2, <1>5, <1>6, <1>7, <1>9, <1>10

-----------------------------------------------------------------------------
(* Types.                                                                  *)

LEMMA HubInvInit == Init => HubInv
  <1> SUFFICES ASSUME Init PROVE HubInv
    OBVIOUS
  <1> USE DEF Init
  <1>1. TypeOK
    BY CapAssumption DEF TypeOK, NothingKept, Nothing, Kept, SessState
  <1>2. Linked /\ Own
    BY DEF Linked, Own
  <1>3. EmitsItsState /\ CurrentInPipe /\ SnapshotInChannel
    BY DEF EmitsItsState, Lives, CurrentInPipe, Current, SnapshotInChannel
  <1> QED BY <1>1, <1>2, <1>3 DEF HubInv

LEMMA ReaderTyped ==
  ASSUME TypeOK, Linked, NEW r \in Readers, ReaderStep(r)
  PROVE  TypeOK'
  <1>1. CASE Fetch(r)
    <2>1. rw[r] \in Workers
      BY <1>1, NoneAssumption DEF Fetch, Linked
    <2>2. rsnap' \in [Readers -> SUBSET Event]
      <3>1. CASE UNCHANGED rsnap
        BY <3>1 DEF TypeOK
      <3>2. ASSUME NEW listed \in SUBSET {s \in Sessions : sess[rw[r]][s] \notin {"none", "lost"}},
                   rsnap' = [rsnap EXCEPT ![r] =
                              {[w |-> rw[r], s |-> s, st |-> sess[rw[r]][s]] : s \in listed}]
            PROVE  rsnap' \in [Readers -> SUBSET Event]
        <4>1. \A s \in listed : s \in Sessions /\ sess[rw[r]][s] \in EventState
          BY <2>1 DEF TypeOK, SessState, EventState
        <4>2. {[w |-> rw[r], s |-> s, st |-> sess[rw[r]][s]] : s \in listed} \in SUBSET Event
          BY <2>1, <4>1 DEF Event
        <4> QED BY <3>2, <4>2 DEF TypeOK
      <3> QED BY <1>1, <3>1, <3>2 DEF Fetch
    <2> QED BY <1>1, <2>2 DEF Fetch, TypeOK, workerVars, browserVars
  <1>2. CASE Seed(r)
    <2>1. PICK e \in rsnap[r] :
             Record(e) /\ MovedUnlessStale(r, e) /\ rsnap' = [rsnap EXCEPT ![r] = @ \ {e}]
      BY <1>2 DEF Seed
    <2>2. e \in Event
      BY DEF TypeOK
    <2>3. moved' \in [Workers -> SUBSET Sessions] /\ rsnap' \in [Readers -> SUBSET Event]
      BY <2>1 DEF MovedUnlessStale, TypeOK
    <2> QED BY <1>2, <2>1, <2>2, <2>3, RecordTyped DEF Seed, TypeOK, workerVars
  <1>3. CASE Connect(r)
    BY <1>3 DEF Connect, Return, TypeOK, workerVars, browserVars
  <1>4. CASE Receive(r)
    <2> DEFINE e == Head(rbuf[r])
    <2>1. rbuf[r] \in Seq(Event) /\ rbuf[r] # <<>>
      BY <1>4 DEF Receive, TypeOK
    <2>2. e \in Event /\ Tail(rbuf[r]) \in Seq(Event) /\ Len(Tail(rbuf[r])) = Len(rbuf[r]) - 1
          /\ Len(rbuf[r]) \in Nat
      BY <2>1
    <2>3. moved' \in [Workers -> SUBSET Sessions]
      BY <1>4 DEF Receive, MovedUnlessStale, TypeOK
    <2>4. rbuf' \in [Readers -> Seq(Event)] /\ \A x \in Readers : Len(rbuf'[x]) <= StreamCap
      BY <1>4, <2>2, CapAssumption DEF Receive, TypeOK
    <2>5. Record(e)
      BY <1>4 DEF Receive
    <2> HIDE DEF e
    <2> QED BY <1>4, <2>2, <2>3, <2>4, <2>5, RecordTyped DEF Receive, TypeOK, workerVars
  <1>5. CASE StreamEnds(r)
    BY <1>5, CapAssumption DEF StreamEnds, Return, TypeOK, workerVars, browserVars
  <1> QED BY <1>1, <1>2, <1>3, <1>4, <1>5 DEF ReaderStep

LEMMA BrowserTyped ==
  ASSUME TypeOK, NEW b \in Browsers, Subscribe(b) \/ Deliver(b) \/ Leave(b)
  PROVE  TypeOK'
  <1>1. CASE Subscribe(b)
    <2>1. bbuf' \in [Browsers -> Seq(Event)] /\ \A x \in Browsers : Len(bbuf'[x]) <= BrowserCap
      <3>1. CASE bbuf' = [bbuf EXCEPT ![b] = <<>>]
        BY <3>1, CapAssumption DEF TypeOK
      <3>2. ASSUME NEW replay \in SetToSeqs(KeptEvents),
                   ~(Cardinality(Keeping) > BrowserCap),
                   bbuf' = [bbuf EXCEPT ![b] = replay]
            PROVE  bbuf' \in [Browsers -> Seq(Event)]
                   /\ \A x \in Browsers : Len(bbuf'[x]) <= BrowserCap
        <4>1. KeptEvents \subseteq Event /\ IsFiniteSet(KeptEvents)
              /\ Cardinality(KeptEvents) = Cardinality(Keeping)
              /\ Cardinality(Keeping) \in Nat
          BY KeptEventsFinite DEF TypeOK, KeptMap
        <4>2. replay \in [1..Cardinality(KeptEvents) -> KeptEvents]
          BY DEF SetToSeqs
        <4>3. replay \in [1..Cardinality(Keeping) -> Event]
          BY <4>1, <4>2
        <4>4. replay \in Seq(Event) /\ Len(replay) <= BrowserCap
          BY <3>2, <4>1, <4>3, CapAssumption
        <4> QED BY <3>2, <4>4 DEF TypeOK
      <3> QED BY <1>1, <3>1, <3>2 DEF Subscribe, KeptEvents
    <2>2. told' \in [Browsers -> [Workers -> [Sessions -> Kept]]]
      BY <1>1, NothingTyped DEF Subscribe, TypeOK, KeptMap
    <2>3. missed' \subseteq Browsers /\ sub' \subseteq Browsers
      BY <1>1 DEF Subscribe, TypeOK
    <2> QED BY <1>1, <2>1, <2>2, <2>3 DEF Subscribe, TypeOK, workerVars
  <1>2. CASE Deliver(b)
    <2>1. bbuf[b] \in Seq(Event) /\ bbuf[b] # <<>>
      BY <1>2 DEF Deliver, TypeOK
    <2>2. Head(bbuf[b]) \in Event /\ Tail(bbuf[b]) \in Seq(Event)
          /\ Len(Tail(bbuf[b])) = Len(bbuf[b]) - 1 /\ Len(bbuf[b]) \in Nat
      BY <2>1
    <2>3. After(told[b], Head(bbuf[b])) \in KeptMap
      BY <2>2, AfterIs DEF TypeOK, KeptMap
    <2>4. bbuf' \in [Browsers -> Seq(Event)] /\ \A x \in Browsers : Len(bbuf'[x]) <= BrowserCap
      BY <1>2, <2>2, CapAssumption DEF Deliver, TypeOK
    <2>5. told' \in [Browsers -> [Workers -> [Sessions -> Kept]]]
      BY <1>2, <2>3 DEF Deliver, TypeOK, KeptMap
    <2> QED BY <1>2, <2>4, <2>5 DEF Deliver, TypeOK, workerVars
  <1>3. CASE Leave(b)
    <2>1. told' \in [Browsers -> [Workers -> [Sessions -> Kept]]]
      BY <1>3, NothingTyped DEF Leave, TypeOK, KeptMap
    <2> QED BY <1>3, <2>1, CapAssumption DEF Leave, TypeOK, workerVars
  <1> QED BY <1>1, <1>2, <1>3

LEMMA SyncTyped ==
  ASSUME TypeOK, SyncReaders
  PROVE  TypeOK'
  <1>1. /\ readers' \in [Workers -> Readers \cup {None}]
        /\ rpc' \in [Readers -> {None, "fetch", "seed", "stream", "broken"}]
        /\ rw' \in [Readers -> Workers \cup {None}]
    BY SyncIs
  <1>2. /\ sub' \subseteq Browsers /\ missed' \subseteq Browsers
        /\ bbuf' \in [Browsers -> Seq(Event)]
        /\ \A b \in Browsers : Len(bbuf'[b]) <= BrowserCap
        /\ told' \in [Browsers -> [Workers -> [Sessions -> Kept]]]
    BY GoneIs, BroadcastTyped
  <1>3. last' \in [Workers -> [Sessions -> Kept]]
    BY DEF SyncReaders, TypeOK, Nothing, Kept
  <1> QED BY <1>1, <1>2, <1>3 DEF SyncReaders, TypeOK, workerVars

LEMMA WorkerTyped ==
  ASSUME TypeOK, NEW w \in Workers, WorkerStep(w)
  PROVE  TypeOK'
  <1> USE DEF TypeOK, browserVars, SessState
  <1>1. CASE ContainerStops(w)
    BY <1>1 DEF ContainerStops
  <1>2. CASE ContainerMoves(w)
    BY <1>2 DEF ContainerMoves
  <1>3. CASE Reconcile(w)
    BY <1>3 DEF Reconcile
  <1>4. ASSUME NEW s \in Sessions, Create(w, s) PROVE TypeOK'
    BY <1>4 DEF Create
  <1>5. ASSUME NEW s \in Sessions, MonitorChanges(w, s) PROVE TypeOK'
    BY <1>5 DEF MonitorChanges
  <1>6. ASSUME NEW s \in Sessions, Exit(w, s) PROVE TypeOK'
    BY <1>6 DEF Exit
  <1>7. ASSUME NEW s \in Sessions, Emit(w, s) PROVE TypeOK'
    <2>1. PICK st \in pend[w][s] :
             LET e == [w |-> w, s |-> s, st |-> st]
                 on == {r \in Readers : rpc[r] = "stream" /\ rw[r] = w /\ ~Cancelled(r)}
                 full == {r \in on : Len(rbuf[r]) = StreamCap}
             IN /\ pend' = [pend EXCEPT ![w][s] = @ \ {st}]
                /\ rbuf' = [r \in Readers |-> IF r \in on \ full THEN Append(rbuf[r], e)
                                              ELSE rbuf[r]]
                /\ moved' = [moved EXCEPT ![w] = IF full = {} THEN @ ELSE @ \ {s}]
      BY <1>7 DEF Emit
    <2> DEFINE e == [w |-> w, s |-> s, st |-> st]
    <2>2. e \in Event
      <3>1. pend[w][s] \subseteq {"idle", "running", "exited"}
        OBVIOUS
      <3> HIDE DEF TypeOK
      <3> QED BY <3>1 DEF Event, EventState
    <2>3. ASSUME NEW r \in Readers
          PROVE  rbuf'[r] \in Seq(Event) /\ Len(rbuf'[r]) <= StreamCap
      <3> HIDE DEF e
      <3>1. rbuf[r] \in Seq(Event) /\ Len(rbuf[r]) <= StreamCap /\ Len(rbuf[r]) \in Nat
        OBVIOUS
      <3>2. rbuf'[r] = rbuf[r] \/ (rbuf'[r] = Append(rbuf[r], e) /\ Len(rbuf[r]) # StreamCap)
        BY <2>1 DEF e
      <3>3. CASE rbuf'[r] = Append(rbuf[r], e) /\ Len(rbuf[r]) # StreamCap
        BY <2>2, <3>1, <3>3, CapAssumption
      <3> QED BY <3>1, <3>2, <3>3
    <2>4. rbuf' \in [Readers -> Seq(Event)]
      BY <2>1, <2>3
    <2>5. pend' \in [Workers -> [Sessions -> SUBSET {"idle", "running", "exited"}]]
          /\ moved' \in [Workers -> SUBSET Sessions]
      BY <2>1
    <2> QED BY <1>7, <2>3, <2>4, <2>5 DEF Emit
  <1> QED BY <1>1, <1>2, <1>3, <1>4, <1>5, <1>6, <1>7 DEF WorkerStep

LEMMA HubTypeStep == TypeOK /\ Linked /\ [Next]_vars => TypeOK'
  <1>1. TypeOK /\ UNCHANGED vars => TypeOK'
    BY DEF TypeOK, vars, workerVars, browserVars
  <1> QED BY <1>1, ReaderTyped, BrowserTyped, SyncTyped, WorkerTyped DEF Next

-----------------------------------------------------------------------------
(* The readers and what they hold.                                         *)

LEMMA SyncHolds ==
  ASSUME TypeOK, Linked, Own, SyncReaders
  PROVE  Linked' /\ Own'
  <1>1. PICK start \in Injection(Running \ Followed, Free) :
            /\ \A w \in Workers :
                  readers'[w] = IF w \in Followed \ Running THEN None
                                ELSE IF w \in Running \ Followed THEN start[w] ELSE readers[w]
            /\ \A r \in Readers : rpc'[r] = IF r \in Range(start) THEN "fetch" ELSE rpc[r]
            /\ \A r \in Readers \ Range(start) : rw'[r] = rw[r]
            /\ \A w \in Running \ Followed : rw'[start[w]] = w
    BY SyncIs
  <1>2. start \in [Running \ Followed -> Free]
    BY DEF Injection
  <1>3. \A r \in Range(start) : r \in Free /\ \E w \in Running \ Followed : r = start[w]
    BY <1>2 DEF Range
  <1>4. \A w \in Running \ Followed : start[w] \in Range(start) /\ start[w] \in Readers
    BY <1>2 DEF Range, Free
  <1>5. Linked'
    <2>1. ASSUME NEW r \in Readers, rpc'[r] # None PROVE rw'[r] \in Workers
      <3>1. CASE r \in Range(start)
        BY <1>1, <1>3, <3>1 DEF Running
      <3>2. CASE r \notin Range(start)
        BY <1>1, <2>1, <3>2 DEF Linked
      <3> QED BY <3>1, <3>2
    <2>2. ASSUME NEW w \in Workers, readers'[w] # None, rpc'[readers'[w]] # None
          PROVE  rw'[readers'[w]] = w
      <3>1. CASE w \in Running \ Followed
        BY <1>1, <2>2, <3>1
      <3>2. CASE w \notin Running \ Followed
        <4>1. readers'[w] = readers[w] /\ readers[w] \in Readers
          BY <1>1, <2>2, <3>2 DEF TypeOK
        <4>2. readers[w] \notin Range(start)
          BY <1>3, <4>1 DEF Free
        <4>3. rpc'[readers[w]] = rpc[readers[w]] /\ rw'[readers[w]] = rw[readers[w]]
          BY <1>1, <4>1, <4>2
        <4> QED BY <2>2, <4>1, <4>3 DEF Linked
      <3> QED BY <3>1, <3>2
    <2> QED BY <2>1, <2>2 DEF Linked
  <1>6. rsnap' = rsnap /\ rbuf' = rbuf
    BY DEF SyncReaders
  <1>7. ASSUME NEW r \in Range(start) PROVE rsnap[r] = {} /\ rbuf[r] = <<>> /\ r \in Readers
    BY <1>3, NoneAssumption DEF Free, Own
  <1>8. ASSUME NEW r \in Readers
        PROVE  /\ \A e \in rsnap[r] : OwnEvent(r, e)'
               /\ \A i \in 1..Len(rbuf[r]) : OwnEvent(r, rbuf[r][i])'
               /\ rpc'[r] \notin {"stream", "broken"} => rbuf[r] = <<>>
               /\ rpc'[r] # "seed" => rsnap[r] = {}
    <2>1. CASE r \in Range(start)
      BY <1>7, <2>1
    <2>2. CASE r \notin Range(start)
      <3>1. rw'[r] = rw[r] /\ rpc'[r] = rpc[r]
        BY <1>1, <2>2
      <3> QED BY <1>6, <3>1 DEF Own, OwnEvent
    <2> QED BY <2>1, <2>2
  <1>9. Own'
    BY <1>6, <1>8 DEF Own, OwnEvent
  <1> QED BY <1>5, <1>9

LEMMA ReaderHolds ==
  ASSUME TypeOK, Linked, Own, NEW r \in Readers, ReaderStep(r)
  PROVE  Linked' /\ Own'
  <1> USE DEF TypeOK, Linked, Own, OwnEvent
  <1>1. CASE Fetch(r)
    <2>1. rw[r] \in Workers /\ rw' = rw /\ rpc' = [rpc EXCEPT ![r] = "seed"] /\ rbuf' = rbuf
          /\ readers' = readers /\ rbuf[r] = <<>> /\ rpc[r] = "fetch"
      BY <1>1, NoneAssumption DEF Fetch
    <2>2. Linked'
      BY <2>1, NoneAssumption
    <2>3. \A x \in Readers \ {r} : rsnap'[x] = rsnap[x]
      BY <1>1 DEF Fetch
    <2>4. ASSUME NEW e \in rsnap'[r] PROVE e.w = rw[r] /\ e.s \in Sessions /\ e.st # "gone"
      <3>1. CASE UNCHANGED rsnap
        BY <2>4, <3>1
      <3>2. ASSUME NEW listed \in SUBSET {s \in Sessions : sess[rw[r]][s] \notin {"none", "lost"}},
                   rsnap' = [rsnap EXCEPT ![r] =
                              {[w |-> rw[r], s |-> s, st |-> sess[rw[r]][s]] : s \in listed}]
            PROVE  e.w = rw[r] /\ e.s \in Sessions /\ e.st # "gone"
        <4>1. e \in {[w |-> rw[r], s |-> s, st |-> sess[rw[r]][s]] : s \in listed}
          BY <2>4, <3>2
        <4>2. PICK s \in listed : e = [w |-> rw[r], s |-> s, st |-> sess[rw[r]][s]]
          BY <4>1
        <4>3. sess[rw[r]][s] \in SessState
          BY <2>1
        <4>4. e.w = rw[r] /\ e.s = s /\ e.st = sess[rw[r]][s]
          BY <4>2
        <4> QED BY <4>3, <4>4 DEF SessState
      <3> QED BY <1>1, <3>1, <3>2 DEF Fetch
    <2>5. Own'
      BY <2>1, <2>3, <2>4
    <2> QED BY <2>2, <2>5
  <1>2. CASE Seed(r)
    <2>1. UNCHANGED <<readers, rpc, rw, rbuf>> /\ \E e \in rsnap[r] : rsnap' = [rsnap EXCEPT ![r] = @ \ {e}]
      BY <1>2 DEF Seed
    <2> QED BY <2>1
  <1>3. CASE Connect(r)
    <2>1. /\ UNCHANGED <<readers, rsnap, rbuf>> /\ rpc[r] = "seed" /\ rsnap[r] = {}
          /\ \/ rpc' = [rpc EXCEPT ![r] = "stream"] /\ rw' = rw
             \/ rpc' = [rpc EXCEPT ![r] = None] /\ rw' = [rw EXCEPT ![r] = None]
      BY <1>3 DEF Connect, Return
    <2>2. rw[r] \in Workers /\ rbuf[r] = <<>>
      BY <2>1, NoneAssumption
    <2>3. CASE rpc' = [rpc EXCEPT ![r] = "stream"] /\ rw' = rw
      BY <2>1, <2>2, <2>3, NoneAssumption
    <2>4. CASE rpc' = [rpc EXCEPT ![r] = None] /\ rw' = [rw EXCEPT ![r] = None]
      <3>1. Linked'
        BY <2>1, <2>4, NoneAssumption
      <3>2. \A x \in Readers \ {r} : rpc'[x] = rpc[x] /\ rw'[x] = rw[x]
        BY <2>4
      <3>3. ASSUME NEW x \in Readers
            PROVE  /\ \A e \in rsnap[x] : e.w = rw'[x] /\ e.s \in Sessions /\ e.st # "gone"
                   /\ \A i \in 1..Len(rbuf[x]) : OwnEvent(x, rbuf[x][i])'
                   /\ rpc'[x] \notin {"stream", "broken"} => rbuf[x] = <<>>
                   /\ rpc'[x] # "seed" => rsnap[x] = {}
        <4>1. CASE x = r
          <5>1. Len(rbuf[r]) = 0
            BY <2>2
          <5> QED BY <2>1, <2>2, <4>1, <5>1
        <4>2. CASE x # r
          BY <2>1, <3>2, <4>2
        <4> QED BY <4>1, <4>2
      <3>4. Own'
        BY <2>1, <3>3
      <3> QED BY <3>1, <3>4
    <2> QED BY <2>1, <2>3, <2>4
  <1>4. CASE Receive(r)
    <2>1. /\ UNCHANGED <<readers, rpc, rw, rsnap>> /\ rpc[r] \in {"stream", "broken"}
          /\ rbuf' = [rbuf EXCEPT ![r] = Tail(@)] /\ rbuf[r] # <<>>
      BY <1>4 DEF Receive
    <2>2. rbuf[r] \in Seq(Event)
      OBVIOUS
    <2>3. /\ Len(Tail(rbuf[r])) = Len(rbuf[r]) - 1
          /\ \A i \in 1..Len(Tail(rbuf[r])) :
                i + 1 \in 1..Len(rbuf[r]) /\ Tail(rbuf[r])[i] = rbuf[r][i + 1]
      BY <2>1, <2>2
    <2>4. \A i \in 1..Len(rbuf'[r]) : OwnEvent(r, rbuf'[r][i])
      BY <2>1, <2>3
    <2> QED BY <2>1, <2>4
  <1>5. CASE StreamEnds(r)
    <2>1. /\ UNCHANGED <<readers, rsnap>> /\ rpc[r] # "seed"
          /\ rpc' = [rpc EXCEPT ![r] = None] /\ rw' = [rw EXCEPT ![r] = None]
          /\ rbuf' = [rbuf EXCEPT ![r] = <<>>]
      BY <1>5 DEF StreamEnds, Return
    <2>2. rsnap[r] = {}
      BY <2>1
    <2> QED BY <2>1, <2>2, NoneAssumption
  <1> QED BY <1>1, <1>2, <1>3, <1>4, <1>5 DEF ReaderStep

LEMMA WorkerHolds ==
  ASSUME TypeOK, Linked, Own, NEW w \in Workers, WorkerStep(w)
  PROVE  Linked' /\ Own'
  <1> USE DEF TypeOK, Linked, Own, OwnEvent
  <1>1. CASE ContainerStops(w)
    <2>1. /\ UNCHANGED <<readers, rw, rsnap, rbuf>>
          /\ rpc' = [r \in Readers |-> IF rw[r] = w /\ rpc[r] = "stream" THEN "broken"
                                       ELSE rpc[r]]
      BY <1>1 DEF ContainerStops
    <2>2. \A r \in Readers : rpc'[r] # None => rpc[r] # None
      BY <2>1, NoneAssumption
    <2> QED BY <2>1, <2>2
  <1>2. CASE ContainerMoves(w)
    BY <1>2 DEF ContainerMoves
  <1>3. CASE Reconcile(w)
    BY <1>3 DEF Reconcile
  <1>4. ASSUME NEW s \in Sessions, Create(w, s) \/ MonitorChanges(w, s) \/ Exit(w, s)
        PROVE  Linked' /\ Own'
    BY <1>4 DEF Create, MonitorChanges, Exit
  <1>5. ASSUME NEW s \in Sessions, Emit(w, s) PROVE Linked' /\ Own'
    <2>1. UNCHANGED <<readers, rpc, rw, rsnap>>
      BY <1>5 DEF Emit
    <2>2. PICK st \in pend[w][s] : \A r \in Readers :
             \/ rbuf'[r] = rbuf[r]
             \/ /\ rpc[r] = "stream" /\ rw[r] = w
                /\ rbuf'[r] = Append(rbuf[r], [w |-> w, s |-> s, st |-> st])
      <3> HIDE DEF TypeOK, Linked, Own, OwnEvent
      <3> QED BY <1>5 DEF Emit
    <2> DEFINE e == [w |-> w, s |-> s, st |-> st]
    <2>3. pend[w][s] \subseteq {"idle", "running", "exited"}
      OBVIOUS
    <2>4. e.w = w /\ e.s \in Sessions /\ e.st # "gone"
      BY <2>3
    <2> HIDE DEF e
    <2>5. ASSUME NEW r \in Readers, rw[r] = w, rbuf'[r] = Append(rbuf[r], e)
          PROVE  \A i \in 1..Len(rbuf'[r]) : OwnEvent(r, rbuf'[r][i])
      <3>1. rbuf[r] \in Seq(Event)
        OBVIOUS
      <3>2. \A i \in 1..Len(rbuf'[r]) :
               (i \in 1..Len(rbuf[r]) /\ rbuf'[r][i] = rbuf[r][i]) \/ rbuf'[r][i] = e
        BY <2>5, <3>1
      <3> QED BY <2>4, <2>5, <3>2
    <2>6. ASSUME NEW r \in Readers
          PROVE  /\ \A i \in 1..Len(rbuf'[r]) : OwnEvent(r, rbuf'[r][i])
                 /\ rpc[r] \notin {"stream", "broken"} => rbuf'[r] = <<>>
      <3>1. CASE rbuf'[r] = rbuf[r]
        BY <3>1
      <3>2. CASE rpc[r] = "stream" /\ rw[r] = w /\ rbuf'[r] = Append(rbuf[r], e)
        BY <2>5, <3>2
      <3> QED BY <2>2, <3>1, <3>2 DEF e
    <2> QED BY <2>1, <2>6
  <1> QED BY <1>1, <1>2, <1>3, <1>4, <1>5 DEF WorkerStep

LEMMA HubHoldsStep == TypeOK /\ Linked /\ Own /\ [Next]_vars => Linked' /\ Own'
  <1>1. Linked /\ Own /\ UNCHANGED vars => Linked' /\ Own'
    BY DEF Linked, Own, OwnEvent, vars
  <1>2. Linked /\ Own /\ (\E b \in Browsers : Subscribe(b) \/ Deliver(b) \/ Leave(b))
          => Linked' /\ Own'
    BY DEF Linked, Own, OwnEvent, Subscribe, Deliver, Leave
  <1> QED BY <1>1, <1>2, SyncHolds, ReaderHolds, WorkerHolds DEF Next

LEMMA EmitsStep == TypeOK /\ EmitsItsState /\ [Next]_vars => EmitsItsState'
  <1> SUFFICES ASSUME TypeOK, EmitsItsState, [Next]_vars PROVE EmitsItsState'
    OBVIOUS
  <1> USE DEF TypeOK, EmitsItsState, Lives
  <1>1. CASE UNCHANGED <<sess, pend>> /\ \A w \in Workers : moved'[w] \subseteq moved[w]
    BY <1>1
  <1>2. ASSUME NEW r \in Readers, ReaderStep(r)
        PROVE  UNCHANGED <<sess, pend>> /\ \A w \in Workers : moved'[w] \subseteq moved[w]
    <2>1. CASE Fetch(r) \/ Connect(r) \/ StreamEnds(r)
      BY <2>1 DEF Fetch, Connect, StreamEnds, workerVars, browserVars
    <2>2. CASE Seed(r) \/ Receive(r)
      <3>1. UNCHANGED <<sess, pend>> /\ \E e : MovedUnlessStale(r, e)
        BY <2>2 DEF Seed, Receive, workerVars
      <3> QED BY <3>1 DEF MovedUnlessStale
    <2> QED BY <1>2, <2>1, <2>2 DEF ReaderStep
  <1>3. ASSUME NEW b \in Browsers, Subscribe(b) \/ Deliver(b) \/ Leave(b)
        PROVE  UNCHANGED <<sess, pend, moved>>
    BY <1>3 DEF Subscribe, Deliver, Leave, workerVars
  <1>4. SyncReaders \/ UNCHANGED vars => UNCHANGED <<sess, pend, moved>>
    BY DEF SyncReaders, vars, workerVars
  <1>5. ASSUME NEW w \in Workers, WorkerStep(w) PROVE EmitsItsState'
    <2>1. CASE ContainerStops(w)
      BY <2>1 DEF ContainerStops
    <2>2. CASE ContainerMoves(w) \/ Reconcile(w)
      BY <2>2 DEF ContainerMoves, Reconcile
    <2>3. ASSUME NEW s \in Sessions, Create(w, s) PROVE EmitsItsState'
      BY <2>3 DEF Create
    <2>4. ASSUME NEW s \in Sessions, MonitorChanges(w, s) PROVE EmitsItsState'
      BY <2>4 DEF MonitorChanges
    <2>5. ASSUME NEW s \in Sessions, Exit(w, s) PROVE EmitsItsState'
      BY <2>5 DEF Exit
    <2>6. ASSUME NEW s \in Sessions, Emit(w, s) PROVE EmitsItsState'
      BY <2>6 DEF Emit
    <2> QED BY <1>5, <2>1, <2>2, <2>3, <2>4, <2>5, <2>6 DEF WorkerStep
  <1> QED BY <1>1, <1>2, <1>3, <1>4, <1>5 DEF Next

-----------------------------------------------------------------------------
(* What the hub keeps of a followed session.                               *)

\* A step that leaves a session, its events and what is kept of it alone.
LEMMA Undisturbed ==
  ASSUME NEW w \in Workers, NEW s \in Sessions, Current(w, s),
         Following(w)' => /\ Following(w) /\ readers'[w] = readers[w]
                          /\ rbuf'[readers[w]] = rbuf[readers[w]]
                          /\ last'[w][s] = last[w][s],
         sess'[w][s] = sess[w][s], pend'[w][s] = pend[w][s],
         s \in moved'[w] => s \in moved[w]
  PROVE  Current(w, s)'
  BY DEF Current, Lives, InPipe, LastInPipe

\* A cancelled reader's record, or that of the reader itself.
LEMMA RecordIs ==
  ASSUME TypeOK, NEW e \in Event, Record(e), NEW w \in Workers, NEW s \in Sessions
  PROVE  last'[w][s] = IF About(e, w, s) THEN Says(e) ELSE last[w][s]
  <1>1. last \in KeptMap /\ last' = After(last, e)
    BY DEF TypeOK, KeptMap, Record
  <1> QED BY <1>1, AfterIs

LEMMA ReaderCurrent ==
  ASSUME TypeOK, Linked, Own, CurrentInPipe, NEW r \in Readers, ReaderStep(r),
         NEW w \in Workers, NEW s \in Sessions
  PROVE  Current(w, s)'
  <1>1. Current(w, s) /\ (Following(w) => readers[w] \in Readers)
    BY DEF CurrentInPipe, Following, TypeOK
  <1>2. CASE Fetch(r)
    <2>1. /\ UNCHANGED <<sess, pend, moved, readers, last, rbuf>>
          /\ rpc' = [rpc EXCEPT ![r] = "seed"]
      BY <1>2 DEF Fetch, workerVars, browserVars
    <2>2. Following(w)' => Following(w)
      BY <2>1 DEF Following, TypeOK
    <2> QED BY <1>1, <2>1, <2>2, Undisturbed
  <1>3. CASE Seed(r)
    <2>1. PICK e \in rsnap[r] : Record(e) /\ MovedUnlessStale(r, e)
      BY <1>3 DEF Seed
    <2>2. UNCHANGED <<sess, pend, readers, rpc, rw, rbuf>> /\ rpc[r] = "seed"
      BY <1>3 DEF Seed, workerVars
    <2>3. e \in Event /\ OwnEvent(r, e)
      BY DEF TypeOK, Own
    <2>4. moved' = [moved EXCEPT ![e.w] = IF Cancelled(r) THEN moved[e.w] \ {e.s} ELSE moved[e.w]]
      BY <2>1 DEF MovedUnlessStale
    <2>5. s \in moved'[w] => s \in moved[w]
      BY <2>4 DEF TypeOK
    <2>6. CASE e.w = w /\ e.s = s
      <3>1. CASE Cancelled(r)
        <4>1. s \notin moved'[w]
          BY <2>4, <2>6, <3>1 DEF TypeOK
        <4> QED BY <4>1 DEF Current
      <3>2. CASE ~Cancelled(r)
        <4>1. readers[w] = r
          BY <2>3, <2>6, <3>2 DEF OwnEvent, Cancelled
        <4>2. ~Following(w)'
          BY <2>2, <4>1 DEF Following
        <4> QED BY <4>2 DEF Current
      <3> QED BY <3>1, <3>2
    <2>7. CASE ~(e.w = w /\ e.s = s)
      <3>1. ~About(e, w, s)
        BY <2>3, <2>7 DEF About, OwnEvent
      <3>2. last'[w][s] = last[w][s]
        BY <2>1, <2>3, <3>1, RecordIs
      <3>3. Following(w)' => Following(w)
        BY <2>2 DEF Following
      <3> QED BY <1>1, <2>2, <2>5, <3>2, <3>3, Undisturbed
    <2> QED BY <2>6, <2>7
  <1>4. CASE Connect(r)
    <2>1. /\ UNCHANGED <<sess, pend, readers, last, rbuf>> /\ rpc[r] = "seed"
          /\ \/ /\ rpc' = [rpc EXCEPT ![r] = "stream"]
                /\ moved' = [moved EXCEPT ![rw[r]] = {}]
             \/ rpc' = [rpc EXCEPT ![r] = None] /\ moved' = moved
      BY <1>4 DEF Connect, Return, workerVars, browserVars
    <2>2. CASE readers[w] = r /\ rpc' = [rpc EXCEPT ![r] = "stream"]
      <3>1. rw[r] = w
        BY <2>1, <2>2, NoneAssumption DEF Linked
      <3>2. moved' = [moved EXCEPT ![w] = {}]
        BY <2>1, <2>2, <3>1, NoneAssumption DEF TypeOK
      <3>3. s \notin moved'[w]
        BY <3>2 DEF TypeOK
      <3> QED BY <3>3 DEF Current
    <2>3. CASE ~(readers[w] = r /\ rpc' = [rpc EXCEPT ![r] = "stream"])
      <3>1. Following(w)' => Following(w)
        BY <2>1, <2>3, NoneAssumption DEF Following, TypeOK
      <3>2. s \in moved'[w] => s \in moved[w]
        BY <2>1 DEF TypeOK
      <3> QED BY <1>1, <2>1, <3>1, <3>2, Undisturbed
    <2> QED BY <2>2, <2>3
  <1>5. CASE Receive(r)
    <2> DEFINE e == Head(rbuf[r])
    <2>1. /\ Record(e) /\ MovedUnlessStale(r, e) /\ rbuf[r] # <<>>
          /\ rbuf' = [rbuf EXCEPT ![r] = Tail(rbuf[r])]
          /\ UNCHANGED <<sess, pend, readers, rpc, rw>>
      BY <1>5 DEF Receive, workerVars
    <2>2. /\ rbuf[r] \in Seq(Event) /\ e \in Event /\ e = rbuf[r][1] /\ Len(rbuf[r]) \in Nat
          /\ 1 \in 1..Len(rbuf[r])
      BY <2>1 DEF TypeOK
    <2>3. OwnEvent(r, e)
      BY <2>2 DEF Own
    <2> HIDE DEF e
    <2>4. moved' = [moved EXCEPT ![e.w] = IF Cancelled(r) THEN moved[e.w] \ {e.s} ELSE moved[e.w]]
      BY <2>1 DEF MovedUnlessStale
    <2>5. s \in moved'[w] => s \in moved[w]
      BY <2>4 DEF TypeOK
    <2>6. Following(w)' => Following(w)
      BY <2>1 DEF Following
    <2>7. CASE Following(w) /\ readers[w] = r
      <3>1. rw[r] = w
        BY <2>7, NoneAssumption DEF Following, Linked
      <3>2. e.w = w /\ (About(e, w, s) <=> e.s = s) /\ Says(e) \in {None, e.st}
        BY <2>3, <3>1 DEF OwnEvent, About, Says
      <3>3. ~Cancelled(r)
        BY <2>7, <3>1 DEF Cancelled
      <3> SUFFICES ASSUME s \in moved[w], Lives(w, s), pend[w][s] = {}
                   PROVE  InPipe(r, w, s)'
        BY <2>1, <2>5, <2>7 DEF Current, Lives
      <3>4. InPipe(r, w, s)
        BY <1>1, <2>7 DEF Current
      <3>5. /\ Len(rbuf'[r]) = Len(rbuf[r]) - 1
            /\ \A i \in 1..Len(rbuf'[r]) : rbuf'[r][i] = rbuf[r][i + 1]
        BY <2>1, <2>2 DEF TypeOK
      <3>6. sess' = sess
        BY <2>1
      <3>7. last'[w][s] = IF e.s = s THEN Says(e) ELSE last[w][s]
        BY <2>1, <2>2, <3>2, RecordIs
      <3>8. CASE LastInPipe(r, 1, w, s)
        <4>1. e.s = s /\ e.st = sess[w][s] /\ \A j \in 2..Len(rbuf[r]) : rbuf[r][j].s # s
          BY <2>2, <3>8 DEF LastInPipe
        <4>2. last'[w][s] = sess[w][s]
          BY <3>7, <4>1 DEF Says, Lives
        <4>3. \A i \in 1..Len(rbuf'[r]) : rbuf'[r][i].s # s
          BY <2>2, <3>5, <4>1
        <4> QED BY <3>6, <4>2, <4>3 DEF InPipe
      <3>9. ASSUME NEW i \in 2..Len(rbuf[r]), LastInPipe(r, i, w, s) PROVE InPipe(r, w, s)'
        <4>1. i - 1 \in 1..Len(rbuf'[r]) /\ rbuf'[r][i - 1] = rbuf[r][i]
          BY <2>2, <3>5
        <4>2. \A j \in ((i - 1) + 1)..Len(rbuf'[r]) : rbuf'[r][j] = rbuf[r][j + 1]
              /\ j + 1 \in (i + 1)..Len(rbuf[r])
          BY <2>2, <3>5
        <4>3. LastInPipe(r, i - 1, w, s)'
          BY <3>6, <3>9, <4>1, <4>2 DEF LastInPipe
        <4> QED BY <4>1, <4>3 DEF InPipe
      <3>10. CASE (\A i \in 1..Len(rbuf[r]) : rbuf[r][i].s # s) /\ last[w][s] = sess[w][s]
        <4>1. \A i \in 1..Len(rbuf'[r]) : rbuf'[r][i].s # s
          <5>1. \A i \in 1..Len(rbuf'[r]) : i + 1 \in 1..Len(rbuf[r])
            BY <2>2, <3>5
          <5> QED BY <3>5, <3>10, <5>1
        <4>2. last'[w][s] = sess'[w][s]
          BY <2>2, <3>6, <3>7, <3>10
        <4> QED BY <4>1, <4>2 DEF InPipe
      <3> QED BY <2>2, <3>4, <3>8, <3>9, <3>10 DEF InPipe
    <2>8. CASE Following(w) /\ readers[w] # r
      <3>1. rbuf'[readers[w]] = rbuf[readers[w]]
        BY <1>1, <2>1, <2>8 DEF TypeOK
      <3>2. CASE e.w = w /\ e.s = s
        <4>1. Cancelled(r)
          BY <2>3, <2>8, <3>2 DEF OwnEvent, Cancelled
        <4>2. s \notin moved'[w]
          BY <2>4, <3>2, <4>1 DEF TypeOK
        <4> QED BY <4>2 DEF Current
      <3>3. CASE ~(e.w = w /\ e.s = s)
        <4>1. ~About(e, w, s)
          BY <2>3, <3>3 DEF About, OwnEvent
        <4>2. last'[w][s] = last[w][s]
          BY <2>1, <2>2, <4>1, RecordIs
        <4> QED BY <1>1, <2>1, <2>5, <2>6, <3>1, <4>2, Undisturbed
      <3> QED BY <3>2, <3>3
    <2>9. CASE ~Following(w)
      BY <2>6, <2>9 DEF Current
    <2> QED BY <2>7, <2>8, <2>9
  <1>6. CASE StreamEnds(r)
    <2>1. /\ UNCHANGED <<sess, pend, readers, last, moved>>
          /\ rpc' = [rpc EXCEPT ![r] = None]
          /\ rbuf' = [rbuf EXCEPT ![r] = <<>>]
      BY <1>6 DEF StreamEnds, Return, workerVars, browserVars
    <2>2. Following(w)' => Following(w) /\ readers[w] # r
      BY <2>1, NoneAssumption DEF Following, TypeOK
    <2>3. Following(w)' => rbuf'[readers[w]] = rbuf[readers[w]]
      BY <1>1, <2>1, <2>2 DEF TypeOK
    <2> QED BY <1>1, <2>1, <2>2, <2>3, Undisturbed
  <1> QED BY <1>2, <1>3, <1>4, <1>5, <1>6 DEF ReaderStep

LEMMA SyncCurrent ==
  ASSUME TypeOK, CurrentInPipe, SyncReaders, NEW w \in Workers, NEW s \in Sessions
  PROVE  Current(w, s)'
  <1>1. PICK start \in Injection(Running \ Followed, Free) :
            /\ \A v \in Workers :
                  readers'[v] = IF v \in Followed \ Running THEN None
                                ELSE IF v \in Running \ Followed THEN start[v] ELSE readers[v]
            /\ \A r \in Readers : rpc'[r] = IF r \in Range(start) THEN "fetch" ELSE rpc[r]
    BY SyncIs
  <1>2. UNCHANGED <<sess, pend, moved, rbuf>>
        /\ last' = [v \in Workers |-> IF v \in Followed \ Running THEN Nothing ELSE last[v]]
    BY DEF SyncReaders, workerVars
  <1>3. ASSUME Following(w)'
        PROVE  Following(w) /\ readers'[w] = readers[w] /\ last'[w][s] = last[w][s]
    <2>1. readers'[w] # None /\ rpc'[readers'[w]] = "stream"
      BY <1>3 DEF Following
    <2>2. w \notin Followed \ Running
      BY <1>1, <2>1
    <2>3. ASSUME w \in Running \ Followed PROVE FALSE
      <3>1. start[w] \in Free /\ start[w] \in Range(start)
        BY <2>3 DEF Injection, Range
      <3>2. rpc'[start[w]] = "fetch"
        BY <1>1, <3>1 DEF Free
      <3> QED BY <1>1, <2>1, <2>2, <2>3, <3>2
    <2>4. readers'[w] = readers[w] /\ readers[w] \in Readers
      BY <1>1, <2>1, <2>2, <2>3 DEF TypeOK
    <2>5. rpc[readers[w]] = "stream"
      BY <1>1, <2>1, <2>4
    <2> QED BY <1>2, <2>1, <2>2, <2>4, <2>5 DEF Following
  <1> QED BY <1>2, <1>3, Undisturbed DEF CurrentInPipe

LEMMA WorkerCurrent ==
  ASSUME TypeOK, Linked, EmitsItsState, CurrentInPipe, NEW v \in Workers, WorkerStep(v),
         NEW w \in Workers, NEW s \in Sessions
  PROVE  Current(w, s)'
  <1>1. Current(w, s)
    BY DEF CurrentInPipe
  <1>2. CASE ContainerStops(v)
    <2>1. UNCHANGED <<readers, last, rbuf, moved>>
          /\ rpc' = [r \in Readers |-> IF rw[r] = v /\ rpc[r] = "stream" THEN "broken"
                                       ELSE rpc[r]]
      BY <1>2 DEF ContainerStops, browserVars
    <2>2. CASE v = w
      <3>1. ~Lives(w, s)'
        BY <1>2, <2>2 DEF ContainerStops, Lives, TypeOK
      <3> QED BY <3>1 DEF Current
    <2>3. CASE v # w
      <3>1. sess'[w][s] = sess[w][s] /\ pend'[w][s] = pend[w][s]
        BY <1>2, <2>3 DEF ContainerStops, TypeOK
      <3>2. Following(w)' => Following(w)
        BY <2>1 DEF Following, TypeOK
      <3> QED BY <1>1, <2>1, <3>1, <3>2, Undisturbed
    <2> QED BY <2>2, <2>3
  <1>3. CASE ContainerMoves(v) \/ Reconcile(v)
    <2>1. UNCHANGED <<sess, pend, moved, readers, rpc, last, rbuf>>
      BY <1>3 DEF ContainerMoves, Reconcile
    <2> QED BY <1>1, <2>1, Undisturbed DEF Following
  <1>4. ASSUME NEW t \in Sessions, Create(v, t) PROVE Current(w, s)'
    <2>1. UNCHANGED <<pend, moved, readers, rpc, last, rbuf>>
          /\ sess' = [sess EXCEPT ![v][t] = "idle"]
      BY <1>4 DEF Create
    <2>2. CASE v = w /\ t = s
      <3>1. s \notin moved'[w]
        BY <1>4, <2>1, <2>2 DEF EmitsItsState, Create
      <3> QED BY <3>1 DEF Current
    <2>3. CASE ~(v = w /\ t = s)
      <3>1. sess'[w][s] = sess[w][s]
        BY <2>1, <2>3 DEF TypeOK
      <3> QED BY <1>1, <2>1, <3>1, Undisturbed DEF Following
    <2> QED BY <2>2, <2>3
  <1>5. ASSUME NEW t \in Sessions, MonitorChanges(v, t) PROVE Current(w, s)'
    <2>1. /\ UNCHANGED <<readers, rpc, last, rbuf>>
          /\ \E st \in {"idle", "running"} :
                sess' = [sess EXCEPT ![v][t] = st] /\ pend' = [pend EXCEPT ![v][t] = {st}]
          /\ moved' = [moved EXCEPT ![v] = moved[v] \cup {t}]
      BY <1>5 DEF MonitorChanges
    <2>2. CASE v = w /\ t = s
      <3>1. PICK st \in {"idle", "running"} : pend' = [pend EXCEPT ![v][t] = {st}]
        BY <2>1
      <3>2. pend'[w][s] = {st}
        BY <2>2, <3>1 DEF TypeOK
      <3> QED BY <3>2 DEF Current
    <2>3. CASE ~(v = w /\ t = s)
      <3>1. sess'[w][s] = sess[w][s] /\ pend'[w][s] = pend[w][s]
            /\ (s \in moved'[w] => s \in moved[w])
        BY <2>1, <2>3 DEF TypeOK
      <3> QED BY <1>1, <2>1, <3>1, Undisturbed DEF Following
    <2> QED BY <2>2, <2>3
  <1>6. ASSUME NEW t \in Sessions, Exit(v, t) PROVE Current(w, s)'
    <2>1. /\ UNCHANGED <<readers, rpc, last, rbuf, moved>>
          /\ sess' = [sess EXCEPT ![v][t] = "exited"]
          /\ pend' = [pend EXCEPT ![v][t] = pend[v][t] \cup {"exited"}]
      BY <1>6 DEF Exit
    <2>2. CASE v = w /\ t = s
      <3>1. ~Lives(w, s)'
        BY <2>1, <2>2 DEF Lives, TypeOK
      <3> QED BY <3>1 DEF Current
    <2>3. CASE ~(v = w /\ t = s)
      <3>1. sess'[w][s] = sess[w][s] /\ pend'[w][s] = pend[w][s]
        BY <2>1, <2>3 DEF TypeOK
      <3> QED BY <1>1, <2>1, <3>1, Undisturbed DEF Following
    <2> QED BY <2>2, <2>3
  <1>7. ASSUME NEW t \in Sessions, Emit(v, t) PROVE Current(w, s)'
    <2>1. PICK st \in pend[v][t] :
             LET e == [w |-> v, s |-> t, st |-> st]
                 on == {r \in Readers : rpc[r] = "stream" /\ rw[r] = v /\ ~Cancelled(r)}
                 full == {r \in on : Len(rbuf[r]) = StreamCap}
             IN /\ pend' = [pend EXCEPT ![v][t] = pend[v][t] \ {st}]
                /\ rbuf' = [r \in Readers |-> IF r \in on \ full THEN Append(rbuf[r], e)
                                              ELSE rbuf[r]]
                /\ moved' = [moved EXCEPT ![v] = IF full = {} THEN moved[v] ELSE moved[v] \ {t}]
      BY <1>7 DEF Emit
    <2> DEFINE e == [w |-> v, s |-> t, st |-> st]
               on == {r \in Readers : rpc[r] = "stream" /\ rw[r] = v /\ ~Cancelled(r)}
               full == {r \in on : Len(rbuf[r]) = StreamCap}
    <2>2. e.s = t /\ e.st = st
      OBVIOUS
    <2> HIDE DEF e
    <2>3. UNCHANGED <<sess, readers, rpc, last>> /\ Following(w)' = Following(w)
      BY <1>7 DEF Emit, Following
    <2>4. s \in moved'[w] => s \in moved[w]
      BY <2>1 DEF TypeOK
    <2>5. CASE ~Following(w)
      BY <2>3, <2>5 DEF Current
    <2>6. CASE Following(w) /\ v # w
      <3>1. readers[w] \in Readers /\ rw[readers[w]] = w
        BY <2>6, NoneAssumption DEF Following, Linked, TypeOK
      <3>2. rbuf'[readers[w]] = rbuf[readers[w]]
        BY <2>1, <2>6, <3>1
      <3>3. pend'[w][s] = pend[w][s]
        BY <2>1, <2>6 DEF TypeOK
      <3> QED BY <1>1, <2>3, <2>4, <3>2, <3>3, Undisturbed
    <2>7. CASE Following(w) /\ v = w
      <3>1. PICK r \in Readers : r = readers[w] /\ rw[r] = w /\ rpc[r] = "stream"
        BY <2>7, NoneAssumption DEF Following, Linked, TypeOK
      <3>2. r \in on
        BY <2>7, <3>1 DEF Cancelled
      <3> SUFFICES ASSUME s \in moved'[w], Lives(w, s), pend'[w][s] = {}
                   PROVE  InPipe(r, w, s)'
        BY <2>3, <3>1 DEF Current, Lives
      <3>3. rbuf[r] \in Seq(Event) /\ Len(rbuf[r]) \in Nat
        BY <3>1 DEF TypeOK
      <3>4. CASE r \in full
        <4>1. moved'[w] = moved[w] \ {t}
          BY <2>1, <2>7, <3>4 DEF TypeOK
        <4>2. s # t /\ pend'[w][s] = pend[w][s]
          BY <2>1, <2>7, <4>1 DEF TypeOK
        <4>3. rbuf'[r] = rbuf[r]
          BY <2>1, <3>1, <3>4
        <4>4. Current(w, s)'
          BY <1>1, <2>3, <2>4, <2>7, <3>1, <4>2, <4>3, Undisturbed
        <4> QED BY <2>3, <2>7, <3>1, <4>4 DEF Current, Lives
      <3>5. CASE r \notin full
        <4>1. rbuf'[r] = Append(rbuf[r], e)
          BY <2>1, <3>1, <3>2, <3>5 DEF e
        <4> HIDE DEF on, full
        <4>2. /\ Len(rbuf'[r]) = Len(rbuf[r]) + 1
              /\ \A i \in 1..Len(rbuf[r]) : rbuf'[r][i] = rbuf[r][i]
              /\ rbuf'[r][Len(rbuf[r]) + 1] = e
          BY <3>3, <4>1
        <4>3. CASE s = t
          <5>1. st = sess[w][s]
            BY <2>7, <4>3 DEF EmitsItsState
          <5>2. PICK n \in 1..Len(rbuf'[r]) : n = Len(rbuf'[r]) /\ rbuf'[r][n] = e
            BY <3>3, <4>2
          <5>3. LastInPipe(r, n, w, s)'
            BY <2>2, <2>3, <4>3, <5>1, <5>2 DEF LastInPipe
          <5> QED BY <5>3 DEF InPipe
        <4>4. CASE s # t
          <5>1. pend[w][s] = {}
            BY <2>1, <2>7, <4>4 DEF TypeOK
          <5>2. InPipe(r, w, s)
            BY <1>1, <2>4, <2>7, <3>1, <5>1 DEF Current
          <5>3. ASSUME NEW i \in 1..Len(rbuf[r]), LastInPipe(r, i, w, s) PROVE InPipe(r, w, s)'
            <6>1. \A j \in (i + 1)..Len(rbuf'[r]) : rbuf'[r][j].s # s
              <7> TAKE j \in (i + 1)..Len(rbuf'[r])
              <7>1. CASE j = Len(rbuf[r]) + 1
                BY <2>2, <4>2, <4>4, <7>1
              <7>2. CASE j # Len(rbuf[r]) + 1
                <8>1. j \in (i + 1)..Len(rbuf[r]) /\ j \in 1..Len(rbuf[r])
                  BY <3>3, <4>2, <7>2
                <8>2. rbuf[r][j].s # s
                  BY <5>3, <8>1 DEF LastInPipe
                <8> QED BY <4>2, <8>1, <8>2
              <7> QED BY <7>1, <7>2
            <6>2. LastInPipe(r, i, w, s)' /\ i \in 1..Len(rbuf'[r])
              BY <2>3, <3>3, <4>2, <5>3, <6>1 DEF LastInPipe
            <6> QED BY <6>2 DEF InPipe
          <5>4. CASE (\A i \in 1..Len(rbuf[r]) : rbuf[r][i].s # s) /\ last[w][s] = sess[w][s]
            <6>1. \A i \in 1..Len(rbuf'[r]) : rbuf'[r][i].s # s
              BY <2>2, <3>3, <4>2, <4>4, <5>4
            <6> QED BY <2>3, <5>4, <6>1 DEF InPipe
          <5> QED BY <5>2, <5>3, <5>4 DEF InPipe
        <4> QED BY <4>3, <4>4
      <3> QED BY <3>4, <3>5
    <2> QED BY <2>5, <2>6, <2>7
  <1> QED BY <1>2, <1>3, <1>4, <1>5, <1>6, <1>7 DEF WorkerStep

LEMMA CurrentStep ==
  TypeOK /\ Linked /\ Own /\ EmitsItsState /\ CurrentInPipe /\ [Next]_vars => CurrentInPipe'
  <1> SUFFICES ASSUME TypeOK, Linked, Own, EmitsItsState, CurrentInPipe, [Next]_vars,
                      NEW w \in Workers, NEW s \in Sessions
               PROVE  Current(w, s)'
    BY DEF CurrentInPipe
  <1>1. ASSUME UNCHANGED vars \/ \E b \in Browsers : Subscribe(b) \/ Deliver(b) \/ Leave(b)
        PROVE  Current(w, s)'
    <2>1. UNCHANGED <<sess, pend, moved, readers, rpc, last, rbuf>>
      BY <1>1 DEF Subscribe, Deliver, Leave, vars, workerVars
    <2> QED BY <2>1, Undisturbed DEF CurrentInPipe, Following
  <1> QED BY <1>1, SyncCurrent, ReaderCurrent, WorkerCurrent DEF Next

-----------------------------------------------------------------------------
(* What a browser is told.                                                 *)

\* Of what is broadcast the last event about a session has what the hub then keeps;
\* with no event about it the hub keeps what it kept.
Tells(es, w, s) ==
    \/ \E k \in 1..Len(es) :
          /\ About(es[k], w, s) /\ Says(es[k]) = last'[w][s]
          /\ \A j \in (k + 1)..Len(es) : ~About(es[j], w, s)
    \/ /\ \A k \in 1..Len(es) : ~About(es[k], w, s)
       /\ last'[w][s] = last[w][s]

LEMMA BroadcastInChannel ==
  ASSUME TypeOK, SnapshotInChannel, NEW es \in Seq(Event), Broadcast(es),
         NEW w \in Workers, NEW s \in Sessions, Tells(es, w, s), NEW b \in sub' \ missed'
  PROVE  InChannel(b, w, s)'
  <1>1. b \in sub \ missed /\ b \in sub \ missed' /\ b \in Browsers
    BY DEF Broadcast, TypeOK
  <1>2. bbuf'[b] = bbuf[b] \o es /\ told'[b] = told[b]
    BY <1>1 DEF Broadcast
  <1>3. bbuf[b] \in Seq(Event)
    BY <1>1 DEF TypeOK
  <1>4. PICK n \in Nat, m \in Nat : n = Len(bbuf[b]) /\ m = Len(es)
    BY <1>3
  <1>5. /\ Len(bbuf'[b]) = n + m
        /\ \A i \in 1..n : bbuf'[b][i] = bbuf[b][i]
        /\ \A k \in 1..m : bbuf'[b][n + k] = es[k]
    BY <1>2, <1>3, <1>4
  <1>6. \A j \in (n + 1)..(n + m) : j - n \in 1..m /\ bbuf'[b][j] = es[j - n]
    <2> TAKE j \in (n + 1)..(n + m)
    <2>1. j - n \in 1..m /\ n + (j - n) = j
      BY <1>4
    <2> QED BY <1>5, <2>1
  <1>7. InChannel(b, w, s)
    BY <1>1 DEF SnapshotInChannel
  <1>8. ASSUME NEW k \in 1..m, About(es[k], w, s), Says(es[k]) = last'[w][s],
               \A j \in (k + 1)..m : ~About(es[j], w, s)
        PROVE  InChannel(b, w, s)'
    <2>1. PICK i \in 1..Len(bbuf'[b]) : i = n + k
      BY <1>4, <1>5
    <2>2. \A j \in (i + 1)..(n + m) : ~About(bbuf'[b][j], w, s)
      <3> TAKE j \in (i + 1)..(n + m)
      <3>1. j \in (n + 1)..(n + m) /\ j - n \in (k + 1)..m
        BY <1>4, <2>1
      <3> QED BY <1>6, <1>8, <3>1
    <2>3. LastInChannel(b, i, w, s)'
      BY <1>5, <1>8, <2>1, <2>2 DEF LastInChannel, About, Says
    <2> QED BY <2>3 DEF InChannel
  <1>9. ASSUME \A k \in 1..m : ~About(es[k], w, s), last'[w][s] = last[w][s]
        PROVE  InChannel(b, w, s)'
    <2>1. \A j \in (n + 1)..(n + m) : ~About(bbuf'[b][j], w, s)
      BY <1>6, <1>9
    <2>2. ASSUME NEW i \in 1..n, LastInChannel(b, i, w, s) PROVE InChannel(b, w, s)'
      <3>1. \A j \in (i + 1)..(n + m) : ~About(bbuf'[b][j], w, s)
        <4> TAKE j \in (i + 1)..(n + m)
        <4>1. CASE j \in (n + 1)..(n + m)
          BY <2>1, <4>1
        <4>2. CASE j \in (i + 1)..n
          BY <1>4, <1>5, <2>2, <4>2 DEF LastInChannel
        <4> QED BY <4>1, <4>2
      <3>2. LastInChannel(b, i, w, s)' /\ i \in 1..Len(bbuf'[b])
        BY <1>4, <1>5, <1>9, <2>2, <3>1 DEF LastInChannel, About, Says
      <3> QED BY <3>2 DEF InChannel
    <2>3. CASE (\A i \in 1..n : ~About(bbuf[b][i], w, s)) /\ told[b][w][s] = last[w][s]
      <3>1. \A i \in 1..(n + m) : ~About(bbuf'[b][i], w, s)
        <4> TAKE i \in 1..(n + m)
        <4>1. CASE i \in (n + 1)..(n + m)
          BY <2>1, <4>1
        <4>2. CASE i \in 1..n
          BY <1>5, <2>3, <4>2
        <4> QED BY <4>1, <4>2
      <3> QED BY <1>2, <1>5, <1>9, <2>3, <3>1 DEF InChannel, About
    <2> QED BY <1>4, <1>7, <2>2, <2>3 DEF InChannel
  <1> QED BY <1>4, <1>8, <1>9 DEF Tells

LEMMA RecordInChannel ==
  ASSUME TypeOK, SnapshotInChannel, NEW e \in Event, Record(e)
  PROVE  SnapshotInChannel'
  <1> SUFFICES ASSUME NEW b \in sub' \ missed', NEW w \in Workers, NEW s \in Sessions
               PROVE  InChannel(b, w, s)'
    BY DEF SnapshotInChannel
  <1>1. <<e>> \in Seq(Event) /\ Len(<<e>>) = 1 /\ <<e>>[1] = e /\ Broadcast(<<e>>)
    BY DEF Record
  <1>2. last'[w][s] = IF About(e, w, s) THEN Says(e) ELSE last[w][s]
    BY RecordIs
  <1>3. Tells(<<e>>, w, s)
    BY <1>1, <1>2 DEF Tells
  <1> QED BY <1>1, <1>3, BroadcastInChannel

LEMMA SyncInChannel ==
  ASSUME TypeOK, SnapshotInChannel, SyncReaders
  PROVE  SnapshotInChannel'
  <1> SUFFICES ASSUME NEW b \in sub' \ missed', NEW w \in Workers, NEW s \in Sessions
               PROVE  InChannel(b, w, s)'
    BY DEF SnapshotInChannel
  <1>1. PICK es \in Seq(Event) :
            /\ Broadcast(es)
            /\ \A i \in 1..Len(es) : es[i].w \in Followed \ Running /\ es[i].st = "gone"
            /\ \A v \in Followed \ Running : \E i \in 1..Len(es) : es[i].w = v
            /\ \A i, j \in 1..Len(es) : es[i].w = es[j].w => i = j
    BY GoneIs
  <1>2. last' = [v \in Workers |-> IF v \in Followed \ Running THEN Nothing ELSE last[v]]
    BY DEF SyncReaders
  <1>3. CASE w \in Followed \ Running
    <2>1. PICK k \in 1..Len(es) : es[k].w = w
      BY <1>1, <1>3
    <2>2. About(es[k], w, s) /\ Says(es[k]) = None
      BY <1>1, <2>1 DEF About, Says
    <2>3. last'[w][s] = None
      BY <1>2, <1>3 DEF Nothing
    <2>4. \A j \in (k + 1)..Len(es) : ~About(es[j], w, s)
      <3> TAKE j \in (k + 1)..Len(es)
      <3>1. j \in 1..Len(es) /\ j # k
        OBVIOUS
      <3>2. es[j].w # w
        BY <1>1, <2>1, <3>1
      <3> QED BY <3>2 DEF About
    <2>5. Tells(es, w, s)
      BY <2>2, <2>3, <2>4 DEF Tells
    <2> QED BY <1>1, <2>5, BroadcastInChannel
  <1>4. CASE w \notin Followed \ Running
    <2>1. \A k \in 1..Len(es) : ~About(es[k], w, s)
      BY <1>1, <1>4 DEF About
    <2>2. last'[w][s] = last[w][s]
      BY <1>2, <1>4
    <2>3. Tells(es, w, s)
      BY <2>1, <2>2 DEF Tells
    <2> QED BY <1>1, <2>3, BroadcastInChannel
  <1> QED BY <1>3, <1>4

LEMMA SubscribeInChannel ==
  ASSUME TypeOK, SnapshotInChannel, NEW c \in Browsers, Subscribe(c)
  PROVE  SnapshotInChannel'
  <1> SUFFICES ASSUME NEW b \in sub' \ missed', NEW w \in Workers, NEW s \in Sessions
               PROVE  InChannel(b, w, s)'
    BY DEF SnapshotInChannel
  <1>1. last' = last /\ told' = [told EXCEPT ![c] = NothingKept] /\ sub' = sub \cup {c}
    BY DEF Subscribe
  <1>2. CASE b # c
    <2>1. b \in sub \ missed /\ b \in Browsers
      BY <1>1, <1>2 DEF Subscribe, TypeOK
    <2>2. bbuf'[b] = bbuf[b] /\ told'[b] = told[b]
      <3>1. \E q : bbuf' = [bbuf EXCEPT ![c] = q]
        BY DEF Subscribe
      <3> QED BY <1>1, <1>2, <2>1, <3>1 DEF TypeOK
    <2>3. InChannel(b, w, s)
      BY <2>1 DEF SnapshotInChannel
    <2> QED BY <1>1, <2>2, <2>3 DEF InChannel, LastInChannel, About, Says
  <1>3. CASE b = c
    <2>1. PICK q \in SetToSeqs(KeptEvents) : bbuf' = [bbuf EXCEPT ![c] = q]
      BY <1>3 DEF Subscribe, KeptEvents
    <2>2. /\ IsFiniteSet(KeptEvents)
          /\ \A e \in KeptEvents : e.st = last[e.w][e.s] /\ e.st \in {"idle", "running"}
      BY KeptEventsFinite DEF TypeOK, KeptMap
    <2>3. /\ Len(q) \in Nat /\ q \in [1..Len(q) -> KeptEvents]
          /\ \A e \in KeptEvents : \E i \in 1..Len(q) : q[i] = e
          /\ \A i, j \in 1..Len(q) : q[i] = q[j] => i = j
      BY <2>2, Permuted
    <2>4. bbuf'[b] = q /\ told'[b][w][s] = None
      BY <1>1, <1>3, <2>1 DEF TypeOK, NothingKept, Nothing
    <2>5. \A e \in KeptEvents : e = [w |-> e.w, s |-> e.s, st |-> last[e.w][e.s]]
      BY DEF KeptEvents
    <2>6. CASE last[w][s] = None
      <3>1. \A i \in 1..Len(q) : ~About(q[i], w, s)
        BY <2>2, <2>3, <2>6, NoneAssumption DEF About
      <3> QED BY <1>1, <2>4, <2>6, <3>1 DEF InChannel, About
    <2>7. CASE last[w][s] # None
      <3> DEFINE k == [w |-> w, s |-> s, st |-> last[w][s]]
      <3>1. <<w, s>> \in Keeping
        BY <2>7 DEF Keeping
      <3>2. k \in KeptEvents
        BY <3>1 DEF KeptEvents
      <3>3. PICK i \in 1..Len(q) : q[i] = k
        BY <2>3, <3>2
      <3>4. k.w = w /\ k.s = s /\ k.st = last[w][s] /\ k.st \in {"idle", "running"}
        BY <2>2, <3>2
      <3>5. About(q[i], w, s) /\ Says(q[i]) = last[w][s]
        BY <3>3, <3>4 DEF About, Says
      <3>6. \A j \in (i + 1)..Len(q) : ~About(q[j], w, s)
        <4> SUFFICES ASSUME NEW j \in (i + 1)..Len(q), About(q[j], w, s) PROVE FALSE
          OBVIOUS
        <4>1. j \in 1..Len(q) /\ j # i /\ q[j] \in KeptEvents
          BY <2>3
        <4>2. q[j].w = w /\ q[j].s = s
          BY <2>2, <4>1 DEF About
        <4>3. q[j] = k
          BY <2>5, <4>1, <4>2
        <4> QED BY <2>3, <3>3, <4>1, <4>3
      <3>7. i \in 1..Len(bbuf'[b]) /\ LastInChannel(b, i, w, s)'
        BY <1>1, <2>4, <3>5, <3>6 DEF LastInChannel, About, Says
      <3> QED BY <3>7 DEF InChannel
    <2> QED BY <2>6, <2>7
  <1> QED BY <1>2, <1>3

LEMMA DeliverInChannel ==
  ASSUME TypeOK, SnapshotInChannel, NEW c \in Browsers, Deliver(c)
  PROVE  SnapshotInChannel'
  <1> SUFFICES ASSUME NEW b \in sub' \ missed', NEW w \in Workers, NEW s \in Sessions
               PROVE  InChannel(b, w, s)'
    BY DEF SnapshotInChannel
  <1>0. PICK e \in Event : e = Head(bbuf[c])
    BY DEF Deliver, TypeOK
  <1>1. /\ last' = last /\ sub' = sub /\ missed' = missed /\ bbuf[c] # <<>>
        /\ told' = [told EXCEPT ![c] = After(told[c], e)]
        /\ bbuf' = [bbuf EXCEPT ![c] = Tail(bbuf[c])]
    BY <1>0 DEF Deliver
  <1>2. b \in sub \ missed /\ b \in Browsers /\ InChannel(b, w, s)
    BY <1>1 DEF SnapshotInChannel, TypeOK
  <1>3. CASE b # c
    <2>1. bbuf'[b] = bbuf[b] /\ told'[b] = told[b]
      BY <1>1, <1>2, <1>3 DEF TypeOK
    <2>2. last' = last /\ InChannel(b, w, s)
      BY <1>1, <1>2
    <2> QED BY <2>1, <2>2 DEF InChannel, LastInChannel, About, Says
  <1>4. CASE b = c
    <2>1. /\ bbuf[b] \in Seq(Event) /\ bbuf[b] # <<>> /\ e = bbuf[b][1]
          /\ 1 \in 1..Len(bbuf[b]) /\ Len(bbuf[b]) \in Nat
      BY <1>0, <1>1, <1>4 DEF TypeOK
    <2>2. /\ bbuf'[b] = Tail(bbuf[b])
          /\ told'[b] = After(told[b], e)
      BY <1>1, <1>2, <1>4 DEF TypeOK
    <2>3. PICK n \in Nat : n = Len(bbuf[b])
      BY <2>1
    <2>4. /\ Len(bbuf'[b]) = n - 1
          /\ \A i \in 1..(n - 1) : i + 1 \in 1..n /\ bbuf'[b][i] = bbuf[b][i + 1]
      BY <2>1, <2>2, <2>3
    <2>5. told'[b][w][s] = IF About(e, w, s) THEN Says(e) ELSE told[b][w][s]
      <3>1. told[b] \in KeptMap
        BY <1>2 DEF TypeOK, KeptMap
      <3> QED BY <2>2, <3>1, AfterIs
    <2>6. CASE LastInChannel(b, 1, w, s)
      <3>1. /\ About(e, w, s) /\ Says(e) = last[w][s]
            /\ \A j \in 2..n : ~About(bbuf[b][j], w, s)
        BY <2>1, <2>3, <2>6 DEF LastInChannel
      <3>2. \A i \in 1..(n - 1) : ~About(bbuf'[b][i], w, s)
        BY <2>4, <3>1
      <3> QED BY <1>1, <2>4, <2>5, <3>1, <3>2 DEF InChannel, About
    <2>7. ASSUME NEW i \in 2..n, LastInChannel(b, i, w, s) PROVE InChannel(b, w, s)'
      <3>1. PICK k \in 1..(n - 1) : k + 1 = i
        BY <2>3
      <3>2. \A j \in (k + 1)..(n - 1) : ~About(bbuf'[b][j], w, s)
        <4> TAKE j \in (k + 1)..(n - 1)
        <4>1. j \in 1..(n - 1) /\ j + 1 \in (i + 1)..n
          BY <2>3, <3>1
        <4> QED BY <2>3, <2>4, <2>7, <4>1 DEF LastInChannel
      <3>3. LastInChannel(b, k, w, s)'
        BY <1>1, <2>4, <2>7, <3>1, <3>2 DEF LastInChannel, About, Says
      <3> QED BY <2>4, <3>3 DEF InChannel
    <2>8. CASE (\A i \in 1..n : ~About(bbuf[b][i], w, s)) /\ told[b][w][s] = last[w][s]
      <3>1. \A i \in 1..(n - 1) : ~About(bbuf'[b][i], w, s)
        BY <2>4, <2>8
      <3>2. told'[b][w][s] = last'[w][s]
        BY <1>1, <2>1, <2>3, <2>5, <2>8
      <3> QED BY <2>4, <3>1, <3>2 DEF InChannel, About
    <2>9. InChannel(b, w, s)
      BY <1>2
    <2> QED BY <2>1, <2>3, <2>6, <2>7, <2>8, <2>9 DEF InChannel
  <1> QED BY <1>3, <1>4

LEMMA SnapshotStep ==
  TypeOK /\ SnapshotInChannel /\ [Next]_vars => SnapshotInChannel'
  <1> SUFFICES ASSUME TypeOK, SnapshotInChannel, [Next]_vars PROVE SnapshotInChannel'
    OBVIOUS
  <1>1. CASE UNCHANGED <<last, sub, bbuf, told, missed>>
    BY <1>1 DEF SnapshotInChannel, InChannel, LastInChannel, About, Says
  <1>2. ASSUME NEW r \in Readers, ReaderStep(r) PROVE SnapshotInChannel'
    <2>1. CASE Fetch(r) \/ Connect(r) \/ StreamEnds(r)
      BY <1>1, <2>1 DEF Fetch, Connect, StreamEnds, browserVars
    <2>2. CASE Seed(r)
      BY <2>2, RecordInChannel DEF Seed, TypeOK
    <2>3. CASE Receive(r)
      <3>1. Head(rbuf[r]) \in Event /\ Record(Head(rbuf[r]))
        BY <2>3 DEF Receive, TypeOK
      <3> QED BY <3>1, RecordInChannel
    <2> QED BY <1>2, <2>1, <2>2, <2>3 DEF ReaderStep
  <1>3. ASSUME NEW c \in Browsers, Leave(c) PROVE SnapshotInChannel'
    <2>1. \A b \in sub' \ missed' :
             b \in sub \ missed /\ b \in Browsers /\ bbuf'[b] = bbuf[b] /\ told'[b] = told[b]
      BY <1>3 DEF Leave, TypeOK
    <2>2. last' = last
      BY <1>3 DEF Leave
    <2> QED BY <2>1, <2>2 DEF SnapshotInChannel, InChannel, LastInChannel, About, Says
  <1>4. ASSUME NEW w \in Workers, WorkerStep(w) PROVE SnapshotInChannel'
    <2>1. UNCHANGED <<last, browserVars>>
      BY <1>4 DEF WorkerStep, ContainerStops, ContainerMoves, Reconcile, Create,
                  MonitorChanges, Exit, Emit
    <2> QED BY <1>1, <2>1 DEF browserVars
  <1>5. CASE UNCHANGED vars
    BY <1>1, <1>5 DEF vars, browserVars
  <1> QED BY <1>2, <1>3, <1>4, <1>5, SyncInChannel, SubscribeInChannel, DeliverInChannel
          DEF Next

-----------------------------------------------------------------------------
THEOREM HubInvariance == Spec => []HubInv
  <1>1. HubInv /\ [Next]_vars => HubInv'
    BY HubTypeStep, HubHoldsStep, EmitsStep, CurrentStep, SnapshotStep DEF HubInv
  <1> QED BY HubInvInit, <1>1, PTL DEF Spec

(* Every reachable state of EventHub satisfies the type invariant: the      *)
(* channels stay within their capacity, for all workers, sessions, readers  *)
(* and browsers.                                                            *)
THEOREM TypeCorrect == Spec => []TypeOK
  <1>1. HubInv => TypeOK
    BY DEF HubInv
  <1> QED BY HubInvariance, <1>1, PTL

(* A browser that missed nothing knows, once its channel is drained, what   *)
(* the hub keeps (coordevents.go record, syncReaders, sub), for any number  *)
(* of workers, sessions, readers and browsers and any capacities.           *)
THEOREM StreamsTellTheSnapshot == Spec => []StreamIsSnapshot
  <1>1. HubInv => StreamIsSnapshot
    <2> SUFFICES ASSUME HubInv, NEW b \in sub \ missed, bbuf[b] = <<>> PROVE told[b] = last
      BY DEF StreamIsSnapshot
    <2>1. Len(bbuf[b]) = 0 /\ b \in Browsers
      BY DEF HubInv, TypeOK
    <2>2. \A w \in Workers, s \in Sessions : InChannel(b, w, s)
      BY DEF HubInv, SnapshotInChannel
    <2>3. \A w \in Workers, s \in Sessions : told[b][w][s] = last[w][s]
      BY <2>1, <2>2 DEF InChannel
    <2>4. told[b] \in KeptMap /\ last \in KeptMap
      BY <2>1 DEF HubInv, TypeOK, KeptMap
    <2>5. \A w \in Workers : told[b][w] = last[w]
      BY <2>3, <2>4 DEF KeptMap
    <2> QED BY <2>4, <2>5 DEF KeptMap
  <1> QED BY HubInvariance, <1>1, PTL

(* Of a session that is alive and changed since its worker's reader         *)
(* connected, the hub keeps the state once everything is recorded           *)
(* (coordevents.go readWorker), for any of them.                            *)
THEOREM FollowedIsCurrent == Spec => []FollowedSessionsCurrent
  <1>1. HubInv => FollowedSessionsCurrent
    <2> SUFFICES ASSUME HubInv, NEW w \in Workers, Following(w), Recorded(w),
                        NEW s \in moved[w], sess[w][s] \in {"idle", "running"}
                 PROVE  last[w][s] = sess[w][s]
      BY DEF FollowedSessionsCurrent
    <2>1. s \in Sessions /\ readers[w] \in Readers
      BY DEF HubInv, TypeOK, Following
    <2>2. rw[readers[w]] = w
      BY NoneAssumption DEF HubInv, Linked, Following
    <2>3. rbuf[readers[w]] = <<>> /\ pend[w][s] = {}
      BY <2>1, <2>2 DEF Recorded
    <2>4. InPipe(readers[w], w, s)
      BY <2>1, <2>3 DEF HubInv, CurrentInPipe, Current, Lives
    <2>5. Len(rbuf[readers[w]]) = 0
      BY <2>3
    <2> QED BY <2>4, <2>5 DEF InPipe
  <1> QED BY HubInvariance, <1>1, PTL
=============================================================================
