----------------------- MODULE PortForwarding_proofs -----------------------
(***************************************************************************)
(* Proofs about PortForwarding, for every number of workers, ports, device *)
(* connections and goroutines.                                             *)
(***************************************************************************)
EXTENDS PortForwarding, TLAPS

\* What a task's program counter says about its job: which tasks have one, which of them
\* name a port, and that exactly the tasks between Forward and the second lock region of
\* Map hold a listener.
JobOK ==
    \A g \in Gos :
        /\ pc[g] # "idle" => job[g] \in Job
        /\ pc[g] \in {"check", "bind", "insert", "unmap", "set", "del"} => job[g].p \in Ports
        /\ pc[g] = "set" => job[g].want \in HostPorts
        /\ pc[g] = "insert" <=> held[g] # None

TypeInv == TypeOK /\ JobOK

-----------------------------------------------------------------------------
(* Type correctness.                                                       *)

LEMMA InitTypeInv == Init => TypeInv
  BY PortsAssumption DEF Init, TypeInv, TypeOK, JobOK, Devices, Switchers, NoPorts, TaskPc, SwitchPc

\* What every helper a task ends its step with has in common: only g moves, to a place
\* other than "insert", with the job that place calls for.
Moved(g) ==
    /\ pc' \in [Gos -> TaskPc]
    /\ job' \in [Gos -> Job \cup {None}]
    /\ todo' \in [Gos -> SUBSET (Ports \X HostPorts)]
    /\ \A h \in Gos \ {g} : pc'[h] = pc[h] /\ job'[h] = job[h]
    /\ pc'[g] # "insert"
    /\ pc'[g] # "idle" => job'[g] \in Job
    /\ pc'[g] \in {"check", "bind", "unmap", "set", "del"} => job'[g].p \in Ports
    /\ pc'[g] = "set" => job'[g].want \in HostPorts

LEMMA EndMoves ==
  ASSUME TypeInv, NEW g \in Gos, End(g)
  PROVE  Moved(g)
  BY DEF TypeInv, TypeOK, JobOK, TaskPc, End, Moved

LEMMA GotoMoves ==
  ASSUME TypeInv, NEW g \in Gos, pc[g] # "idle", NEW at \in TaskPc \ {"insert", "idle"}, Goto(g, at),
         at \in {"check", "bind", "unmap", "del"} => job[g].p \in Ports,
         at # "set"
  PROVE  Moved(g)
  BY DEF TypeInv, TypeOK, JobOK, TaskPc, Goto, Moved

\* g is given a job and a place that fit each other.
LEMMA JobMoves ==
  ASSUME TypeInv, NEW g \in Gos, NEW j \in Job, NEW at \in TaskPc \ {"insert"},
         at \in {"check", "bind", "unmap", "set", "del"} => j.p \in Ports,
         at = "set" => j.want \in HostPorts,
         pc' = [pc EXCEPT ![g] = at], job' = [job EXCEPT ![g] = j],
         todo' \in [Gos -> SUBSET (Ports \X HostPorts)]
  PROVE  Moved(g)
  BY DEF TypeInv, TypeOK, Moved

LEMMA ProceedMoves ==
  ASSUME TypeInv, NEW g \in Gos, pc[g] # "idle",
         NEW left \in SUBSET (Ports \X HostPorts), Proceed(g, left)
  PROVE  Moved(g)
<1>1. CASE left = {}
  BY <1>1, EndMoves DEF Proceed
<1>2. CASE left # {}
  <2>1. PICK x \in left : /\ todo' = [todo EXCEPT ![g] = left \ {x}]
                          /\ job' = [job EXCEPT ![g].p = x[1], ![g].want = x[2]]
    BY <1>2 DEF Proceed
  <2>2. x[1] \in Ports /\ x[2] \in HostPorts
    OBVIOUS
  <2>3. job[g] \in Job
    BY DEF TypeInv, JobOK
  <2> DEFINE j == [job[g] EXCEPT !.p = x[1], !.want = x[2]]
  <2>4. j \in Job /\ j.p \in Ports
    BY <2>2, <2>3 DEF Job
  <2>5. job' = [job EXCEPT ![g] = j]
    BY <2>1, <2>3 DEF TypeInv, TypeOK
  <2>6. pc' = [pc EXCEPT ![g] = "check"]
    BY <1>2 DEF Proceed
  <2>7. todo' \in [Gos -> SUBSET (Ports \X HostPorts)]
    BY <2>1 DEF TypeInv, TypeOK
  <2> HIDE DEF j
  <2>8. QED
    BY <2>4, <2>5, <2>6, <2>7, JobMoves DEF TaskPc
<1>3. QED
  BY <1>1, <1>2

LEMMA MapReturnsMoves ==
  ASSUME TypeInv, NEW g \in Gos, pc[g] \in {"check", "insert"},
         NEW h \in HostPorts, MapReturns(g, h)
  PROVE  Moved(g)
<1>1. CASE job[g].kind = "auto"
  BY <1>1, ProceedMoves DEF MapReturns, TypeInv, TypeOK
<1>2. CASE job[g].kind # "auto"
  <2>1. job[g] \in Job /\ job[g].p \in Ports
    BY DEF TypeInv, JobOK
  <2> DEFINE j == [job[g] EXCEPT !.want = h]
  <2>2. j \in Job /\ j.p \in Ports /\ j.want \in HostPorts
    BY <2>1 DEF Job
  <2>3. /\ pc' = [pc EXCEPT ![g] = "set"]
        /\ job' = [job EXCEPT ![g] = j]
        /\ todo' \in [Gos -> SUBSET (Ports \X HostPorts)]
    BY <1>2 DEF MapReturns, TypeInv, TypeOK
  <2> HIDE DEF j
  <2>4. QED
    BY <2>2, <2>3, JobMoves DEF TaskPc
<1>3. QED
  BY <1>1, <1>2

LEMMA MapFailsMoves ==
  ASSUME TypeInv, NEW g \in Gos, pc[g] \in {"check", "bind"}, MapFails(g)
  PROVE  Moved(g)
<1>1. CASE job[g].kind = "auto" /\ job[g].want # None
  <2>1. job[g] \in Job /\ job[g].p \in Ports
    BY DEF TypeInv, JobOK
  <2> DEFINE j == [job[g] EXCEPT !.want = None]
  <2>2. j \in Job /\ j.p \in Ports
    BY <2>1 DEF Job
  <2>3. /\ pc' = [pc EXCEPT ![g] = "check"]
        /\ job' = [job EXCEPT ![g] = j]
        /\ todo' \in [Gos -> SUBSET (Ports \X HostPorts)]
    BY <1>1 DEF MapFails, TypeInv, TypeOK
  <2> HIDE DEF j
  <2>4. QED
    BY <2>2, <2>3, JobMoves DEF TaskPc
<1>2. CASE job[g].kind = "auto" /\ job[g].want = None
  BY <1>2, ProceedMoves DEF MapFails, TypeInv, TypeOK
<1>3. CASE job[g].kind # "auto"
  BY <1>3, EndMoves DEF MapFails
<1>4. QED
  BY <1>1, <1>2, <1>3

\* The record a task starts with.
LEMMA NewJob ==
  ASSUME NEW k \in Kinds, NEW w \in Workers, NEW p \in Ports \cup {None},
         NEW h \in HostPorts \cup {None}
  PROVE  /\ [kind |-> k, w |-> w, p |-> p, want |-> h] \in Job
         /\ [kind |-> k, w |-> w, p |-> p, want |-> h].p = p
  BY DEF Job

LEMMA BeginMoves ==
  ASSUME TypeInv, NEW g \in Gos, NEW k \in Kinds, NEW w \in Workers,
         NEW p \in Ports \cup {None}, NEW h \in HostPorts \cup {None},
         NEW at \in TaskPc \ {"insert", "idle", "set"},
         at \in {"check", "bind", "unmap", "del"} => p \in Ports,
         Begin(g, k, w, p, h, at)
  PROVE  Moved(g) /\ pc[g] = "idle"
<1> DEFINE j == [kind |-> k, w |-> w, p |-> p, want |-> h]
<1>1. j \in Job /\ j.p = p
  BY NewJob
<1>2. job' = [job EXCEPT ![g] = j] /\ pc' = [pc EXCEPT ![g] = at] /\ todo' = todo /\ pc[g] = "idle"
  BY DEF Begin
<1> HIDE DEF j
<1>3. QED
  BY <1>1, <1>2 DEF Moved, TypeInv, TypeOK, TaskPc

LEMMA BecomeAutoMapMoves ==
  ASSUME TypeInv, NEW g \in Gos, NEW w \in Workers, BecomeAutoMap(g, w)
  PROVE  Moved(g)
<1> DEFINE j == [kind |-> "auto", w |-> w, p |-> None, want |-> None]
<1>1. j \in Job
  BY NewJob DEF Kinds
<1>2. job' = [job EXCEPT ![g] = j] /\ pc' = [pc EXCEPT ![g] = "snapshot"] /\ todo' = todo
  BY DEF BecomeAutoMap
<1> HIDE DEF j
<1>3. QED
  BY <1>1, <1>2 DEF Moved, TypeInv, TypeOK, TaskPc

\* A step that moves g, lets go of what g held or leaves it, and keeps the types of the
\* other variables keeps the types.
LEMMA MovedTypeInv ==
  ASSUME TypeInv, NEW g \in Gos, Moved(g),
         \/ held' = held /\ held[g] = None
         \/ held' = [held EXCEPT ![g] = None]
  PROVE  /\ pc' \in [Gos -> TaskPc]
         /\ job' \in [Gos -> Job \cup {None}]
         /\ held' \in [Gos -> Listener \cup {None}]
         /\ todo' \in [Gos -> SUBSET (Ports \X HostPorts)]
         /\ JobOK'
  BY DEF TypeInv, TypeOK, JobOK, Moved

LEMMA TaskTypeInv ==
  ASSUME TypeInv, NEW g \in Gos, AutoMapSnapshot(g) \/ MapStep(g) \/ HandlerStep(g)
  PROVE  TypeInv'
<1> USE DEF switchVars
<1>0. job[g] \in Job /\ job[g].w \in Workers /\ pc[g] # "idle"
  <2>1. pc[g] # "idle"
    BY DEF AutoMapSnapshot, MapStep, MapCheck, MapBind, MapBindFails, MapInsert, HandlerStep,
           HandlerUnmaps, HandlerRemembers, HandlerForgets, TaskClosesWorker, StopDocker,
           StartDocker, WireWorker, NukeForgets, NukeRemoves, RegisterPuts
  <2>2. QED
    BY <2>1 DEF TypeInv, JobOK, Job
<1>1. CASE AutoMapSnapshot(g)
  <2>1. held[g] = None
    BY <1>1 DEF AutoMapSnapshot, TypeInv, JobOK
  <2>2. Moved(g)
    BY <1>0, <1>1, ProceedMoves DEF AutoMapSnapshot, Wanted
  <2>3. QED
    BY <1>1, <2>1, <2>2, MovedTypeInv DEF AutoMapSnapshot, TypeInv, TypeOK
<1>2. CASE MapCheck(g)
  <2>1. held[g] = None /\ job[g].p \in Ports
    BY <1>2 DEF MapCheck, TypeInv, JobOK
  <2>2. Moved(g)
    <3>1. CASE MapFails(g)
      BY <1>2, <3>1, MapFailsMoves DEF MapCheck
    <3>2. CASE fwds[job[g].w][job[g].p] # None /\ MapReturns(g, fwds[job[g].w][job[g].p].host)
      <4>1. fwds[job[g].w][job[g].p].host \in HostPorts
        BY <1>0, <2>1, <3>2 DEF TypeInv, TypeOK, Listener
      <4>2. QED
        BY <1>2, <3>2, <4>1, MapReturnsMoves DEF MapCheck
    <3>3. CASE Goto(g, "bind")
      BY <1>0, <2>1, <3>3, GotoMoves DEF TaskPc
    <3>4. QED
      BY <1>2, <3>1, <3>2, <3>3 DEF MapCheck
  <2>3. QED
    BY <1>2, <2>1, <2>2, MovedTypeInv DEF MapCheck, TypeInv, TypeOK
<1>3. CASE MapBind(g)
  <2>1. job[g].p \in Ports
    BY <1>3 DEF MapBind, TypeInv, JobOK
  <2>2. PICK h \in HostPorts, l \in Listener :
           open' = open \cup {l} /\ held' = [held EXCEPT ![g] = l]
    BY <1>0, <1>3, <2>1 DEF MapBind, Listener, TypeInv, TypeOK
  <2>3. l # None
    BY NoneAssumption
  <2>4. pc' = [pc EXCEPT ![g] = "insert"] /\ UNCHANGED <<job, todo>>
    BY <1>3 DEF MapBind
  <2>5. JobOK'
    BY <1>0, <2>1, <2>2, <2>3, <2>4 DEF TypeInv, TypeOK, JobOK
  <2>6. QED
    BY <1>3, <2>2, <2>4, <2>5 DEF MapBind, TypeInv, TypeOK, TaskPc
<1>4. CASE MapBindFails(g)
  <2>1. held[g] = None
    BY <1>4 DEF MapBindFails, TypeInv, JobOK
  <2>2. Moved(g)
    BY <1>4, MapFailsMoves DEF MapBindFails
  <2>3. QED
    BY <1>4, <2>1, <2>2, MovedTypeInv DEF MapBindFails, TypeInv, TypeOK
<1>5. CASE MapInsert(g)
  <2>1. held[g] \in Listener /\ job[g].p \in Ports
    BY <1>5 DEF MapInsert, TypeInv, TypeOK, JobOK
  <2>2. Moved(g)
    <3>1. held[g].host \in HostPorts
      BY <2>1 DEF Listener
    <3>2. QED
      BY <1>5, <3>1, MapReturnsMoves DEF MapInsert
  <2>3. fwds' \in [Workers -> [Ports -> Listener \cup {None}]]
    BY <1>0, <1>5, <2>1 DEF MapInsert, TypeInv, TypeOK
  <2>4. waived' \in [Workers -> SUBSET Ports]
    BY <1>0, <1>5, <2>1 DEF MapInsert, TypeInv, TypeOK
  <2>5. QED
    BY <1>5, <2>2, <2>3, <2>4, MovedTypeInv DEF MapInsert, TypeInv, TypeOK
<1>6. CASE HandlerUnmaps(g)
  BY <1>0, <1>6 DEF HandlerUnmaps, Unmap, Goto, TypeInv, TypeOK, JobOK, TaskPc
<1>7. CASE HandlerRemembers(g)
  BY <1>0, <1>7 DEF HandlerRemembers, End, TypeInv, TypeOK, JobOK, TaskPc
<1>8. CASE HandlerForgets(g)
  BY <1>0, <1>8 DEF HandlerForgets, End, TypeInv, TypeOK, JobOK, TaskPc
<1>9. CASE TaskClosesWorker(g)
  BY <1>0, <1>9 DEF TaskClosesWorker, UnmapPorts, NoPorts, Goto, TypeInv, TypeOK, JobOK, TaskPc
<1>10. CASE StopDocker(g)
  BY <1>0, <1>10 DEF StopDocker, End, TypeInv, TypeOK, JobOK, TaskPc
<1>11. CASE StartDocker(g)
  <2>1. held[g] = None
    BY <1>11 DEF StartDocker, TypeInv, JobOK
  <2>2. Moved(g)
    BY <1>0, <1>11, EndMoves, GotoMoves DEF StartDocker, TaskPc
  <2>3. reg' \in [Workers -> {"none", "running", "stopped"}]
    BY <1>0, <1>11 DEF StartDocker, TypeInv, TypeOK
  <2>4. QED
    BY <1>11, <2>1, <2>2, <2>3, MovedTypeInv DEF StartDocker, TypeInv, TypeOK
<1>12. CASE WireWorker(g)
  <2>1. held[g] = None
    BY <1>12 DEF WireWorker, TypeInv, JobOK
  <2>2. Moved(g)
    BY <1>0, <1>12, BecomeAutoMapMoves DEF WireWorker
  <2>3. waived' \in [Workers -> SUBSET Ports]
    BY <1>0, <1>12 DEF WireWorker, BecomeAutoMap, TypeInv, TypeOK
  <2>4. QED
    BY <1>12, <2>1, <2>2, <2>3, MovedTypeInv DEF WireWorker, TypeInv, TypeOK
<1>13. CASE NukeForgets(g)
  BY <1>0, <1>13 DEF NukeForgets, NoPorts, Goto, TypeInv, TypeOK, JobOK, TaskPc
<1>14. CASE NukeRemoves(g)
  BY <1>0, <1>14 DEF NukeRemoves, End, TypeInv, TypeOK, JobOK, TaskPc
<1>15. CASE RegisterPuts(g)
  BY <1>0, <1>15 DEF RegisterPuts, End, TypeInv, TypeOK, JobOK, TaskPc
<1>16. QED
  BY <1>1, <1>2, <1>3, <1>4, <1>5, <1>6, <1>7, <1>8, <1>9, <1>10, <1>11, <1>12, <1>13, <1>14,
     <1>15 DEF MapStep, HandlerStep

LEMMA RequestTypeInv ==
  ASSUME TypeInv, NEW g \in Gos, NEW w \in Workers, Request(g, w)
  PROVE  TypeInv'
<1> USE DEF switchVars
<1>1. asked' \in 0..MaxEvents
  BY PortsAssumption DEF Request, MapRequest, UnmapRequest, StopRequest, NukeRequest,
     StartRequest, HealStarts, RegisterWires, Ask, TypeInv, TypeOK
<1>3. CASE \E h \in Gos : RegisterWires(g, h, w)
  <2>1. PICK h \in Gos : RegisterWires(g, h, w)
    BY <1>3
  <2> DEFINE jr == [kind |-> "register", w |-> w, p |-> None, want |-> None]
             ja == [kind |-> "auto", w |-> w, p |-> None, want |-> None]
  <2>2. jr \in Job /\ ja \in Job
    BY NewJob DEF Kinds
  <2>3. /\ pc' = [pc EXCEPT ![g] = "put", ![h] = "snapshot"]
        /\ job' = [job EXCEPT ![g] = jr, ![h] = ja]
    BY <2>1 DEF RegisterWires
  <2> HIDE DEF jr, ja
  <2>4. g # h /\ pc[g] = "idle" /\ pc[h] = "idle"
    BY <2>1 DEF RegisterWires
  <2>5. pc' \in [Gos -> TaskPc] /\ job' \in [Gos -> Job \cup {None}]
    BY <2>2, <2>3 DEF TypeInv, TypeOK, TaskPc
  <2>6. waived' \in [Workers -> SUBSET Ports]
    BY <2>1 DEF RegisterWires, TypeInv, TypeOK
  <2>7. UNCHANGED <<link, coDev, spc, scur, stodo, pmDev, reg, fwds, open, store, held, todo>>
    BY <2>1 DEF RegisterWires
  <2>8. JobOK'
    BY <2>2, <2>3, <2>4, <2>7 DEF TypeInv, TypeOK, JobOK
  <2>9. QED
    BY <1>1, <2>5, <2>6, <2>7, <2>8 DEF TypeInv, TypeOK
<1>4. CASE \/ \E p \in Ports, want \in HostPorts \cup {None} : MapRequest(g, w, p, want)
           \/ \E p \in Ports : UnmapRequest(g, w, p)
           \/ StopRequest(g, w) \/ NukeRequest(g, w) \/ StartRequest(g, w) \/ HealStarts(g, w)
  <2>1. PICK k \in Kinds, p \in Ports \cup {None}, want \in HostPorts \cup {None},
             at \in {"unmap", "close", "up", "wire"} :
                Begin(g, k, w, p, want, at) /\ (at = "unmap" => p \in Ports)
    BY <1>4 DEF MapRequest, UnmapRequest, StopRequest, NukeRequest, StartRequest, HealStarts, Kinds
  <2>2. Moved(g) /\ pc[g] = "idle"
    BY <2>1, BeginMoves DEF TaskPc
  <2>3. UNCHANGED <<link, coDev, spc, scur, stodo, pmDev, reg, fwds, open, store, held, waived>>
    BY <1>4 DEF MapRequest, UnmapRequest, StopRequest, NukeRequest, StartRequest, HealStarts
  <2>4. held[g] = None
    BY <2>2 DEF TypeInv, JobOK
  <2>5. QED
    BY <1>1, <2>2, <2>3, <2>4, MovedTypeInv DEF TypeInv, TypeOK
<1>5. QED
  BY <1>3, <1>4 DEF Request

LEMMA ContainerTypeInv ==
  ASSUME TypeInv, NEW w \in Workers, ContainerChanges(w)
  PROVE  TypeInv'
<1>1. asked' \in 0..MaxEvents /\ reg' \in [Workers -> {"none", "running", "stopped"}]
  BY PortsAssumption DEF ContainerChanges, Ask, TypeInv, TypeOK
<1>2. UNCHANGED <<switchVars, taskVars, pmDev, fwds, open, store, waived>>
  BY DEF ContainerChanges
<1>3. QED
  BY <1>1, <1>2 DEF switchVars, taskVars, TypeInv, TypeOK, JobOK

LEMMA LinkTypeInv ==
  ASSUME TypeInv, NEW c \in Conns, LinkStep(c)
  PROVE  TypeInv'
<1> USE DEF taskVars
<1>1. HelloOf(c) \in Switchers /\ WaitOf(c) \in Switchers
  BY DEF HelloOf, WaitOf, Switchers
<1>2. CASE Connect(c)
  BY <1>2, PortsAssumption DEF Connect, Ask, TypeInv, TypeOK, JobOK
<1>3. CASE LinkDown(c)
  BY <1>3 DEF LinkDown, TypeInv, TypeOK, JobOK
<1>4. CASE Activate(c)
  BY <1>1, <1>4 DEF Activate, Devices, SwitchPc, TypeInv, TypeOK, JobOK
<1>5. CASE Deactivate(c)
  BY <1>1, <1>5 DEF Deactivate, Devices, SwitchPc, TypeInv, TypeOK, JobOK
<1>6. QED
  BY <1>2, <1>3, <1>4, <1>5 DEF LinkStep

LEMMA SwitchTypeInv ==
  ASSUME TypeInv, NEW t \in Switchers, SwitchStep(t)
  PROVE  TypeInv'
<1>1. CASE MapperSetDevice(t)
  BY <1>1 DEF MapperSetDevice, Listed, Devices, SwitchPc, taskVars, TypeInv, TypeOK, JobOK
<1>2. CASE \E g \in Gos, w \in Workers : RebindWorker(t, g, w)
  <2>1. PICK g \in Gos, w \in Workers : RebindWorker(t, g, w)
    BY <1>2
  <2>2. Moved(g) /\ pc[g] = "idle"
    BY <2>1, BeginMoves DEF RebindWorker, GoAutoMap, Kinds, TaskPc
  <2>3. held' = held /\ held[g] = None
    BY <2>1, <2>2 DEF RebindWorker, TypeInv, JobOK
  <2>4. fwds' \in [Workers -> [Ports -> Listener \cup {None}]] /\ open' \subseteq Listener
    BY <2>1 DEF RebindWorker, UnmapPorts, NoPorts, TypeInv, TypeOK
  <2>5. spc' \in [Switchers -> SwitchPc] /\ stodo' \in [Switchers -> SUBSET Workers]
    BY <2>1 DEF RebindWorker, SwitchPc, TypeInv, TypeOK
  <2>6. waived' \in [Workers -> SUBSET Ports]
    BY <2>1 DEF RebindWorker, GoAutoMap, TypeInv, TypeOK
  <2>7. UNCHANGED <<link, coDev, pmDev, scur, reg, store, asked>>
    BY <2>1 DEF RebindWorker
  <2>8. QED
    BY <2>2, <2>3, <2>4, <2>5, <2>6, <2>7, MovedTypeInv DEF TypeInv, TypeOK
<1>3. QED
  BY <1>1, <1>2 DEF SwitchStep

LEMMA StutterTypeInv == ASSUME TypeInv, UNCHANGED vars PROVE TypeInv'
  BY DEF vars, TypeInv, TypeOK, JobOK

LEMMA NextTypeInv == TypeInv /\ [Next]_vars => TypeInv'
  BY TaskTypeInv, RequestTypeInv, ContainerTypeInv, LinkTypeInv, SwitchTypeInv, StutterTypeInv DEF Next

LEMMA AlwaysTypeInv == Spec => []TypeInv
  BY InitTypeInv, NextTypeInv, PTL DEF Spec

\* Every variable keeps its type, however many workers, connections and tasks there are.
THEOREM TypeCorrect == Spec => []TypeOK
<1>1. TypeInv => TypeOK
  BY DEF TypeInv
<1>2. QED
  BY <1>1, AlwaysTypeInv, PTL

-----------------------------------------------------------------------------
(* A closer is owned once and runs once: ForwardsAreOpen and OneOwner need *)
(* each other (running a worker's closers spares every other forward only  *)
(* because no two share one), and both need that nothing names a device    *)
(* that has not connected yet (or its connecting would make an entry claim *)
(* a listener nobody bound).                                               *)

Unborn == {c \in Conns : link[c] = "new"}

NothingOnUnborn ==
    /\ \A w \in Workers, p \in Ports : fwds[w][p] # None => fwds[w][p].dev \notin Unborn
    /\ \A g \in Gos : held[g] # None => held[g].dev \notin Unborn

Owned == ForwardsAreOpen /\ OneOwner /\ NothingOnUnborn

LEMMA InitOwned == Init => Owned
  BY DEF Init, NoPorts, Owned, ForwardsAreOpen, OneOwner, NothingOnUnborn

\* Only these four variables matter to Owned.
LEMMA OwnedFrame ==
  ASSUME Owned, UNCHANGED <<link, fwds, open, held>>
  PROVE  Owned'
  BY DEF Owned, ForwardsAreOpen, OneOwner, NothingOnUnborn, Unborn, Attached

\* Tearing down all of a worker's forwards.
LEMMA UnmapPortsOwned ==
  ASSUME TypeInv, Owned, NEW w \in Workers, UnmapPorts(w), UNCHANGED <<link, held>>
  PROVE  Owned'
<1>1. \A v \in Workers, q \in Ports :
         fwds'[v][q] = IF v = w THEN None ELSE fwds[v][q]
  BY DEF UnmapPorts, NoPorts, TypeInv, TypeOK
<1>2. \A v \in Workers \ {w}, q \in Ports : fwds[v][q] # None => fwds[v][q] \notin Forwards(w)
  BY DEF Owned, OneOwner, Forwards
<1>3. \A g \in Gos : held[g] # None => held[g] \notin Forwards(w)
  BY DEF Owned, OneOwner, Forwards
<1>4. open' = open \ Forwards(w) /\ Attached' = Attached /\ Unborn' = Unborn
  BY DEF UnmapPorts, Attached, Unborn
<1>5. ForwardsAreOpen'
  BY <1>1, <1>2, <1>3, <1>4 DEF Owned, ForwardsAreOpen
<1>6. OneOwner'
  BY <1>1 DEF Owned, OneOwner
<1>7. NothingOnUnborn'
  BY <1>1, <1>4 DEF Owned, NothingOnUnborn
<1>8. QED
  BY <1>5, <1>6, <1>7 DEF Owned

\* Tearing down one forward.
LEMMA UnmapOwned ==
  ASSUME TypeInv, Owned, NEW w \in Workers, NEW p \in Ports, Unmap(w, p), UNCHANGED <<link, held>>
  PROVE  Owned'
<1>1. \A v \in Workers, q \in Ports :
         fwds'[v][q] = IF v = w /\ q = p THEN None ELSE fwds[v][q]
  BY DEF Unmap, TypeInv, TypeOK
<1>2. open' = open \ {fwds[w][p]} /\ Attached' = Attached /\ Unborn' = Unborn
  BY DEF Unmap, Attached, Unborn
<1>3. ForwardsAreOpen'
  <2>1. ASSUME NEW v \in Workers, NEW q \in Ports, fwds'[v][q] # None, fwds'[v][q].dev \in Attached'
        PROVE  fwds'[v][q] \in open'
    BY <1>1, <1>2, <2>1 DEF Owned, ForwardsAreOpen, OneOwner
  <2>2. ASSUME NEW g \in Gos, held'[g] # None, held'[g].dev \in Attached'
        PROVE  held'[g] \in open'
    BY <1>2, <2>2 DEF Owned, ForwardsAreOpen, OneOwner
  <2>3. QED
    BY <2>1, <2>2 DEF ForwardsAreOpen
<1>4. OneOwner'
  BY <1>1 DEF Owned, OneOwner
<1>5. NothingOnUnborn'
  BY <1>1, <1>2 DEF Owned, NothingOnUnborn
<1>6. QED
  BY <1>3, <1>4, <1>5 DEF Owned

\* Binding: the listener is new, because whatever is recorded for an attached device is
\* open and a device does not bind a host port twice.
LEMMA MapBindOwned ==
  ASSUME TypeInv, Owned, NEW g \in Gos, MapBind(g)
  PROVE  Owned'
<1>1. PICK h \in HostPorts :
         /\ CanBind(pmDev, job[g].want, h)
         /\ LET l == [dev |-> pmDev, host |-> h, w |-> job[g].w, p |-> job[g].p]
            IN open' = open \cup {l} /\ held' = [held EXCEPT ![g] = l]
  BY DEF MapBind
<1> DEFINE l == [dev |-> pmDev, host |-> h, w |-> job[g].w, p |-> job[g].p]
<1>2. l.dev \in Attached /\ l \notin open
  <2>1. l.dev = pmDev /\ l.host = h
    OBVIOUS
  <2>2. l.dev \in Attached
    BY <1>1, <2>1 DEF CanBind, Binding
  <2>3. l \in open => h \in Bound(pmDev)
    BY <2>1 DEF Bound
  <2>4. QED
    BY <1>1, <2>2, <2>3 DEF CanBind
<1>3. open' = open \cup {l} /\ held' = [held EXCEPT ![g] = l]
  BY <1>1
<1>4. fwds' = fwds /\ Attached' = Attached /\ Unborn' = Unborn
  BY DEF MapBind, switchVars, Attached, Unborn
<1>5. l.dev \notin Unborn
  BY <1>2, PortsAssumption DEF Attached, Unborn
<1> HIDE DEF l
<1>6. \A i \in Gos : held'[i] = IF i = g THEN l ELSE held[i]
  BY <1>3 DEF TypeInv, TypeOK
<1>7. /\ \A w \in Workers, p \in Ports : fwds[w][p] # None => fwds[w][p] # l
      /\ \A i \in Gos : held[i] # None => held[i] # l
  BY <1>2 DEF Owned, ForwardsAreOpen
<1>8. ForwardsAreOpen'
  BY <1>3, <1>4, <1>6 DEF Owned, ForwardsAreOpen
<1>9. OneOwner'
  BY <1>4, <1>6, <1>7 DEF Owned, OneOwner
<1>10. NothingOnUnborn'
  BY <1>4, <1>5, <1>6 DEF Owned, NothingOnUnborn
<1>11. QED
  BY <1>8, <1>9, <1>10 DEF Owned

\* Recording what was bound moves the listener from the task to the map.
LEMMA MapInsertOwned ==
  ASSUME TypeInv, Owned, NEW g \in Gos, MapInsert(g)
  PROVE  Owned'
<1>1. job[g].w \in Workers /\ job[g].p \in Ports /\ held[g] # None
  BY DEF MapInsert, TypeInv, JobOK, Job
<1>2. /\ \A v \in Workers, q \in Ports :
            fwds'[v][q] = IF v = job[g].w /\ q = job[g].p THEN held[g] ELSE fwds[v][q]
      /\ \A i \in Gos : held'[i] = IF i = g THEN None ELSE held[i]
  BY DEF MapInsert, TypeInv, TypeOK
<1>3. open' = open /\ Attached' = Attached /\ Unborn' = Unborn
  BY DEF MapInsert, switchVars, Attached, Unborn
<1>4. ForwardsAreOpen'
  BY <1>1, <1>2, <1>3 DEF Owned, ForwardsAreOpen
<1>5. OneOwner'
  BY <1>1, <1>2 DEF Owned, OneOwner
<1>6. NothingOnUnborn'
  BY <1>1, <1>2, <1>3 DEF Owned, NothingOnUnborn
<1>7. QED
  BY <1>4, <1>5, <1>6 DEF Owned

\* A connection that drops takes its own listeners along and no other.
LEMMA LinkDownOwned ==
  ASSUME TypeInv, Owned, NEW c \in Conns, LinkDown(c)
  PROVE  Owned'
<1>1. link' = [link EXCEPT ![c] = "dead"] /\ link[c] = "up" /\ open' = {l \in open : l.dev # c}
  BY DEF LinkDown
<1>2. fwds' = fwds /\ held' = held
  BY DEF LinkDown, taskVars
<1>3. Attached' = Attached \ {c} /\ Unborn' = Unborn
  BY <1>1, PortsAssumption DEF Attached, Unborn, TypeInv, TypeOK
<1>4. ForwardsAreOpen'
  BY <1>1, <1>2, <1>3 DEF Owned, ForwardsAreOpen
<1>5. QED
  BY <1>2, <1>3, <1>4 DEF Owned, OneOwner, NothingOnUnborn

\* A connection that comes up has nothing recorded against it.
LEMMA ConnectOwned ==
  ASSUME TypeInv, Owned, NEW c \in Conns, Connect(c)
  PROVE  Owned'
<1>1. link' = [link EXCEPT ![c] = "up"] /\ link[c] = "new"
  BY DEF Connect
<1>2. fwds' = fwds /\ held' = held /\ open' = open
  BY DEF Connect, taskVars
<1>3. Attached' = Attached \cup {c} /\ Unborn' = Unborn \ {c} /\ c \in Unborn
  BY <1>1 DEF Attached, Unborn, TypeInv, TypeOK
<1>4. ForwardsAreOpen'
  BY <1>2, <1>3 DEF Owned, ForwardsAreOpen, NothingOnUnborn
<1>5. QED
  BY <1>2, <1>3, <1>4 DEF Owned, OneOwner, NothingOnUnborn

LEMMA NextOwned == TypeInv /\ Owned /\ [Next]_vars => Owned'
<1> SUFFICES ASSUME TypeInv, Owned, [Next]_vars PROVE Owned'
  OBVIOUS
<1> USE DEF switchVars, taskVars
<1>1. ASSUME NEW g \in Gos, AutoMapSnapshot(g) \/ MapStep(g) \/ HandlerStep(g)
      PROVE  Owned'
  <2>1. CASE MapBind(g)
    BY <2>1, MapBindOwned
  <2>2. CASE MapInsert(g)
    BY <2>2, MapInsertOwned
  <2>3. CASE HandlerUnmaps(g)
    <3>1. job[g].w \in Workers /\ job[g].p \in Ports
      BY <2>3 DEF HandlerUnmaps, TypeInv, JobOK, Job
    <3>2. QED
      BY <2>3, <3>1, UnmapOwned DEF HandlerUnmaps
  <2>4. CASE TaskClosesWorker(g)
    <3>1. job[g].w \in Workers
      BY <2>4 DEF TaskClosesWorker, TypeInv, JobOK, Job
    <3>2. QED
      BY <2>4, <3>1, UnmapPortsOwned DEF TaskClosesWorker
  <2>5. CASE \/ AutoMapSnapshot(g) \/ MapCheck(g) \/ MapBindFails(g)
             \/ HandlerRemembers(g) \/ HandlerForgets(g)
             \/ StopDocker(g) \/ StartDocker(g) \/ WireWorker(g)
             \/ NukeForgets(g) \/ NukeRemoves(g) \/ RegisterPuts(g)
    <3>1. UNCHANGED <<link, fwds, open, held>>
      BY <2>5 DEF AutoMapSnapshot, MapCheck, MapBindFails, HandlerRemembers, HandlerForgets,
         StopDocker, StartDocker, WireWorker, NukeForgets, NukeRemoves, RegisterPuts
    <3>2. QED
      BY <3>1, OwnedFrame
  <2>6. QED
    BY <1>1, <2>1, <2>2, <2>3, <2>4, <2>5 DEF MapStep, HandlerStep
<1>2. ASSUME NEW g \in Gos, NEW w \in Workers, Request(g, w)
      PROVE  Owned'
  <2>1. UNCHANGED <<link, fwds, open, held>>
    BY <1>2 DEF Request, MapRequest, UnmapRequest, StopRequest, NukeRequest, StartRequest,
       HealStarts, RegisterWires
  <2>2. QED
    BY <2>1, OwnedFrame
<1>3. ASSUME NEW c \in Conns, LinkStep(c)
      PROVE  Owned'
  <2>1. CASE Connect(c)
    BY <2>1, ConnectOwned
  <2>2. CASE LinkDown(c)
    BY <2>2, LinkDownOwned
  <2>3. CASE Activate(c) \/ Deactivate(c)
    BY <2>3, OwnedFrame DEF Activate, Deactivate
  <2>4. QED
    BY <1>3, <2>1, <2>2, <2>3 DEF LinkStep
<1>4. ASSUME NEW t \in Switchers, SwitchStep(t)
      PROVE  Owned'
  <2>1. CASE MapperSetDevice(t)
    BY <2>1, OwnedFrame DEF MapperSetDevice
  <2>2. CASE \E g \in Gos, w \in Workers : RebindWorker(t, g, w)
    BY <2>2, UnmapPortsOwned DEF RebindWorker
  <2>3. QED
    BY <1>4, <2>1, <2>2 DEF SwitchStep
<1>5. ASSUME NEW w \in Workers, ContainerChanges(w)
      PROVE  Owned'
  BY <1>5, OwnedFrame DEF ContainerChanges
<1>6. CASE UNCHANGED vars
  BY <1>6, OwnedFrame DEF vars
<1>7. QED
  BY <1>1, <1>2, <1>3, <1>4, <1>5, <1>6 DEF Next

LEMMA AlwaysOwned == Spec => []Owned
  BY InitOwned, NextOwned, InitTypeInv, NextTypeInv, PTL DEF Spec

\* Whatever order unmaps, rebinds, stops, nukes and late Map calls run in, a listed
\* forward of an attached device is listened on.
THEOREM ForwardsStayOpen == Spec => []ForwardsAreOpen
<1>1. Owned => ForwardsAreOpen
  BY DEF Owned
<1>2. QED
  BY <1>1, AlwaysOwned, PTL

\* No two forwards, nor a forward and a running Map, ever own the same listener.
THEOREM ListenersHaveOneOwner == Spec => []OneOwner
<1>1. Owned => OneOwner
  BY DEF Owned
<1>2. QED
  BY <1>1, AlwaysOwned, PTL

-----------------------------------------------------------------------------
(* Declared ports.  A port that is owed a forward has one, or an autoMap   *)
(* still has it before it, or a rebind its worker: unless the device that  *)
(* new forwards bind on can bind none, and then only its successor's       *)
(* rebind makes up for what autoMap gave up.                               *)

Owed(w, p) == Declared[w][p] # None /\ p \notin Reserved /\ p \notin waived[w]

\* autoMap g has yet to forward port p of w.
Coming(g, w, p) ==
    /\ job[g] # None /\ job[g].kind = "auto" /\ job[g].w = w
    /\ \/ pc[g] = "snapshot"
       \/ /\ pc[g] \in {"check", "bind", "insert"}
          /\ job[g].p = p \/ \E h \in HostPorts : <<p, h>> \in todo[g]

Rebinding(w) == \E t \in Switchers : spc[t] = "rebind" /\ w \in stodo[t]

Met(w, p) == fwds[w][p] # None \/ (\E g \in Gos : Coming(g, w, p)) \/ Rebinding(w)

Covered == pmDev \in Binding => \A w \in Workers, p \in Ports : Owed(w, p) => Met(w, p)

\* A device that new forwards bind on, now or next, has connected: it does not come up later.
Born == coDev \notin Unborn /\ pmDev \notin Unborn /\ \A t \in Switchers : scur[t] \notin Unborn

LEMMA BornStep == TypeInv /\ Born /\ [Next]_vars => Born'
<1> SUFFICES ASSUME TypeInv, Born, [Next]_vars PROVE Born'
  OBVIOUS
<1> USE DEF switchVars, Born, Unborn, TypeInv, TypeOK
<1>1. ASSUME NEW c \in Conns, LinkStep(c) PROVE Born'
  <2>1. CASE Connect(c)
    BY <2>1 DEF Connect
  <2>2. CASE LinkDown(c)
    BY <2>2 DEF LinkDown
  <2>3. CASE Activate(c)
    <3>1. c \notin Unborn /\ Unborn' = Unborn /\ coDev' = c /\ pmDev' = pmDev
      BY <2>3 DEF Activate
    <3>2. \A t \in Switchers : scur'[t] = scur[t] \/ scur'[t] = c
      BY <2>3 DEF Activate
    <3> QED
      BY <3>1, <3>2
  <2>4. CASE Deactivate(c)
    <3>1. Unborn' = Unborn /\ coDev' \in {coDev, Local} /\ pmDev' = pmDev
      BY <2>4 DEF Deactivate
    <3>2. coDev' \notin Unborn
      BY <3>1, PortsAssumption
    <3>3. \A t \in Switchers : scur'[t] = scur[t] \/ scur'[t] = coDev'
      BY <2>4 DEF Deactivate
    <3> HIDE DEF Unborn
    <3> QED
      BY <3>1, <3>2, <3>3
  <2> QED
    BY <1>1, <2>1, <2>2, <2>3, <2>4 DEF LinkStep
<1>2. ASSUME NEW t \in Switchers, SwitchStep(t) PROVE Born'
  <2>1. CASE MapperSetDevice(t)
    BY <2>1, PortsAssumption DEF MapperSetDevice
  <2>2. CASE \E g \in Gos, w \in Workers : RebindWorker(t, g, w)
    BY <2>2 DEF RebindWorker
  <2> QED
    BY <1>2, <2>1, <2>2 DEF SwitchStep
<1>3. CASE \/ \E g \in Gos : AutoMapSnapshot(g) \/ MapStep(g) \/ HandlerStep(g)
           \/ \E g \in Gos, w \in Workers : Request(g, w)
           \/ \E w \in Workers : ContainerChanges(w)
           \/ UNCHANGED vars
  <2>1. UNCHANGED <<link, coDev, pmDev, scur>>
    BY <1>3 DEF AutoMapSnapshot, MapStep, MapCheck, MapBind, MapBindFails, MapInsert, HandlerStep,
       HandlerUnmaps, HandlerRemembers, HandlerForgets, TaskClosesWorker, StopDocker, StartDocker,
       WireWorker, NukeForgets, NukeRemoves, RegisterPuts, Request, MapRequest, UnmapRequest,
       StopRequest, NukeRequest, StartRequest, HealStarts, RegisterWires, ContainerChanges, vars
  <2> QED
    BY <2>1
<1> QED
  BY <1>1, <1>2, <1>3 DEF Next

\* The other tasks stay where they are, with what they have before them.
Alone(g) == \A h \in Gos \ {g} : pc'[h] = pc[h] /\ job'[h] = job[h] /\ todo'[h] = todo[h]

LEMMA AloneComing ==
  ASSUME NEW g \in Gos, Alone(g), NEW h \in Gos \ {g}, NEW w, NEW p
  PROVE  Coming(h, w, p)' <=> Coming(h, w, p)
  BY DEF Alone, Coming

\* What autoMap goes on with is still before it.
LEMMA ProceedComes ==
  ASSUME TypeInv, NEW g \in Gos, pc[g] # "idle", job[g].kind = "auto",
         NEW left \in SUBSET (Ports \X HostPorts), Proceed(g, left)
  PROVE  /\ Alone(g)
         /\ \A w \in Workers, p \in Ports, h \in HostPorts :
               w = job[g].w /\ <<p, h>> \in left => Coming(g, w, p)'
<1>1. CASE left = {}
  BY <1>1 DEF Proceed, End, Alone, TypeInv, TypeOK
<1>2. CASE left # {}
  <2>1. PICK x \in left : /\ todo' = [todo EXCEPT ![g] = left \ {x}]
                          /\ job' = [job EXCEPT ![g].p = x[1], ![g].want = x[2]]
    BY <1>2 DEF Proceed
  <2>2. job[g] \in Job /\ pc' = [pc EXCEPT ![g] = "check"]
    BY <1>2 DEF Proceed, TypeInv, JobOK
  <2>3. Alone(g)
    BY <2>1, <2>2 DEF Alone, TypeInv, TypeOK
  <2>4. /\ job'[g].kind = "auto" /\ job'[g].w = job[g].w /\ job'[g].p = x[1] /\ job'[g] \in Job
        /\ pc'[g] = "check" /\ todo'[g] = left \ {x}
    <3>1. x[1] \in Ports /\ x[2] \in HostPorts
      OBVIOUS
    <3> QED
      BY <2>1, <2>2, <3>1 DEF TypeInv, TypeOK, Job
  <2>5. ASSUME NEW w \in Workers, NEW p \in Ports, NEW h \in HostPorts,
               w = job[g].w, <<p, h>> \in left
        PROVE  Coming(g, w, p)'
    <3>1. <<p, h>> = x \/ <<p, h>> \in todo'[g]
      BY <2>4, <2>5
    <3>2. job'[g] # None
      BY <2>4, NoneAssumption
    <3> QED
      BY <2>4, <2>5, <3>1, <3>2 DEF Coming
  <2> QED
    BY <2>3, <2>5
<1> QED
  BY <1>1, <1>2

\* A step that takes nothing away.
LEMMA CoveredFrame ==
  ASSUME Covered, pmDev' \in Binding' => pmDev \in Binding,
         \A w \in Workers, p \in Ports : Owed(w, p)' => Owed(w, p) \/ Met(w, p)',
         \A w \in Workers, p \in Ports : Owed(w, p)' /\ Met(w, p) => Met(w, p)'
  PROVE  Covered'
  BY DEF Covered

\* A step of task g alone that keeps the forwards: g still comes to what it came to, or that
\* has its forward.
LEMMA TaskCovered ==
  ASSUME Covered, NEW g \in Gos, Alone(g),
         UNCHANGED <<link, pmDev, spc, stodo, fwds, waived>>,
         pmDev \in Binding =>
           \A w \in Workers, p \in Ports :
              Owed(w, p) /\ Coming(g, w, p) => fwds[w][p] # None \/ Coming(g, w, p)'
  PROVE  Covered'
<1> SUFFICES ASSUME pmDev \in Binding, NEW w \in Workers, NEW p \in Ports, Owed(w, p) PROVE Met(w, p)'
  BY DEF Covered, Binding, Attached, Owed
<1>1. Met(w, p)
  BY DEF Covered
<1>2. ASSUME fwds[w][p] = None, NEW h \in Gos, Coming(h, w, p) PROVE Coming(h, w, p)'
  <2>1. CASE h = g
    BY <1>2, <2>1
  <2>2. CASE h # g
    BY <1>2, <2>2, AloneComing
  <2> QED
    BY <2>1, <2>2
<1>3. Rebinding(w)' = Rebinding(w)
  BY DEF Rebinding
<1> QED
  BY <1>1, <1>2, <1>3 DEF Met

\* The task had nothing before it that is owed.
LEMMA NotComing ==
  ASSUME NEW g \in Gos, NEW w, NEW p,
         \/ pc[g] \notin {"snapshot", "check", "bind", "insert"}
         \/ job[g].kind # "auto"
  PROVE  ~Coming(g, w, p)
  BY DEF Coming

\* autoMap loses a port it could not bind only while the device can bind none.
LEMMA MapStepCovered ==
  ASSUME TypeInv, Covered, NEW g \in Gos, AutoMapSnapshot(g) \/ MapStep(g)
  PROVE  Covered'
<1> USE DEF switchVars
<1>a. /\ pc[g] # "idle" /\ job[g] \in Job /\ job[g] # None
      /\ job[g].w \in Workers /\ todo[g] \in SUBSET (Ports \X HostPorts)
  BY NoneAssumption DEF AutoMapSnapshot, MapStep, MapCheck, MapBind, MapBindFails, MapInsert, TypeInv,
     TypeOK, JobOK, Job
\* What is left of todo comes next.
<1>b. ASSUME Proceed(g, todo[g]), job[g].kind = "auto", pc[g] # "snapshot",
             NEW w \in Workers, NEW p \in Ports, Coming(g, w, p), p # job[g].p
      PROVE  Coming(g, w, p)'
  <2>1. w = job[g].w /\ \E h \in HostPorts : <<p, h>> \in todo[g]
    BY <1>b DEF Coming
  <2> QED
    BY <1>a, <1>b, <2>1, ProceedComes
<1>1. CASE AutoMapSnapshot(g)
  <2>1. /\ pc[g] = "snapshot" /\ Proceed(g, Wanted(job[g].w))
        /\ UNCHANGED <<link, pmDev, spc, stodo, fwds, waived>>
    BY <1>1 DEF AutoMapSnapshot
  <2>2. Wanted(job[g].w) \in SUBSET (Ports \X HostPorts)
    BY DEF Wanted
  <2>3. CASE job[g].kind = "auto"
    <3>1. Alone(g)
      BY <1>a, <2>1, <2>2, <2>3, ProceedComes
    <3>2. ASSUME NEW w \in Workers, NEW p \in Ports, Owed(w, p), Coming(g, w, p)
          PROVE  Coming(g, w, p)'
      <4>1. w = job[g].w
        BY <3>2 DEF Coming
      <4>2. HostFor(w, p) \in HostPorts
        BY <3>2, PortsAssumption DEF HostFor, Owed, TypeInv, TypeOK
      <4>3. <<p, HostFor(w, p)>> \in Wanted(w)
        BY <4>2 DEF Wanted
      <4> QED
        BY <1>a, <2>1, <2>2, <2>3, <4>1, <4>2, <4>3, ProceedComes
    <3> QED
      BY <2>1, <3>1, <3>2, TaskCovered
  <2>4. CASE job[g].kind # "auto"
    <3>1. Alone(g)
      BY <2>1 DEF Proceed, End, Alone, TypeInv, TypeOK
    <3> QED
      BY <2>1, <2>4, <3>1, NotComing, TaskCovered
  <2> QED
    BY <2>3, <2>4
\* A call of Map that failed, when the device can bind or the port is reserved.
<1>2. ASSUME MapFails(g), pc[g] \in {"check", "bind"},
             UNCHANGED <<link, pmDev, spc, stodo, fwds, waived>>,
             pmDev \in Binding => job[g].p \in Reserved \/ job[g].want # None
      PROVE  Covered'
  <2>1. CASE job[g].kind # "auto"
    <3>1. Alone(g)
      BY <1>2, <2>1 DEF MapFails, End, Alone, TypeInv, TypeOK
    <3> QED
      BY <1>2, <2>1, <3>1, NotComing, TaskCovered
  <2>2. CASE /\ job[g].kind = "auto" /\ job[g].want # None
             /\ pc' = [pc EXCEPT ![g] = "check"]
             /\ job' = [job EXCEPT ![g].want = None]
             /\ UNCHANGED todo
    <3>1. Alone(g)
      BY <2>2 DEF Alone, TypeInv, TypeOK
    <3>2. /\ pc'[g] = "check" /\ todo'[g] = todo[g]
          /\ job'[g] = [job[g] EXCEPT !.want = None] /\ job'[g] \in Job
      BY <1>a, <2>2 DEF TypeInv, TypeOK, Job
    <3>3. ASSUME NEW w \in Workers, NEW p \in Ports, Coming(g, w, p) PROVE Coming(g, w, p)'
      <4>1. job'[g].kind = job[g].kind /\ job'[g].w = job[g].w /\ job'[g].p = job[g].p
        BY <1>a, <3>2 DEF Job
      <4>2. job'[g] # None
        BY <3>2, NoneAssumption
      <4> QED
        BY <1>2, <3>2, <3>3, <4>1, <4>2 DEF Coming
    <3> QED
      BY <1>2, <3>1, <3>3, TaskCovered
  <2>3. CASE job[g].kind = "auto" /\ job[g].want = None /\ Proceed(g, todo[g])
    <3>1. Alone(g)
      BY <1>a, <2>3, ProceedComes
    <3>2. ASSUME pmDev \in Binding, NEW w \in Workers, NEW p \in Ports, Owed(w, p), Coming(g, w, p)
          PROVE  Coming(g, w, p)'
      <4>1. p # job[g].p
        BY <1>2, <2>3, <3>2 DEF Owed
      <4> QED
        BY <1>2, <1>b, <2>3, <3>2, <4>1
    <3> QED
      BY <1>2, <3>1, <3>2, TaskCovered
  <2> QED
    BY <1>2, <2>1, <2>2, <2>3 DEF MapFails
\* A call that returned: the port has its forward.
<1>3. ASSUME NEW h \in HostPorts, MapReturns(g, h), pc[g] \in {"check", "insert"}
      PROVE  /\ Alone(g)
             /\ \A w \in Workers, p \in Ports :
                  Coming(g, w, p) => (w = job[g].w /\ p = job[g].p) \/ Coming(g, w, p)'
  <2>1. CASE job[g].kind = "auto"
    <3>1. Proceed(g, todo[g])
      BY <1>3, <2>1 DEF MapReturns
    <3> QED
      BY <1>3, <1>a, <1>b, <2>1, <3>1, ProceedComes DEF Coming
  <2>2. CASE job[g].kind # "auto"
    <3>1. Alone(g)
      BY <1>3, <2>2 DEF MapReturns, Alone, TypeInv, TypeOK
    <3> QED
      BY <2>2, <3>1, NotComing
  <2> QED
    BY <2>1, <2>2
<1>4. CASE MapCheck(g)
  <2>1. UNCHANGED <<link, pmDev, spc, stodo, fwds, waived>> /\ pc[g] = "check" /\ job[g].p \in Ports
    BY <1>4 DEF MapCheck, TypeInv, JobOK
  <2>2. CASE job[g].p \in Reserved /\ MapFails(g)
    BY <1>2, <2>1, <2>2
  <2>3. CASE fwds[job[g].w][job[g].p] # None /\ MapReturns(g, fwds[job[g].w][job[g].p].host)
    <3>1. fwds[job[g].w][job[g].p].host \in HostPorts
      BY <1>a, <2>1, <2>3 DEF TypeInv, TypeOK, Listener
    <3> QED
      BY <1>3, <2>1, <2>3, <3>1, TaskCovered
  <2>4. CASE Goto(g, "bind")
    <3>1. Alone(g) /\ pc'[g] = "bind" /\ UNCHANGED <<job, todo>>
      BY <2>4 DEF Goto, Alone, TypeInv, TypeOK
    <3>2. \A w \in Workers, p \in Ports : Coming(g, w, p) => Coming(g, w, p)'
      BY <2>1, <3>1 DEF Coming
    <3> QED
      BY <2>1, <3>1, <3>2, TaskCovered
  <2> QED
    BY <1>4, <2>2, <2>3, <2>4 DEF MapCheck
<1>5. CASE MapBind(g)
  <2>1. /\ UNCHANGED <<link, pmDev, spc, stodo, fwds, waived, job, todo>> /\ pc[g] = "bind"
        /\ pc' = [pc EXCEPT ![g] = "insert"]
    BY <1>5 DEF MapBind
  <2>2. Alone(g) /\ pc'[g] = "insert"
    BY <2>1 DEF Alone, TypeInv, TypeOK
  <2>3. \A w \in Workers, p \in Ports : Coming(g, w, p) => Coming(g, w, p)'
    BY <2>1, <2>2 DEF Coming
  <2> QED
    BY <2>1, <2>2, <2>3, TaskCovered
<1>6. CASE MapBindFails(g)
  BY <1>2, <1>6 DEF MapBindFails, BindFails
<1>7. CASE MapInsert(g)
  <2> DEFINE v == job[g].w
             o == job[g].p
  <2>1. /\ pc[g] = "insert" /\ held[g] \in Listener /\ o \in Ports
        /\ UNCHANGED <<link, pmDev, spc, stodo>>
        /\ MapReturns(g, held[g].host)
    BY <1>7 DEF MapInsert, TypeInv, TypeOK, JobOK
  <2>2. held[g] # None /\ held[g].host \in HostPorts
    BY <2>1, NoneAssumption DEF Listener
  <2>3. \A w \in Workers, p \in Ports :
           fwds'[w][p] = IF w = v /\ p = o THEN held[g] ELSE fwds[w][p]
    BY <1>7, <2>1 DEF MapInsert, TypeInv, TypeOK
  <2>4. \A w \in Workers, p \in Ports :
           p \notin waived'[w] => p \notin waived[w] \/ (w = v /\ p = o)
    BY <1>7 DEF MapInsert, TypeInv, TypeOK
  <2>5. /\ Alone(g)
        /\ \A w \in Workers, p \in Ports : Coming(g, w, p) => (w = v /\ p = o) \/ Coming(g, w, p)'
    BY <1>3, <2>1, <2>2
  <2> HIDE DEF v, o
  <2>6. ASSUME NEW w \in Workers, NEW p \in Ports, Owed(w, p)' PROVE Owed(w, p) \/ Met(w, p)'
    BY <2>2, <2>3, <2>4, <2>6 DEF Owed, Met
  <2>7. ASSUME NEW w \in Workers, NEW p \in Ports, Met(w, p) PROVE Met(w, p)'
    <3>1. CASE fwds[w][p] # None
      BY <2>2, <2>3, <3>1 DEF Met
    <3>2. ASSUME NEW h \in Gos, Coming(h, w, p) PROVE Met(w, p)'
      <4>1. CASE h = g
        BY <2>2, <2>3, <2>5, <3>2, <4>1 DEF Met
      <4>2. CASE h # g
        BY <2>5, <3>2, <4>2, AloneComing DEF Met
      <4> QED
        BY <4>1, <4>2
    <3>3. CASE Rebinding(w)
      BY <2>1, <3>3 DEF Rebinding, Met
    <3> QED
      BY <2>7, <3>1, <3>2, <3>3 DEF Met
  <2>8. Binding' = Binding /\ pmDev' = pmDev
    BY <2>1 DEF Binding, Attached
  <2> QED
    BY <2>6, <2>7, <2>8, CoveredFrame
<1> QED
  BY <1>1, <1>4, <1>5, <1>6, <1>7 DEF MapStep

\* A step of a handler that puts nothing before another task.
LEMMA HandlerStepCovered ==
  ASSUME TypeInv, Covered, NEW g \in Gos, HandlerStep(g)
  PROVE  Covered'
<1> USE DEF switchVars
<1>a. /\ pc[g] \notin {"idle", "snapshot", "check", "bind", "insert"}
      /\ job[g] \in Job /\ job[g].w \in Workers
  BY DEF HandlerStep, HandlerUnmaps, HandlerRemembers, HandlerForgets, TaskClosesWorker, StopDocker,
     StartDocker, WireWorker, NukeForgets, NukeRemoves, RegisterPuts, TypeInv, TypeOK, JobOK, Job
<1>b. ASSUME NEW w, NEW p PROVE ~Coming(g, w, p)
  BY <1>a, NotComing
<1>c. ASSUME NEW at, Goto(g, at) PROVE Alone(g)
  BY <1>c DEF Goto, Alone, TypeInv, TypeOK
<1>d. End(g) => Alone(g)
  BY DEF End, Alone, TypeInv, TypeOK
\* A forward that is dropped is dropped for a port that is no longer owed one.
<1>e. ASSUME Alone(g), UNCHANGED <<link, pmDev, spc, stodo>>,
             \A w \in Workers, p \in Ports :
                p \notin waived'[w] => p \notin waived[w] /\ fwds'[w][p] = fwds[w][p]
      PROVE  Covered'
  <2> SUFFICES ASSUME pmDev \in Binding, NEW w \in Workers, NEW p \in Ports, Owed(w, p)'
               PROVE  Met(w, p)'
    BY <1>e DEF Covered, Binding, Attached
  <2>1. Owed(w, p) /\ fwds'[w][p] = fwds[w][p]
    BY <1>e DEF Owed
  <2>2. Met(w, p)
    BY <2>1 DEF Covered
  <2>3. ASSUME NEW h \in Gos, Coming(h, w, p) PROVE Coming(h, w, p)'
    <3>1. h # g
      BY <1>b, <2>3
    <3> QED
      BY <1>e, <2>3, <3>1, AloneComing
  <2>4. Rebinding(w)' = Rebinding(w)
    BY <1>e DEF Rebinding
  <2> QED
    BY <2>1, <2>2, <2>3, <2>4 DEF Met
<1>1. CASE HandlerUnmaps(g)
  <2>1. Alone(g)
    BY <1>1, <1>c DEF HandlerUnmaps
  <2>2. job[g].p \in Ports
    BY <1>1 DEF HandlerUnmaps, TypeInv, JobOK
  <2>3. \A w \in Workers, p \in Ports :
           p \notin waived'[w] =>
              p \notin waived[w] /\ ~(w = job[g].w /\ p = job[g].p)
    BY <1>1, <1>a DEF HandlerUnmaps, TypeInv, TypeOK
  <2>4. \A w \in Workers, p \in Ports :
           ~(w = job[g].w /\ p = job[g].p) => fwds'[w][p] = fwds[w][p]
    BY <1>1, <1>a, <2>2 DEF HandlerUnmaps, Unmap, TypeInv, TypeOK
  <2>5. UNCHANGED <<link, pmDev, spc, stodo>>
    BY <1>1 DEF HandlerUnmaps
  <2> QED
    BY <1>e, <2>1, <2>3, <2>4, <2>5
<1>2. CASE TaskClosesWorker(g)
  <2>1. Alone(g)
    BY <1>2, <1>c DEF TaskClosesWorker
  <2>2. \A w \in Workers, p \in Ports : p \notin waived'[w] => p \notin waived[w] /\ w # job[g].w
    BY <1>2, <1>a DEF TaskClosesWorker, TypeInv, TypeOK
  <2>3. \A w \in Workers : w # job[g].w => fwds'[w] = fwds[w]
    BY <1>2, <1>a DEF TaskClosesWorker, UnmapPorts, TypeInv, TypeOK
  <2>4. UNCHANGED <<link, pmDev, spc, stodo>>
    BY <1>2 DEF TaskClosesWorker
  <2> QED
    BY <1>e, <2>1, <2>2, <2>3, <2>4
<1>3. CASE WireWorker(g)
  <2> DEFINE v == job[g].w
  <2>1. Alone(g)
    BY <1>3 DEF WireWorker, BecomeAutoMap, Alone, TypeInv, TypeOK
  <2>2. /\ pc'[g] = "snapshot" /\ job'[g] = [kind |-> "auto", w |-> v, p |-> None, want |-> None]
        /\ \A w \in Workers : w # v => waived'[w] = waived[w]
        /\ UNCHANGED <<link, pmDev, spc, stodo, fwds>>
    BY <1>3 DEF WireWorker, BecomeAutoMap, TypeInv, TypeOK
  <2>3. job'[g] \in Job
    BY <1>a, <2>2 DEF Job, Kinds
  <2>4. ASSUME NEW w, NEW p, w = v PROVE Coming(g, w, p)'
    BY <2>2, <2>3, <2>4, NoneAssumption DEF Coming
  <2> HIDE DEF v
  <2>5. ASSUME NEW w \in Workers, NEW p \in Ports, Owed(w, p)' PROVE Owed(w, p) \/ Met(w, p)'
    <3>1. CASE w = v
      BY <2>4, <3>1 DEF Met
    <3>2. CASE w # v
      BY <2>2, <2>5, <3>2 DEF Owed
    <3> QED
      BY <3>1, <3>2
  <2>6. ASSUME NEW w \in Workers, NEW p \in Ports, Met(w, p) PROVE Met(w, p)'
    <3>1. ASSUME NEW h \in Gos, Coming(h, w, p) PROVE Coming(h, w, p)'
      <4>1. h # g
        BY <1>b, <3>1
      <4> QED
        BY <2>1, <3>1, <4>1, AloneComing
    <3>2. Rebinding(w)' = Rebinding(w)
      BY <2>2 DEF Rebinding
    <3> QED
      BY <2>2, <2>6, <3>1, <3>2 DEF Met
  <2>7. Binding' = Binding /\ pmDev' = pmDev
    BY <2>2 DEF Binding, Attached
  <2> QED
    BY <2>5, <2>6, <2>7, CoveredFrame
<1>4. CASE \/ HandlerRemembers(g) \/ HandlerForgets(g) \/ StopDocker(g) \/ StartDocker(g)
           \/ NukeForgets(g) \/ NukeRemoves(g) \/ RegisterPuts(g)
  <2>1. Alone(g)
    BY <1>4, <1>c, <1>d DEF HandlerRemembers, HandlerForgets, StopDocker, StartDocker, NukeForgets,
       NukeRemoves, RegisterPuts
  <2>2. UNCHANGED <<link, pmDev, spc, stodo, fwds, waived>>
    BY <1>4 DEF HandlerRemembers, HandlerForgets, StopDocker, StartDocker, NukeForgets, NukeRemoves,
       RegisterPuts
  <2> QED
    BY <1>b, <2>1, <2>2, TaskCovered
<1> QED
  BY <1>1, <1>2, <1>3, <1>4 DEF HandlerStep

\* A task that starts was idle: nothing was before it, and a request puts nothing else away.
LEMMA RequestCovered ==
  ASSUME TypeInv, Covered, NEW g \in Gos, NEW w \in Workers, Request(g, w)
  PROVE  Covered'
<1> USE DEF switchVars
<1>1. CASE \E h \in Gos : RegisterWires(g, h, w)
  <2>1. PICK h \in Gos : RegisterWires(g, h, w)
    BY <1>1
  <2>2. /\ pc[g] = "idle" /\ pc[h] = "idle" /\ g # h
        /\ pc'[h] = "snapshot" /\ job'[h] = [kind |-> "auto", w |-> w, p |-> None, want |-> None]
        /\ \A v \in Workers : v # w => waived'[v] = waived[v]
        /\ UNCHANGED <<link, pmDev, spc, stodo, fwds>>
    BY <2>1 DEF RegisterWires, TypeInv, TypeOK
  <2>3. job'[h] \in Job
    BY <2>2 DEF Job, Kinds
  <2>4. \A p \in Ports : Coming(h, w, p)'
    BY <2>2, <2>3, NoneAssumption DEF Coming
  <2>5. ASSUME NEW v \in Workers, NEW p \in Ports, NEW k \in Gos, Coming(k, v, p) PROVE Coming(k, v, p)'
    <3>1. k # g /\ k # h
      BY <2>2, <2>5 DEF Coming
    <3>2. pc'[k] = pc[k] /\ job'[k] = job[k] /\ todo'[k] = todo[k]
      BY <2>1, <3>1 DEF RegisterWires, TypeInv, TypeOK
    <3> QED
      BY <2>5, <3>2 DEF Coming
  <2>6. ASSUME NEW v \in Workers, NEW p \in Ports, Owed(v, p)' PROVE Owed(v, p) \/ Met(v, p)'
    <3>1. CASE v = w
      BY <2>4, <3>1 DEF Met
    <3>2. CASE v # w
      BY <2>2, <2>6, <3>2 DEF Owed
    <3> QED
      BY <3>1, <3>2
  <2>7. ASSUME NEW v \in Workers, NEW p \in Ports, Met(v, p) PROVE Met(v, p)'
    <3>1. Rebinding(v)' = Rebinding(v)
      BY <2>2 DEF Rebinding
    <3> QED
      BY <2>2, <2>5, <2>7, <3>1 DEF Met
  <2>8. Binding' = Binding /\ pmDev' = pmDev
    BY <2>2 DEF Binding, Attached
  <2> QED
    BY <2>6, <2>7, <2>8, CoveredFrame
<1>2. CASE ~\E h \in Gos : RegisterWires(g, h, w)
  <2>1. /\ pc[g] = "idle" /\ Alone(g) /\ UNCHANGED <<link, pmDev, spc, stodo, fwds, waived>>
    BY <1>2 DEF Request, MapRequest, UnmapRequest, StopRequest, NukeRequest, StartRequest, HealStarts,
       Begin, Alone, TypeInv, TypeOK
  <2> QED
    BY <2>1, NotComing, TaskCovered
<1> QED
  BY <1>1, <1>2

\* The mapper's device is attached for good from its connection to its end.
LEMMA LinkStepCovered ==
  ASSUME TypeInv, Born, Covered, NEW c \in Conns, LinkStep(c)
  PROVE  Covered'
<1>1. UNCHANGED <<pmDev, fwds, waived, pc, job, todo>>
  BY DEF LinkStep, Connect, LinkDown, Activate, Deactivate, taskVars
<1>2. pmDev' \in Binding' => pmDev \in Binding
  <2>1. CASE Connect(c)
    <3>1. pmDev # c
      BY <2>1 DEF Connect, Born, Unborn
    <3>2. \A d \in Conns : d # c => link'[d] = link[d]
      BY <2>1 DEF Connect, TypeInv, TypeOK
    <3> QED
      BY <1>1, <3>1, <3>2 DEF Binding, Attached
  <2>2. CASE LinkDown(c)
    <3>1. \A d \in Conns : link'[d] = "up" => link[d] = "up"
      BY <2>2 DEF LinkDown, TypeInv, TypeOK
    <3> QED
      BY <1>1, <3>1 DEF Binding, Attached
  <2>3. CASE Activate(c) \/ Deactivate(c)
    BY <2>3, <1>1 DEF Activate, Deactivate, Binding, Attached
  <2> QED
    BY <2>1, <2>2, <2>3 DEF LinkStep
<1>3. stodo' = stodo /\ \A t \in Switchers : spc[t] = "rebind" => spc'[t] = "rebind"
  <2>1. CASE Connect(c) \/ LinkDown(c)
    BY <2>1 DEF Connect, LinkDown
  <2>2. CASE Activate(c)
    BY <2>2 DEF Activate, HelloOf, Switchers, TypeInv, TypeOK
  <2>3. CASE Deactivate(c)
    BY <2>3 DEF Deactivate, WaitOf, Switchers, TypeInv, TypeOK
  <2> QED
    BY <2>1, <2>2, <2>3 DEF LinkStep
<1>4. \A w \in Workers, p \in Ports : Owed(w, p)' = Owed(w, p)
  BY <1>1 DEF Owed
<1>5. ASSUME NEW w \in Workers, NEW p \in Ports, Met(w, p) PROVE Met(w, p)'
  <2>1. \A g \in Gos : Coming(g, w, p) => Coming(g, w, p)'
    BY <1>1 DEF Coming
  <2>2. Rebinding(w) => Rebinding(w)'
    BY <1>3 DEF Rebinding
  <2> QED
    BY <1>1, <1>5, <2>1, <2>2 DEF Met
<1> QED
  BY <1>2, <1>4, <1>5, CoveredFrame

\* A device switch owes every worker it will visit, and no other.
LEMMA SwitchStepCovered ==
  ASSUME TypeInv, Covered, NEW t \in Switchers, SwitchStep(t)
  PROVE  Covered'
<1>1. CASE MapperSetDevice(t)
  <2> SUFFICES ASSUME NEW w \in Workers, NEW p \in Ports, Owed(w, p)' PROVE Met(w, p)'
    BY DEF Covered
  <2>1. w \in Listed
    BY <1>1 DEF MapperSetDevice, Owed
  <2>2. spc'[t] = "rebind" /\ w \in stodo'[t]
    BY <1>1, <2>1 DEF MapperSetDevice, TypeInv, TypeOK
  <2> QED
    BY <2>2 DEF Met, Rebinding
<1>2. ASSUME NEW g \in Gos, NEW v \in Workers, RebindWorker(t, g, v) PROVE Covered'
  <2>1. /\ pc[g] = "idle" /\ Alone(g)
        /\ pc'[g] = "snapshot" /\ job'[g] = [kind |-> "auto", w |-> v, p |-> None, want |-> None]
    BY <1>2 DEF RebindWorker, GoAutoMap, Begin, Alone, TypeInv, TypeOK
  <2>2. \A w \in Workers : w # v => waived'[w] = waived[w] /\ fwds'[w] = fwds[w]
    BY <1>2 DEF RebindWorker, UnmapPorts, GoAutoMap, TypeInv, TypeOK
  <2>3. job'[g] \in Job
    BY <2>1 DEF Job, Kinds
  <2>4. \A p \in Ports : Coming(g, v, p)'
    BY <2>1, <2>3, NoneAssumption DEF Coming
  <2>5. ASSUME NEW w \in Workers, w # v, Rebinding(w) PROVE Rebinding(w)'
    <3>1. PICK s \in Switchers : spc[s] = "rebind" /\ w \in stodo[s]
      BY <2>5 DEF Rebinding
    <3>2. w \in stodo'[s]
      BY <1>2, <2>5, <3>1 DEF RebindWorker, TypeInv, TypeOK
    <3>3. spc'[s] = "rebind"
      BY <1>2, <3>1, <3>2 DEF RebindWorker, TypeInv, TypeOK
    <3> QED
      BY <3>2, <3>3 DEF Rebinding
  <2>6. ASSUME NEW w \in Workers, NEW p \in Ports, w # v, Met(w, p) PROVE Met(w, p)'
    <3>1. ASSUME NEW h \in Gos, Coming(h, w, p) PROVE Coming(h, w, p)'
      <4>1. h # g
        BY <2>1, <3>1 DEF Coming
      <4> QED
        BY <2>1, <3>1, <4>1, AloneComing
    <3> QED
      BY <2>2, <2>5, <2>6, <3>1 DEF Met
  <2> SUFFICES ASSUME pmDev \in Binding, NEW w \in Workers, NEW p \in Ports, Owed(w, p)'
               PROVE  Met(w, p)'
    BY <1>2 DEF Covered, RebindWorker, Binding, Attached
  <2>7. CASE w = v
    BY <2>4, <2>7 DEF Met
  <2>8. CASE w # v
    <3>1. Owed(w, p)
      BY <2>2, <2>8 DEF Owed
    <3> QED
      BY <2>6, <2>8, <3>1 DEF Covered
  <2> QED
    BY <2>7, <2>8
<1> QED
  BY <1>1, <1>2 DEF SwitchStep

LEMMA CoveredStep == TypeInv /\ Born /\ Covered /\ [Next]_vars => Covered'
<1> SUFFICES ASSUME TypeInv, Born, Covered, [Next]_vars PROVE Covered'
  OBVIOUS
<1>1. ASSUME NEW w \in Workers, ContainerChanges(w) PROVE Covered'
  <2>1. UNCHANGED <<link, pmDev, spc, stodo, fwds, waived, pc, job, todo>>
    BY <1>1 DEF ContainerChanges, switchVars, taskVars
  <2> QED
    BY <2>1 DEF Covered, Owed, Met, Coming, Rebinding, Binding, Attached
<1>2. CASE UNCHANGED vars
  BY <1>2 DEF vars, Covered, Owed, Met, Coming, Rebinding, Binding, Attached
<1>3. ASSUME NEW g \in Gos, AutoMapSnapshot(g) \/ MapStep(g) \/ HandlerStep(g) PROVE Covered'
  BY <1>3, MapStepCovered, HandlerStepCovered
<1>4. ASSUME NEW g \in Gos, NEW w \in Workers, Request(g, w) PROVE Covered'
  BY <1>4, RequestCovered
<1>5. ASSUME NEW c \in Conns, LinkStep(c) PROVE Covered'
  BY <1>5, LinkStepCovered
<1>6. ASSUME NEW t \in Switchers, SwitchStep(t) PROVE Covered'
  BY <1>6, SwitchStepCovered
<1> QED
  BY <1>1, <1>2, <1>3, <1>4, <1>5, <1>6 DEF Next

\* When all is quiet no autoMap and no rebind is left to account for a port.
LEMMA SettledCovered == Covered => DeclaredPortsForwarded
<1> SUFFICES ASSUME Covered, Settled, pmDev \in Binding, NEW w \in Workers, NEW p \in Ports \ Reserved,
                    Declared[w][p] # None, p \notin waived[w]
             PROVE  fwds[w][p] # None
  BY DEF DeclaredPortsForwarded
<1>1. Met(w, p)
  BY DEF Covered, Owed
<1>2. ~Rebinding(w)
  <2> SUFFICES ASSUME NEW t \in Switchers PROVE spc[t] # "rebind"
    BY DEF Rebinding
  <2>1. PICK c \in Conns : t = HelloOf(c) \/ t = WaitOf(c)
    BY DEF Switchers, HelloOf, WaitOf
  <2> QED
    BY <2>1 DEF Settled
<1> QED
  BY <1>1, <1>2 DEF Settled, Met, Coming

\* A device switch loses no declared port.  Once hellos, disconnects, rebinds, requests and
\* autoMaps have all run to their end, in whatever order they interleaved, every declared port
\* of a running worker is forwarded, if the device that new forwards bind on can bind one and
\* neither an unmap nor a rebind that skipped the worker let it go (rebindPorts, autoMap).
THEOREM DeclaredPortsComeBack == Spec => []DeclaredPortsForwarded
<1>1. Init => Born /\ Covered
  BY PortsAssumption DEF Init, Born, Unborn, Covered, Owed
<1>2. TypeInv /\ Born /\ Covered /\ [Next]_vars => (Born /\ Covered)'
  BY BornStep, CoveredStep
<1>3. Born /\ Covered => DeclaredPortsForwarded
  BY SettledCovered
<1> QED
  BY AlwaysTypeInv, <1>1, <1>2, <1>3, PTL DEF Spec

-----------------------------------------------------------------------------
\* clearDevice: only the end of the active connection makes the host local again.
THEOREM DemotionIsByOwnEnd == Spec => OnlyOwnEndDemotes
<1>1. TypeInv /\ [Next]_vars =>
         [\A c \in Conns : coDev = c /\ coDev' = Local => link[c] = "dead"]_vars
  <2> SUFFICES ASSUME TypeInv, Next, NEW c \in Conns, coDev = c, coDev' = Local
               PROVE  link[c] = "dead"
    OBVIOUS
  <2>1. coDev' # coDev
    BY PortsAssumption
  <2>2. PICK d \in Conns : Activate(d) \/ Deactivate(d)
    BY <2>1, ZenonT(60) DEF Next, AutoMapSnapshot, MapStep, MapCheck, MapBind, MapBindFails, MapInsert,
       HandlerStep, HandlerUnmaps, HandlerRemembers, HandlerForgets, TaskClosesWorker,
       StopDocker, StartDocker, WireWorker, NukeForgets, NukeRemoves, RegisterPuts,
       Request, MapRequest, UnmapRequest, StopRequest, NukeRequest, StartRequest,
       HealStarts, RegisterWires, ContainerChanges, LinkStep, Connect, LinkDown, SwitchStep,
       MapperSetDevice, RebindWorker, switchVars
  <2>3. ~Activate(d)
    BY PortsAssumption DEF Activate
  <2>4. QED
    BY <2>1, <2>2, <2>3 DEF Deactivate
<1>2. QED
  BY <1>1, AlwaysTypeInv, PTL DEF Spec, OnlyOwnEndDemotes
=============================================================================
