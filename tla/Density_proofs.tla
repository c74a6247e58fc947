--------------------------- MODULE Density_proofs ---------------------------
(***************************************************************************)
(* Theorems about Density: the type invariant, and that the reaper spares  *)
(* a worker with a running session, for all workers and handlers.          *)
(***************************************************************************)
EXTENDS Density, TLAPS

\* Where a goroutine is that acts on a worker.
Acting == GoPc \ {"idle", "ps", "store"}

\* A goroutine that acts on a worker knows which; one about to write rows has them; the
\* reaper asks at a port.
HandsFull ==
    \A g \in Gos :
        /\ pc[g] \in Acting => on[g] \in Workers
        /\ kind[g] \in {"request", "start"} => on[g] \in Workers
        /\ pc[g] = "store" => rows[g] \in [Workers -> Container]
        /\ pc[g] = "busy" => ent[g].port # NoPort

\* Whatever is said to run is said to have a port.
Served(c) == c.st = "running" => c.port # NoPort

Ported ==
    /\ \A w \in Workers : box[w].st \in {"running", "paused"} => box[w].port # NoPort
    /\ \A w \in Workers : Served(reg[w])
    /\ \A g \in Gos : Served(ent[g])
    /\ \A g \in Gos : rows[g] # None => \A w \in Workers : Served(rows[g][w])

IInv == TypeOK /\ HandsFull /\ Ported

GoTypes ==
    /\ pc \in [Gos -> GoPc]
    /\ kind \in [Gos -> Kind \cup {None}]
    /\ on \in [Gos -> Workers \cup {None}]
    /\ ent \in [Gos -> Container]
    /\ rows \in [Gos -> [Workers -> Container] \cup {None}]
    /\ HandsFull
    /\ \A g \in Gos : Served(ent[g])
    /\ \A g \in Gos : rows[g] # None => \A w \in Workers : Served(rows[g][w])

BoxTypes ==
    /\ box \in [Workers -> Container]
    /\ starts \in Nat
    /\ work \subseteq Workers
    /\ \A w \in Workers : box[w].st \in {"running", "paused"} => box[w].port # NoPort

RegTypes ==
    /\ reg \in [Workers -> Container]
    /\ \A w \in Workers : Served(reg[w])

UseTypes ==
    /\ seen \subseteq Workers
    /\ age \in [Workers -> {"fresh", "idle", "deep"}]

\* The invariant, in the parts that a step changes.
LEMMA Parts ==
  IInv <=> GoTypes /\ BoxTypes /\ RegTypes /\ UseTypes /\ events \in 0..MaxEvents
  BY DEF IInv, TypeOK, Ported, GoTypes, BoxTypes, RegTypes, UseTypes

LEMMA GoneServed == Gone \in Container /\ Served(Gone) /\ Gone.port = NoPort /\ NoPort \in Nat
  BY DEF Gone, Container, Served, Status, NoPort

-----------------------------------------------------------------------------
(* Goroutines.                                                             *)

LEMMA BeginTypes ==
  ASSUME IInv, NEW g \in Gos, NEW what \in Kind, NEW w \in Workers, NEW e \in Container,
         Served(e), NEW at \in GoPc \ {"store", "busy"}, Begin(g, what, w, e, at)
  PROVE  GoTypes'
  BY DEF IInv, TypeOK, Ported, HandsFull, GoTypes, Begin, Acting

LEMMA HoldTypes ==
  ASSUME IInv, NEW g \in Gos, NEW e \in Container, Served(e), NEW at \in GoPc \ {"store"},
         at = "busy" => e.port # NoPort,
         at \in Acting => on[g] \in Workers,
         Hold(g, e, at)
  PROVE  GoTypes'
  BY DEF IInv, TypeOK, Ported, HandsFull, GoTypes, Hold, Acting

LEMMA EndTypes ==
  ASSUME IInv, NEW g \in Gos, End(g)
  PROVE  GoTypes'
  BY GoneServed, GosAssumption
     DEF IInv, TypeOK, Ported, HandsFull, GoTypes, End, Acting, GoPc, Kind

\* On the way from or to no place that asks for a worker.
LEMMA RefreshTypes ==
  ASSUME IInv, NEW g \in Gos, Refresh(g)
  PROVE  GoTypes'
  BY GoneServed, HoldTypes DEF Refresh, Acting, GoPc

LEMMA GotoTypes ==
  ASSUME IInv, NEW g \in Gos, pc[g] \in Acting, NEW at \in GoPc \ {"store", "busy"}, Goto(g, at)
  PROVE  GoTypes'
  BY HoldTypes DEF Goto, IInv, TypeOK, Ported, HandsFull

LEMMA ReturnTypes ==
  ASSUME IInv, NEW g \in Gos, Return(g)
  PROVE  GoTypes'
<1>1. CASE kind[g] \in {"request", "start"}
  <2>1. on[g] \in Workers
    BY <1>1 DEF IInv, HandsFull
  <2> QED
    BY <1>1, <2>1, GosAssumption
       DEF Return, IInv, TypeOK, Ported, HandsFull, GoTypes, Acting, GoPc, Kind
<1>2. CASE kind[g] \notin {"request", "start"}
  BY <1>2, EndTypes DEF Return
<1> QED
  BY <1>1, <1>2

LEMMA RowServed ==
  ASSUME IInv, NEW w \in Workers
  PROVE  RowOf(w) \in Container /\ Served(RowOf(w))
  BY GoneServed DEF RowOf, Up, Served, IInv, TypeOK, Ported, Container

LEMMA SameGo == ASSUME IInv, UNCHANGED goVars PROVE GoTypes'
  BY DEF IInv, TypeOK, Ported, HandsFull, GoTypes, goVars

LEMMA SameBox == ASSUME IInv, UNCHANGED dockVars PROVE BoxTypes'
  BY DEF IInv, TypeOK, Ported, BoxTypes, dockVars

LEMMA SameReg == ASSUME IInv, UNCHANGED reg PROVE RegTypes'
  BY DEF IInv, TypeOK, Ported, RegTypes

LEMMA SameUse == ASSUME IInv, UNCHANGED useVars PROVE UseTypes'
  BY DEF IInv, TypeOK, UseTypes, useVars

LEMMA EventTypes == ASSUME IInv, Happen \/ UNCHANGED events PROVE events' \in 0..MaxEvents
  BY GosAssumption DEF IInv, TypeOK, Happen

LEMMA TouchTypes == ASSUME IInv, NEW w \in Workers, Touch(w) PROVE UseTypes'
  BY DEF IInv, TypeOK, UseTypes, Touch

LEMMA PartsNext ==
  ASSUME GoTypes', BoxTypes', RegTypes', UseTypes', events' \in 0..MaxEvents
  PROVE  IInv'
  BY DEF IInv, TypeOK, Ported, GoTypes, BoxTypes, RegTypes, UseTypes

-----------------------------------------------------------------------------
(* Docker.                                                                 *)

LEMMA DockerTypes ==
  ASSUME IInv, NEW w \in Workers,
         \/ Started(w) \/ DockerStart(w) \/ DockerUnpause(w) \/ DockerPause(w)
         \/ DockerStop(w) \/ DockerRemove(w)
  PROVE  BoxTypes'
<1>1. /\ box \in [Workers -> Container]
      /\ starts \in Nat /\ starts + 1 \in Nat /\ starts + 1 # NoPort
      /\ work \subseteq Workers
      /\ \A v \in Workers : box[v].st \in {"running", "paused"} => box[v].port # NoPort
  BY DEF IInv, TypeOK, Ported, NoPort
<1>2. Started(w) => BoxTypes'
  BY <1>1 DEF Started, BoxTypes, Container, Status
<1>3. CASE DockerStart(w)
  BY <1>2, <1>3, SameBox DEF DockerStart
<1>4. CASE DockerUnpause(w)
  BY <1>1, <1>4 DEF DockerUnpause, Paused, BoxTypes, Container, Status
<1>5. CASE DockerPause(w)
  BY <1>1, <1>5 DEF DockerPause, Up, BoxTypes, Container, Status
<1>6. CASE DockerStop(w)
  BY <1>1, <1>6 DEF DockerStop, BoxTypes, Container, Status, NoPort
<1>7. CASE DockerRemove(w)
  BY <1>1, <1>7 DEF DockerRemove, BoxTypes, Container, Status, NoPort, Gone
<1> QED
  BY <1>2, <1>3, <1>4, <1>5, <1>6, <1>7

-----------------------------------------------------------------------------
(* Every step keeps the invariant.                                         *)

LEMMA ReconcileTypes ==
  ASSUME IInv, NEW g \in Gos, Ps(g) \/ Store(g) \/ PsFails(g)
  PROVE  IInv'
<1>1. CASE Ps(g)
  <2>1. GoTypes'
    <3> DEFINE row == [w \in Workers |-> RowOf(w)]
    <3>1. row \in [Workers -> Container] /\ \A w \in Workers : Served(row[w])
      BY RowServed
    <3>2. /\ rows' = [rows EXCEPT ![g] = row] /\ pc' = [pc EXCEPT ![g] = "store"]
          /\ UNCHANGED <<kind, on, ent>>
      BY <1>1 DEF Ps
    <3> HIDE DEF row
    <3> QED
      BY <3>1, <3>2 DEF IInv, TypeOK, Ported, HandsFull, GoTypes, Acting, GoPc
  <2> QED
    BY <1>1, <2>1, SameBox, SameReg, SameUse, EventTypes, PartsNext DEF Ps
<1>2. CASE Store(g)
  <2>1. rows[g] \in [Workers -> Container] /\ rows[g] # None
    BY <1>2, GosAssumption DEF Store, IInv, HandsFull
  <2>2. RegTypes'
    BY <1>2, <2>1 DEF Store, RegTypes, IInv, Ported
  <2> QED
    BY <1>2, <2>2, ReturnTypes, SameBox, SameUse, EventTypes, PartsNext DEF Store
<1>3. CASE PsFails(g)
  BY <1>3, ReturnTypes, SameBox, SameReg, SameUse, EventTypes, PartsNext DEF PsFails
<1> QED
  BY <1>1, <1>2, <1>3

LEMMA RegisterTypes ==
  ASSUME IInv, NEW g \in Gos,
         Thaw(g) \/ Remove(g) \/ Run(g) \/ ReadPorts(g) \/ Ready(g) \/ Put(g) \/ Used(g)
  PROVE  IInv'
<1>1. pc[g] \in Acting => on[g] \in Workers
  BY DEF IInv, HandsFull
<1>2. CASE Thaw(g)
  <2>1. on[g] \in Workers /\ pc[g] \in Acting
    BY <1>1, <1>2 DEF Thaw, Acting, GoPc
  <2>2. GoTypes'
    BY <1>2, <2>1, GotoTypes DEF Thaw, GoPc
  <2>3. BoxTypes'
    BY <1>2, <2>1, DockerTypes, SameBox DEF Thaw
  <2> QED
    BY <1>2, <2>2, <2>3, SameReg, SameUse, EventTypes, PartsNext DEF Thaw
<1>3. CASE Remove(g)
  <2>1. on[g] \in Workers /\ pc[g] \in Acting
    BY <1>1, <1>3 DEF Remove, Acting, GoPc
  <2>2. GoTypes'
    BY <1>3, <2>1, GotoTypes DEF Remove, GoPc
  <2>3. BoxTypes'
    BY <1>3, <2>1, DockerTypes DEF Remove
  <2> QED
    BY <1>3, <2>2, <2>3, SameReg, SameUse, EventTypes, PartsNext DEF Remove
<1>4. CASE Run(g)
  <2>1. on[g] \in Workers /\ pc[g] \in Acting
    BY <1>1, <1>4 DEF Run, Acting, GoPc
  <2>2. GoTypes'
    BY <1>4, <2>1, GotoTypes, EndTypes DEF Run, GoPc
  <2>3. BoxTypes'
    BY <1>4, <2>1, DockerTypes, SameBox DEF Run
  <2> QED
    BY <1>4, <2>2, <2>3, SameReg, SameUse, EventTypes, PartsNext DEF Run
<1>5. CASE ReadPorts(g)
  <2>1. on[g] \in Workers
    BY <1>1, <1>5 DEF ReadPorts, Acting, GoPc
  <2>2. box[on[g]] \in Container /\ Served(box[on[g]])
    BY <2>1 DEF IInv, TypeOK, Ported, Served
  <2>3. GoTypes'
    BY <1>5, <2>1, <2>2, HoldTypes, EndTypes DEF ReadPorts, GoPc
  <2> QED
    BY <1>5, <2>3, SameBox, SameReg, SameUse, EventTypes, PartsNext DEF ReadPorts
<1>6. CASE Ready(g)
  <2>1. GoTypes'
    BY <1>6, GotoTypes DEF Ready, Acting, GoPc
  <2> QED
    BY <1>6, <2>1, SameBox, SameReg, SameUse, EventTypes, PartsNext DEF Ready
<1>7. CASE Put(g)
  <2>1. on[g] \in Workers
    BY <1>1, <1>7 DEF Put, Acting, GoPc
  <2>2. GoTypes'
    BY <1>7, <2>1, GoneServed, HoldTypes DEF Put, GoPc
  <2>3. RegTypes'
    BY <1>7, <2>1 DEF Put, RegTypes, IInv, TypeOK, Ported
  <2> QED
    BY <1>7, <2>2, <2>3, SameBox, SameUse, EventTypes, PartsNext DEF Put
<1>8. CASE Used(g)
  <2>1. on[g] \in Workers
    BY <1>1, <1>8 DEF Used, Acting, GoPc
  <2> QED
    BY <1>8, <2>1, EndTypes, TouchTypes, SameBox, SameReg, EventTypes, PartsNext DEF Used
<1> QED
  BY <1>2, <1>3, <1>4, <1>5, <1>6, <1>7, <1>8

LEMMA RequestTypes ==
  ASSUME IInv, NEW g \in Gos,
         Wake(g) \/ Again(g) \/ Resumed(g) \/ Dispatch(g) \/ Serve(g)
  PROVE  IInv'
<1>1. pc[g] \in Acting => on[g] \in Workers
  BY DEF IInv, HandsFull
<1>2. CASE Wake(g)
  <2>1. on[g] \in Workers
    BY <1>1, <1>2 DEF Wake, Acting, GoPc
  <2>2. GoTypes'
    BY <1>2, RefreshTypes, EndTypes DEF Wake
  <2>3. BoxTypes'
    BY <1>2, <2>1, DockerTypes, SameBox DEF Wake
  <2> QED
    BY <1>2, <2>2, <2>3, SameReg, SameUse, EventTypes, PartsNext DEF Wake
<1>3. CASE Again(g)
  <2>1. on[g] \in Workers
    BY <1>1, <1>3 DEF Again, Acting, GoPc
  <2>2. reg[on[g]] \in Container /\ Served(reg[on[g]])
    BY <2>1 DEF IInv, TypeOK, Ported
  <2>3. GoTypes'
    BY <1>3, <2>1, <2>2, HoldTypes, EndTypes DEF Again, GoPc
  <2> QED
    BY <1>3, <2>3, SameBox, SameReg, SameUse, EventTypes, PartsNext DEF Again
<1>4. CASE Resumed(g)
  <2>1. on[g] \in Workers
    BY <1>1, <1>4 DEF Resumed, Acting, GoPc
  <2>2. reg[on[g]] \in Container /\ Served(reg[on[g]])
    BY <2>1 DEF IInv, TypeOK, Ported
  <2>3. GoTypes'
    BY <1>4, <2>1, <2>2, HoldTypes, EndTypes DEF Resumed, GoPc
  <2> QED
    BY <1>4, <2>3, SameBox, SameReg, SameUse, EventTypes, PartsNext DEF Resumed
<1>5. CASE Dispatch(g)
  <2>1. on[g] \in Workers
    BY <1>1, <1>5 DEF Dispatch, Acting, GoPc
  <2>2. GoTypes'
    BY <1>5, GotoTypes DEF Dispatch, Acting, GoPc
  <2> QED
    BY <1>5, <2>1, <2>2, TouchTypes, SameBox, SameReg, EventTypes, PartsNext DEF Dispatch
<1>6. CASE Serve(g)
  BY <1>6, EndTypes, SameBox, SameReg, SameUse, EventTypes, PartsNext DEF Serve
<1> QED
  BY <1>2, <1>3, <1>4, <1>5, <1>6

LEMMA ActionTypes ==
  ASSUME IInv, NEW g \in Gos, Stop(g) \/ Nuke(g) \/ Forget(g)
  PROVE  IInv'
<1>1. pc[g] \in Acting => on[g] \in Workers
  BY DEF IInv, HandsFull
<1>2. CASE Stop(g)
  <2>1. on[g] \in Workers
    BY <1>1, <1>2 DEF Stop, Acting, GoPc
  <2>2. GoTypes' /\ BoxTypes'
    BY <1>2, <2>1, RefreshTypes, EndTypes, DockerTypes, SameBox DEF Stop
  <2> QED
    BY <1>2, <2>2, SameReg, SameUse, EventTypes, PartsNext DEF Stop
<1>3. CASE Nuke(g)
  <2>1. on[g] \in Workers
    BY <1>1, <1>3 DEF Nuke, Acting, GoPc
  <2>2. GoTypes'
    BY <1>3, GotoTypes DEF Nuke, Acting, GoPc
  <2>3. BoxTypes'
    BY <1>3, <2>1, DockerTypes DEF Nuke
  <2> QED
    BY <1>3, <2>2, <2>3, SameReg, SameUse, EventTypes, PartsNext DEF Nuke
<1>4. CASE Forget(g)
  <2>1. RegTypes'
    BY <1>4, GoneServed DEF Forget, RegTypes, IInv, TypeOK, Ported
  <2> QED
    BY <1>4, <2>1, RefreshTypes, SameBox, SameUse, EventTypes, PartsNext DEF Forget
<1> QED
  BY <1>2, <1>3, <1>4

LEMMA ReaperTypes ==
  ASSUME IInv, NEW g \in Gos, Check(g) \/ AskBusy(g) \/ Pause(g) \/ DeepStop(g)
  PROVE  IInv'
<1>1. pc[g] \in Acting => on[g] \in Workers
  BY DEF IInv, HandsFull
<1>2. CASE Check(g)
  <2>1. on[g] \in Workers /\ ent[g] \in Container /\ Served(ent[g])
    BY <1>1, <1>2 DEF Check, Acting, GoPc, IInv, TypeOK, Ported
  <2>2. CASE ent[g].st = "running" /\ IdleFor(on[g]) # "fresh"
    <3>1. Hold(g, ent[g], "busy")
      BY <1>2, <2>2 DEF Check, Goto
    <3>2. GoTypes'
      BY <2>1, <2>2, <3>1, HoldTypes DEF Served, GoPc
    <3> QED
      BY <1>2, <3>2, SameBox, SameReg, SameUse, EventTypes, PartsNext DEF Check
  <2>3. CASE ~(ent[g].st = "running" /\ IdleFor(on[g]) # "fresh")
    <3>1. Hold(g, Gone, "deepstop") \/ End(g)
      BY <1>2, <2>3 DEF Check
    <3>2. GoTypes'
      BY <2>1, <3>1, GoneServed, HoldTypes, EndTypes DEF GoPc
    <3> QED
      BY <1>2, <3>2, SameBox, SameReg, SameUse, EventTypes, PartsNext DEF Check
  <2> QED
    BY <2>2, <2>3
<1>3. CASE AskBusy(g)
  <2>1. on[g] \in Workers
    BY <1>1, <1>3 DEF AskBusy, Acting, GoPc
  <2>2. GoTypes' /\ UseTypes'
    BY <1>3, <2>1, GoneServed, HoldTypes, EndTypes, TouchTypes, SameUse DEF AskBusy, GoPc
  <2> QED
    BY <1>3, <2>2, SameBox, SameReg, EventTypes, PartsNext DEF AskBusy
<1>4. CASE Pause(g) \/ DeepStop(g)
  <2>1. on[g] \in Workers
    BY <1>1, <1>4 DEF Pause, DeepStop, Acting, GoPc
  <2>2. GoTypes' /\ BoxTypes'
    BY <1>4, <2>1, RefreshTypes, EndTypes, DockerTypes, SameBox DEF Pause, DeepStop
  <2> QED
    BY <1>4, <2>2, SameReg, SameUse, EventTypes, PartsNext DEF Pause, DeepStop
<1> QED
  BY <1>2, <1>3, <1>4

LEMMA StartTypes ==
  ASSUME IInv, NEW g \in Handlers, NEW w \in Workers,
         \/ RegisterStarts(g, w) \/ RequestStarts(g, w)
         \/ \E what \in {"stop", "start", "nuke"} : ActionStarts(g, w, what)
  PROVE  IInv'
<1>1. reg[w] \in Container /\ Served(reg[w]) /\ g \in Gos
  BY DEF IInv, TypeOK, Ported, Gos
<1>2. CASE RegisterStarts(g, w)
  <2>1. GoTypes'
    BY <1>1, <1>2, GoneServed, BeginTypes DEF RegisterStarts, GoPc, Kind
  <2> QED
    BY <1>2, <2>1, SameBox, SameReg, SameUse, EventTypes, PartsNext DEF RegisterStarts
<1>3. CASE RequestStarts(g, w)
  <2>1. GoTypes'
    BY <1>1, <1>3, BeginTypes DEF RequestStarts, GoPc, Kind
  <2> QED
    BY <1>3, <2>1, SameBox, SameReg, SameUse, EventTypes, PartsNext DEF RequestStarts
<1>4. ASSUME NEW what \in {"stop", "start", "nuke"}, ActionStarts(g, w, what) PROVE IInv'
  <2>1. GoTypes'
    BY <1>1, <1>4, GoneServed, BeginTypes DEF ActionStarts, GoPc, Kind
  <2> QED
    BY <1>4, <2>1, SameBox, SameReg, SameUse, EventTypes, PartsNext DEF ActionStarts
<1> QED
  BY <1>2, <1>3, <1>4

LEMMA TickTypes == IInv /\ Tick => IInv'
<1> SUFFICES ASSUME IInv, Tick PROVE IInv'
  OBVIOUS
<1> DEFINE row == [w \in Workers |-> RowOf(w)]
<1>1. row \in [Workers -> Container] /\ \A w \in Workers : Served(row[w])
  BY RowServed
<1>2. /\ Ticker \in Gos
      /\ pc' = [pc EXCEPT ![Ticker] = "store"]
      /\ kind' = [kind EXCEPT ![Ticker] = "sync"]
      /\ rows' = [rows EXCEPT ![Ticker] = row]
      /\ UNCHANGED <<on, ent>>
  BY DEF Tick, Gos
<1> HIDE DEF row
<1>3. GoTypes'
  BY <1>1, <1>2 DEF IInv, TypeOK, Ported, HandsFull, GoTypes, Acting, GoPc, Kind
<1> QED
  BY <1>3, SameBox, SameReg, SameUse, EventTypes, PartsNext DEF Tick

LEMMA WorldTypes ==
  ASSUME IInv, NEW w \in Workers,
         ReapStarts(w) \/ ContainerChanges(w) \/ WorkChanges(w) \/ TimePasses(w)
  PROVE  IInv'
<1>1. CASE ReapStarts(w)
  <2>1. reg[w] \in Container /\ Served(reg[w]) /\ Reaper \in Gos
    BY DEF IInv, TypeOK, Ported, Gos
  <2>2. GoTypes'
    BY <1>1, <2>1, BeginTypes DEF ReapStarts, GoPc, Kind
  <2> QED
    BY <1>1, <2>2, SameBox, SameReg, SameUse, EventTypes, PartsNext DEF ReapStarts
<1>2. CASE ContainerChanges(w)
  <2>1. BoxTypes'
    BY <1>2, DockerTypes DEF ContainerChanges
  <2> QED
    BY <1>2, <2>1, SameGo, SameReg, SameUse, EventTypes, PartsNext DEF ContainerChanges
<1>3. CASE WorkChanges(w)
  <2>1. BoxTypes'
    BY <1>3 DEF WorkChanges, BoxTypes, IInv, TypeOK, Ported
  <2> QED
    BY <1>3, <2>1, SameGo, SameReg, SameUse, EventTypes, PartsNext DEF WorkChanges
<1>4. CASE TimePasses(w)
  <2>1. UseTypes'
    BY <1>4 DEF TimePasses, UseTypes, IInv, TypeOK
  <2> QED
    BY <1>4, <2>1, SameGo, SameReg, SameBox, EventTypes, PartsNext DEF TimePasses
<1> QED
  BY <1>1, <1>2, <1>3, <1>4

LEMMA RestartTypes == IInv /\ Restart => IInv'
<1> SUFFICES ASSUME IInv, Restart PROVE IInv'
  OBVIOUS
<1>1. GoTypes'
  BY GoneServed, GosAssumption DEF Restart, GoTypes, HandsFull, Acting, GoPc, Kind
<1>2. RegTypes'
  BY RowServed DEF Restart, RegTypes
<1>3. UseTypes'
  BY DEF Restart, UseTypes, IInv, TypeOK
<1> QED
  BY <1>1, <1>2, <1>3, SameBox, EventTypes, PartsNext DEF Restart

LEMMA InitInv == Init => IInv
<1> SUFFICES ASSUME Init PROVE IInv
  OBVIOUS
<1>1. /\ Found \in [Workers -> Container]
      /\ \A w \in Workers : Found[w].port # NoPort <=> Found[w].st \in {"running", "paused"}
      /\ 0 \in 0..MaxEvents
  BY GosAssumption
<1>2. GoTypes
  BY GoneServed, GosAssumption DEF Init, GoTypes, HandsFull, Acting, GoPc, Kind
<1>3. BoxTypes
  BY <1>1 DEF Init, BoxTypes
<1>4. RegTypes
  BY <1>1, GoneServed DEF Init, RegTypes, Container, Served
<1>5. UseTypes
  BY DEF Init, UseTypes
<1> QED
  BY <1>1, <1>2, <1>3, <1>4, <1>5, Parts DEF Init

LEMMA NextInv == IInv /\ [Next]_vars => IInv'
<1> SUFFICES ASSUME IInv, [Next]_vars PROVE IInv'
  OBVIOUS
<1>1. ASSUME NEW g \in Gos, Step(g) PROVE IInv'
  BY <1>1, ReconcileTypes, RegisterTypes, RequestTypes, ActionTypes, ReaperTypes DEF Step
<1>2. ASSUME UNCHANGED vars PROVE IInv'
  BY <1>2, SameGo, SameBox, SameReg, SameUse, EventTypes, PartsNext DEF vars
<1> QED
  BY <1>1, <1>2, StartTypes, TickTypes, WorldTypes, RestartTypes DEF Next

-----------------------------------------------------------------------------
(* The theorems.                                                           *)

LEMMA Invariance == Spec => []IInv
  BY InitInv, NextInv, PTL DEF Spec

\* Containers, the registry, the activity clock and what goroutines have in hand always have
\* the right types, for any workers and handlers.
THEOREM TypeCorrect == Spec => []TypeOK
<1>1. IInv => TypeOK
  BY DEF IInv
<1> QED
  BY <1>1, Invariance, PTL

\* reapIdle and workerBusy: the reaper never goes on to pause a worker that has a running
\* session as it asks, by whatever stale entry it asks.
THEOREM BusyWorkersAreSpared == Spec => BusyIsSpared
<1>1. ASSUME IInv, [Next]_vars, pc[Reaper] = "busy", pc'[Reaper] = "pause"
      PROVE  on[Reaper] \notin work
  <2>1. /\ ent[Reaper].port # NoPort
        /\ pc \in [Gos -> GoPc]
        /\ Reaper \in Gos /\ Ticker \in Gos /\ Reaper # Ticker /\ Reaper \notin Handlers
    BY <1>1, GosAssumption DEF IInv, HandsFull, TypeOK, Gos
  <2>2. ASSUME NEW g \in Gos, g # Reaper, Step(g) PROVE pc'[Reaper] = pc[Reaper]
    <3>1. \E at : pc' = [pc EXCEPT ![g] = at]
      BY <2>2 DEF Step, Ps, Store, PsFails, Return, Thaw, Remove, Run, ReadPorts, Ready, Put,
                  Used, Wake, Again, Resumed, Dispatch, Serve, Stop, Nuke, Forget, Check,
                  AskBusy, Pause, DeepStop, Goto, Hold, Refresh, End
    <3> QED
      BY <2>1, <2>2, <3>1
  <2>3. ASSUME NEW g \in Handlers, NEW w \in Workers, NEW what, NEW e, NEW at,
               Begin(g, what, w, e, at)
        PROVE  pc'[Reaper] = pc[Reaper]
    BY <2>1, <2>3 DEF Begin, Gos
  <2>4. CASE Step(Reaper)
    <3>1. AskBusy(Reaper) /\ ~Busy(on[Reaper], ent[Reaper].port)
      BY <1>1, <2>1, <2>4
         DEF Step, Ps, Store, PsFails, Thaw, Remove, Run, ReadPorts, Ready, Put, Used, Wake,
             Again, Resumed, Dispatch, Serve, Stop, Nuke, Forget, Check, AskBusy, Pause,
             DeepStop, End
    <3> QED
      BY <2>1, <3>1 DEF Busy
  <2>5. pc[Reaper] # "idle" /\ pc'[Reaper] # pc[Reaper] /\ pc'[Reaper] # "idle"
    BY <1>1
  <2>6. CASE Tick \/ Restart \/ UNCHANGED vars
    BY <2>1, <2>5, <2>6 DEF Tick, Restart, vars, goVars
  <2>7. ASSUME NEW w \in Workers,
               ReapStarts(w) \/ ContainerChanges(w) \/ WorkChanges(w) \/ TimePasses(w)
        PROVE  FALSE
    BY <2>5, <2>7 DEF ReapStarts, ContainerChanges, WorkChanges, TimePasses, Begin, goVars
  <2>8. ASSUME NEW g \in Handlers, NEW w \in Workers,
               \/ RegisterStarts(g, w) \/ RequestStarts(g, w)
               \/ \E what \in {"stop", "start", "nuke"} : ActionStarts(g, w, what)
        PROVE  FALSE
    BY <2>3, <2>5, <2>8 DEF RegisterStarts, RequestStarts, ActionStarts
  <2> QED
    BY <1>1, <2>2, <2>4, <2>5, <2>6, <2>7, <2>8 DEF Next
<1>2. IInv /\ [Next]_vars =>
        [pc[Reaper] = "busy" /\ pc'[Reaper] = "pause" => on[Reaper] \notin work]_vars
  BY <1>1
<1> QED
  BY <1>2, Invariance, PTL DEF Spec, BusyIsSpared
=============================================================================
