--------------------------- MODULE Registry_proofs ---------------------------
(***************************************************************************)
(* Theorems about Registry: the type invariant, and that no request meant  *)
(* for one worker is let in by another.                                    *)
(*                                                                         *)
(* The tokens somebody knows for a worker (its container, the registry,    *)
(* the proxies, a goroutine) were minted, and are known for no other       *)
(* worker.                                                                 *)
(***************************************************************************)
EXTENDS Registry, FiniteSetTheorems, TLAPS

\* Who knows token t for worker w.
Knows(w, t) ==
    \/ box[w] # None /\ box[w].tok = t
    \/ reg[w] # None /\ reg[w].tok = t
    \/ \E p \in Ports : proxies[w][p] = t
    \/ \E g \in Gos : ent[g] # None /\ ent[g].id = w /\ ent[g].tok = t

\* A token known for two workers is a token of none.
Apart ==
    \A v, w \in Workers, t \in Tokens : Knows(v, t) /\ Knows(w, t) => v = w

\* Nobody knows a token that is yet to be minted.
Minted == \A w \in Workers, t \in Tokens : Knows(w, t) => t <= minted

\* The program counters at which a goroutine has a *Worker in hand.
Holding == {"thaw", "remove", "run", "token", "ports", "state", "put", "proxy", "forget",
            "inspect", "store"}

\* A goroutine that uses its *Worker has one; the rows it adopts are there.
HandsFull ==
    /\ \A g \in Gos : pc[g] \in Holding => ent[g] \in Entry
    /\ \A g \in Gos : pc[g] \in {"adopt", "inspect", "store"} =>
          \A w \in todo[g] : rows[g][w] \in Row

\* The registry files an entry under its own id.
Filed == \A w \in Workers : reg[w] # None => reg[w].id = w

TypeInv == TypeOK /\ HandsFull

IInv == TypeInv /\ Filed /\ Apart /\ Minted

-----------------------------------------------------------------------------
(* Types.                                                                  *)

\* Init has the right types: the containers found are containers.
LEMMA InitTypes == Init => TypeInv
<1> SUFFICES ASSUME Init PROVE TypeInv
  OBVIOUS
<1>1. Cardinality(Workers) \in Nat
  BY GosAssumption, FS_CardinalityType
<1>2. /\ Found \in [Workers -> Container \cup {None}]
      /\ MaxEvents \in Nat
  BY GosAssumption, FoundAssumption
<1>3. minted \in Nat /\ events \in 0..MaxEvents
  BY <1>1, <1>2 DEF Init
<1>4. /\ box \in [Workers -> Container \cup {None}]
      /\ reg \in [Workers -> Entry \cup {None}]
      /\ proxies \in [Workers -> [Ports -> Tokens \cup {NoToken, None}]]
      /\ booted \in BOOLEAN
  BY <1>2 DEF Init, NoRows, NoProxies
<1>5. /\ pc \in [Gos -> GoPc]
      /\ ent \in [Gos -> Entry \cup {None}]
      /\ rows \in [Gos -> [Workers -> Row \cup {None}]]
      /\ todo \in [Gos -> SUBSET Workers]
  BY DEF Init, NoRows, GoPc
<1>6. HandsFull
  BY DEF Init, HandsFull, Holding
<1> QED
  BY <1>3, <1>4, <1>5, <1>6 DEF TypeInv, TypeOK

GoTypes ==
    /\ pc \in [Gos -> GoPc]
    /\ ent \in [Gos -> Entry \cup {None}]
    /\ rows \in [Gos -> [Workers -> Row \cup {None}]]
    /\ todo \in [Gos -> SUBSET Workers]
    /\ HandsFull

BoxType == box \in [Workers -> Container \cup {None}]

LEMMA HoldTypes ==
  ASSUME TypeInv, NEW g \in Gos, NEW e \in Entry \cup {None}, NEW at \in GoPc,
         at \in Holding => e \in Entry,
         at \in {"adopt", "inspect", "store"} => \A w \in todo[g] : rows[g][w] \in Row,
         Hold(g, e, at)
  PROVE  GoTypes'
<1>1. /\ pc' \in [Gos -> GoPc]
      /\ ent' \in [Gos -> Entry \cup {None}]
      /\ rows' \in [Gos -> [Workers -> Row \cup {None}]]
      /\ todo' \in [Gos -> SUBSET Workers]
  BY DEF Hold, TypeInv, TypeOK
<1>2. HandsFull'
  BY DEF Hold, TypeInv, TypeOK, HandsFull
<1> QED
  BY <1>1, <1>2 DEF GoTypes

LEMMA EndTypes ==
  ASSUME TypeInv, NEW g \in Gos, End(g)
  PROVE  GoTypes'
<1>1. /\ pc' \in [Gos -> GoPc]
      /\ ent' \in [Gos -> Entry \cup {None}]
      /\ rows' \in [Gos -> [Workers -> Row \cup {None}]]
      /\ todo' \in [Gos -> SUBSET Workers]
  BY DEF End, TypeInv, TypeOK, NoRows, GoPc
<1>2. HandsFull'
  BY DEF End, TypeInv, TypeOK, HandsFull, Holding
<1> QED
  BY <1>1, <1>2 DEF GoTypes

LEMMA SameTypes ==
  ASSUME TypeInv, UNCHANGED goVars
  PROVE  GoTypes'
  BY DEF TypeInv, TypeOK, HandsFull, GoTypes, goVars

LEMMA TokenReadType ==
  ASSUME TypeInv, NEW w \in Workers
  PROVE  TokenRead(w) \in Tokens \cup {NoToken}
  BY DEF TypeInv, TypeOK, TokenRead, Exists, Container

\* What docker does to a container leaves a container, or none.
LEMMA DockerTypes ==
  ASSUME TypeInv, NEW w \in Workers,
         \/ DockerUnpause(w) \/ DockerPause(w) \/ DockerStop(w) \/ DockerStart(w)
         \/ DockerRemove(w)
  PROVE  BoxType'
<1>1. box \in [Workers -> Container \cup {None}]
  BY DEF TypeInv, TypeOK
<1>2. CASE DockerUnpause(w)
  BY <1>1, <1>2 DEF DockerUnpause, Paused, Exists, BoxType, Container, Status
<1>3. CASE DockerPause(w)
  BY <1>1, <1>3 DEF DockerPause, Up, Exists, BoxType, Container, Status
<1>4. CASE DockerStop(w)
  BY <1>1, <1>4 DEF DockerStop, Up, Paused, Exists, BoxType, Container, Status
<1>5. CASE DockerStart(w)
  <2>1. box[w] \in Container
    BY <1>1, <1>5 DEF DockerStart, Exists
  <2>2. PICK p \in Ports : box' = [box EXCEPT ![w].st = "running", ![w].port = p]
    BY <1>5 DEF DockerStart, FreePorts
  <2> QED
    BY <1>1, <2>1, <2>2 DEF BoxType, Container, Status
<1>6. CASE DockerRemove(w)
  BY <1>1, <1>6 DEF DockerRemove, BoxType
<1> QED
  BY <1>2, <1>3, <1>4, <1>5, <1>6

-----------------------------------------------------------------------------
(* Types are kept by the steps of a reconcile.                             *)

LEMMA ReconcileTypes ==
  ASSUME TypeInv, NEW g \in Gos, Reconcile(g) \/ ReconcileStarts(g)
  PROVE  TypeInv'
<1> USE DEF dockVars
<1>1. CASE ReconcileStarts(g)
  <2>1. GoTypes'
    BY <1>1, HoldTypes DEF ReconcileStarts, GoPc, Holding
  <2> QED
    BY <1>1, <2>1 DEF ReconcileStarts, TypeInv, TypeOK, GoTypes
<1>2. CASE Ps(g)
  <2> DEFINE row == [w \in Workers |->
                       IF Exists(w) THEN [st |-> box[w].st, port |-> box[w].port] ELSE None]
  <2>1. /\ row \in [Workers -> Row \cup {None}]
        /\ \A w \in {v \in Workers : Exists(v)} : row[w] \in Row
    BY DEF TypeInv, TypeOK, Exists, Container, Row
  <2>2. /\ rows' = [rows EXCEPT ![g] = row]
        /\ todo' = [todo EXCEPT ![g] = {w \in Workers : Exists(w)}]
        /\ pc' = [pc EXCEPT ![g] = "adopt"]
        /\ UNCHANGED ent
    BY <1>2 DEF Ps
  <2> HIDE DEF row
  <2>3. HandsFull'
    BY <2>1, <2>2 DEF TypeInv, TypeOK, HandsFull, Holding
  <2>4. /\ pc' \in [Gos -> GoPc]
        /\ rows' \in [Gos -> [Workers -> Row \cup {None}]]
        /\ todo' \in [Gos -> SUBSET Workers]
    BY <2>1, <2>2 DEF TypeInv, TypeOK, GoPc
  <2> QED
    BY <1>2, <2>3, <2>4 DEF Ps, TypeInv, TypeOK
<1>3. CASE PsFails(g)
  <2>1. GoTypes'
    BY <1>3, EndTypes DEF PsFails
  <2> QED
    BY <1>3, <2>1, GosAssumption DEF PsFails, Happen, TypeInv, TypeOK, GoTypes
<1>4. CASE Adopt(g)
  <2>1. PICK w \in todo[g] :
          IF reg[w] # None /\ reg[w].tok # NoToken
          THEN Hold(g, Adopted(w, rows[g][w], reg[w].tok), "store")
          ELSE Hold(g, Adopted(w, rows[g][w], NoToken), "inspect")
    BY <1>4 DEF Adopt
  <2>2. w \in Workers /\ \A v \in todo[g] : rows[g][v] \in Row
    BY <1>4 DEF Adopt, TypeInv, TypeOK, HandsFull
  <2>3. \A t \in Tokens \cup {NoToken} : Adopted(w, rows[g][w], t) \in Entry
    BY <2>2 DEF Adopted, Row, Entry
  <2>4. reg[w] # None => reg[w].tok \in Tokens \cup {NoToken}
    BY <2>2 DEF TypeInv, TypeOK, Entry
  <2>5. "store" \in GoPc /\ "inspect" \in GoPc
    BY DEF GoPc
  <2>6. GoTypes'
    BY <2>1, <2>2, <2>3, <2>4, <2>5, HoldTypes
  <2> QED
    BY <1>4, <2>6 DEF Adopt, TypeInv, TypeOK, GoTypes
<1>5. CASE Inspect(g)
  <2>1. ent[g] \in Entry /\ ent[g].id \in Workers
    BY <1>5 DEF Inspect, TypeInv, HandsFull, Holding, Entry
  <2>2. [ent[g] EXCEPT !.tok = TokenRead(ent[g].id)] \in Entry
    BY <2>1, TokenReadType DEF Entry
  <2>3. GoTypes'
    BY <1>5, <2>2, HoldTypes DEF Inspect, TypeInv, HandsFull, GoPc
  <2> QED
    BY <1>5, <2>3 DEF Inspect, TypeInv, TypeOK, GoTypes
<1>6. CASE Store(g)
  <2>1. ent[g] \in Entry /\ ent[g].id \in Workers
    BY <1>6 DEF Store, TypeInv, HandsFull, Holding, Entry
  <2>2. reg' \in [Workers -> Entry \cup {None}]
    BY <1>6, <2>1 DEF Store, TypeInv, TypeOK
  <2>3. HandsFull'
    BY <1>6 DEF Store, TypeInv, TypeOK, HandsFull, Holding
  <2> QED
    BY <1>6, <2>2, <2>3 DEF Store, TypeInv, TypeOK, GoPc
<1>7. CASE ListStale(g)
  <2>1. HandsFull'
    BY <1>7 DEF ListStale, TypeInv, TypeOK, HandsFull, Holding
  <2> QED
    BY <1>7, <2>1 DEF ListStale, TypeInv, TypeOK, GoPc, NoRows
<1>8. CASE Prune(g)
  <2>1. PICK w \in todo[g] : /\ reg' = [reg EXCEPT ![w] = None]
                             /\ todo' = [todo EXCEPT ![g] = @ \ {w}]
    BY <1>8 DEF Prune
  <2>2. HandsFull'
    BY <1>8, <2>1 DEF Prune, TypeInv, TypeOK, HandsFull
  <2> QED
    BY <1>8, <2>1, <2>2 DEF Prune, TypeInv, TypeOK
<1>9. CASE Reconciled(g)
  <2>1. GoTypes'
    BY <1>9, EndTypes DEF Reconciled
  <2> QED
    BY <1>9, <2>1 DEF Reconciled, TypeInv, TypeOK, GoTypes
<1> QED
  BY <1>1, <1>2, <1>3, <1>4, <1>5, <1>6, <1>7, <1>8, <1>9 DEF Reconcile

-----------------------------------------------------------------------------
(* Types are kept by the other handlers and by what happens around them.   *)

LEMMA RegisterTypes ==
  ASSUME TypeInv, NEW g \in Gos, Register(g)
  PROVE  TypeInv'
<1> USE DEF dockVars
<1>1. pc[g] \in Holding => ent[g] \in Entry /\ ent[g].id \in Workers
  BY DEF TypeInv, HandsFull, Entry
<1>2. CASE Thaw(g)
  <2>1. ent[g] \in Entry /\ ent[g].id \in Workers
    BY <1>1, <1>2 DEF Thaw, Holding
  <2>2. GoTypes'
    BY <1>2, <2>1, HoldTypes DEF Thaw, Goto, GoPc
  <2>3. BoxType'
    BY <1>2, <2>1, DockerTypes DEF Thaw, TypeInv, TypeOK, BoxType
  <2> QED
    BY <1>2, <2>2, <2>3 DEF Thaw, TypeInv, TypeOK, GoTypes, BoxType
<1>3. CASE Remove(g)
  <2>1. ent[g] \in Entry /\ ent[g].id \in Workers
    BY <1>1, <1>3 DEF Remove, Holding
  <2>2. GoTypes'
    BY <1>3, <2>1, HoldTypes DEF Remove, Goto, GoPc
  <2>3. BoxType'
    BY <1>3, <2>1, DockerTypes DEF Remove
  <2> QED
    BY <1>3, <2>2, <2>3 DEF Remove, TypeInv, TypeOK, GoTypes, BoxType
<1>4. CASE Run(g)
  <2>1. ent[g] \in Entry /\ ent[g].id \in Workers
    BY <1>1, <1>4 DEF Run, Holding
  <2>2. minted + 1 \in Tokens /\ minted' = minted + 1
    BY <1>4 DEF Run, TypeInv, TypeOK, Tokens
  <2>3. CASE End(g) /\ UNCHANGED box
    <3>1. GoTypes'
      BY <2>3, EndTypes
    <3> QED
      BY <1>4, <2>2, <2>3, <3>1 DEF Run, TypeInv, TypeOK, GoTypes, Tokens
  <2>4. CASE ~(End(g) /\ UNCHANGED box)
    <3>1. PICK p \in FreePorts : box' = [box EXCEPT ![ent[g].id] =
              [st |-> "running", port |-> p, tok |-> minted + 1]]
      BY <1>4, <2>4 DEF Run
    <3>2. Hold(g, [ent[g] EXCEPT !.tok = minted + 1], "ports")
      BY <1>4, <2>4 DEF Run
    <3>3. BoxType'
      BY <2>2, <3>1 DEF FreePorts, BoxType, TypeInv, TypeOK, Container, Status
    <3>4. [ent[g] EXCEPT !.tok = minted + 1] \in Entry
      BY <2>1, <2>2 DEF Entry
    <3>5. GoTypes'
      BY <3>2, <3>4, HoldTypes DEF GoPc
    <3> QED
      BY <1>4, <2>2, <3>3, <3>5 DEF Run, TypeInv, TypeOK, GoTypes, BoxType, Tokens
  <2> QED
    BY <2>3, <2>4
<1>5. CASE ReadToken(g)
  <2>1. ent[g] \in Entry /\ ent[g].id \in Workers
    BY <1>1, <1>5 DEF ReadToken, Holding
  <2>2. [ent[g] EXCEPT !.tok = TokenRead(ent[g].id)] \in Entry
    BY <2>1, TokenReadType DEF Entry
  <2>3. GoTypes'
    BY <1>5, <2>2, HoldTypes DEF ReadToken, GoPc
  <2> QED
    BY <1>5, <2>3 DEF ReadToken, TypeInv, TypeOK, GoTypes
<1>6. CASE ReadPorts(g)
  <2>1. ent[g] \in Entry /\ ent[g].id \in Workers
    BY <1>1, <1>6 DEF ReadPorts, Holding
  <2>2. Exists(ent[g].id) => [ent[g] EXCEPT !.port = box[ent[g].id].port] \in Entry
    BY <2>1 DEF Entry, Exists, TypeInv, TypeOK, Container
  <2>3. GoTypes'
    BY <1>6, <2>2, HoldTypes, EndTypes DEF ReadPorts, GoPc, Up, Paused
  <2> QED
    BY <1>6, <2>3 DEF ReadPorts, TypeInv, TypeOK, GoTypes
<1>7. CASE ReadState(g)
  <2> DEFINE st == IF Exists(ent[g].id) THEN box[ent[g].id].st ELSE ""
  <2>1. ent[g] \in Entry /\ ent[g].id \in Workers
    BY <1>1, <1>7 DEF ReadState, Holding
  <2>2. st \in Status \cup {""}
    BY <2>1 DEF Exists, TypeInv, TypeOK, Container
  <2>3. Hold(g, [ent[g] EXCEPT !.st = st], "put")
    BY <1>7 DEF ReadState
  <2> HIDE DEF st
  <2>4. [ent[g] EXCEPT !.st = st] \in Entry
    BY <2>1, <2>2 DEF Entry
  <2>5. GoTypes'
    BY <2>3, <2>4, HoldTypes DEF GoPc
  <2> QED
    BY <1>7, <2>5 DEF ReadState, TypeInv, TypeOK, GoTypes
<1>8. CASE Put(g)
  <2>1. ent[g] \in Entry /\ ent[g].id \in Workers
    BY <1>1, <1>8 DEF Put, Holding
  <2>2. GoTypes'
    BY <1>8, EndTypes DEF Put
  <2> QED
    BY <1>8, <2>1, <2>2 DEF Put, TypeInv, TypeOK, GoTypes
<1> QED
  BY <1>2, <1>3, <1>4, <1>5, <1>6, <1>7, <1>8 DEF Register

LEMMA HandlerTypes ==
  ASSUME TypeInv, NEW g \in Gos, NEW w \in Workers,
         \/ RegisterStarts(g, w) \/ RequestStarts(g, w) \/ NukeStarts(g, w)
         \/ ProxyFor(g) \/ Forget(g)
  PROVE  TypeInv'
<1> USE DEF dockVars
<1>1. reg[w] # None => reg[w] \in Entry
  BY DEF TypeInv, TypeOK
<1>2. Happen => events' \in 0..MaxEvents
  BY GosAssumption DEF Happen, TypeInv, TypeOK
<1>3. CASE RegisterStarts(g, w)
  <2>1. [id |-> w, st |-> "", port |-> None, tok |-> NoToken] \in Entry
    BY DEF Entry
  <2>2. GoTypes'
    BY <1>3, <2>1, HoldTypes DEF RegisterStarts, GoPc
  <2> QED
    BY <1>2, <1>3, <2>2 DEF RegisterStarts, TypeInv, TypeOK, GoTypes
<1>4. CASE RequestStarts(g, w)
  <2>1. GoTypes'
    BY <1>1, <1>4, HoldTypes DEF RequestStarts, GoPc
  <2> QED
    BY <1>2, <1>4, <2>1 DEF RequestStarts, TypeInv, TypeOK, GoTypes
<1>5. CASE NukeStarts(g, w)
  <2>1. GoTypes'
    BY <1>1, <1>5, HoldTypes DEF NukeStarts, GoPc
  <2>2. BoxType'
    BY <1>5, DockerTypes DEF NukeStarts
  <2> QED
    BY <1>2, <1>5, <2>1, <2>2 DEF NukeStarts, TypeInv, TypeOK, GoTypes, BoxType
<1>6. CASE ProxyFor(g)
  <2>1. ent[g] \in Entry
    BY <1>6 DEF ProxyFor, TypeInv, HandsFull, Holding
  <2>2. /\ ent[g].id \in Workers
        /\ ent[g].port # None => ent[g].port \in Ports
        /\ ent[g].tok \in Tokens \cup {NoToken}
    BY <2>1 DEF Entry
  <2>3. proxies' \in [Workers -> [Ports -> Tokens \cup {NoToken, None}]]
    BY <1>6, <2>2 DEF ProxyFor, TypeInv, TypeOK
  <2>4. GoTypes'
    BY <1>6, EndTypes DEF ProxyFor
  <2> QED
    BY <1>6, <2>3, <2>4 DEF ProxyFor, TypeInv, TypeOK, GoTypes
<1>7. CASE Forget(g)
  <2>1. ent[g] \in Entry /\ ent[g].id \in Workers
    BY <1>7 DEF Forget, TypeInv, HandsFull, Holding, Entry
  <2>2. GoTypes'
    BY <1>7, HoldTypes DEF Forget, GoPc, Holding
  <2> QED
    BY <1>7, <2>1, <2>2 DEF Forget, TypeInv, TypeOK, GoTypes
<1> QED
  BY <1>3, <1>4, <1>5, <1>6, <1>7

LEMMA RestartTypes == TypeInv /\ Restart => TypeInv'
<1> SUFFICES ASSUME TypeInv, Restart PROVE TypeInv'
  OBVIOUS
<1>1. GoTypes'
  BY DEF Restart, GoTypes, HandsFull, Holding, GoPc, NoRows
<1>2. events' \in 0..MaxEvents
  BY GosAssumption DEF Restart, Happen, TypeInv, TypeOK
<1> QED
  BY <1>1, <1>2 DEF Restart, dockVars, TypeInv, TypeOK, GoTypes, NoRows, NoProxies

LEMMA NextTypes == TypeInv /\ [Next]_vars => TypeInv'
<1> SUFFICES ASSUME TypeInv, [Next]_vars PROVE TypeInv'
  OBVIOUS
<1>1. ASSUME NEW w \in Workers, ContainerChanges(w) PROVE TypeInv'
  <2>1. BoxType'
    BY <1>1, DockerTypes DEF ContainerChanges
  <2>2. GoTypes'
    BY <1>1, SameTypes DEF ContainerChanges
  <2>3. events' \in 0..MaxEvents
    BY <1>1, GosAssumption DEF ContainerChanges, Happen, TypeInv, TypeOK
  <2> QED
    BY <1>1, <2>1, <2>2, <2>3 DEF ContainerChanges, TypeInv, TypeOK, GoTypes, BoxType
<1>2. ASSUME NEW g \in Gos, Step(g) \/ ReconcileStarts(g) PROVE TypeInv'
  <2>1. ProxyFor(g) \/ Forget(g) => ent[g] \in Entry /\ ent[g].id \in Workers
    BY DEF ProxyFor, Forget, TypeInv, HandsFull, Holding, Entry
  <2> QED
    BY <1>2, <2>1, ReconcileTypes, RegisterTypes, HandlerTypes DEF Step
<1>3. ASSUME UNCHANGED vars PROVE TypeInv'
  BY <1>3 DEF vars, goVars, dockVars, TypeInv, TypeOK, HandsFull
<1> QED
  BY <1>1, <1>2, <1>3, HandlerTypes, RestartTypes DEF Next

-----------------------------------------------------------------------------
(* Tokens stay apart.                                                      *)

LEMMA InitApart == Init => Filed /\ Apart /\ Minted
<1> SUFFICES ASSUME Init PROVE Filed /\ Apart /\ Minted
  OBVIOUS
<1>1. ASSUME NEW w \in Workers, NEW t \in Tokens, Knows(w, t)
      PROVE  Found[w] # None /\ Found[w].tok = t
  BY <1>1, GosAssumption DEF Init, Knows, NoRows, NoProxies, Tokens
<1>2. Apart
  BY <1>1, FoundAssumption DEF Apart
<1>3. Minted
  BY <1>1, FoundAssumption DEF Minted, Init
<1> QED
  BY <1>2, <1>3 DEF Filed, Init, NoRows

\* What token t is worth as knowledge about w: the empty token, or none, tells nothing.
Learned(w, t) == t \in Tokens => Knows(w, t)

\* The four places tokens are kept at.
BoxKeeps == \A w \in Workers : box'[w] # None => box[w] # None /\ box'[w].tok = box[w].tok
RegLearns == \A w \in Workers : reg'[w] # None => reg'[w].id = w /\ Learned(w, reg'[w].tok)
ProxiesLearn == \A w \in Workers, p \in Ports : Learned(w, proxies'[w][p])
EntLearns == \A g \in Gos : ent'[g] # None => Learned(ent'[g].id, ent'[g].tok)

\* If tokens only move to where they were known, they stay apart.
LEMMA MovingKeepsApart ==
  ASSUME IInv, BoxKeeps, RegLearns, ProxiesLearn, EntLearns, minted' = minted
  PROVE  (Filed /\ Apart /\ Minted)'
<1>1. ASSUME NEW w \in Workers, NEW t \in Tokens, Knows(w, t)' PROVE Knows(w, t)
  <2>1. CASE box'[w] # None /\ box'[w].tok = t
    BY <2>1 DEF BoxKeeps, Knows
  <2>2. CASE reg'[w] # None /\ reg'[w].tok = t
    BY <2>2 DEF RegLearns, Learned
  <2>3. CASE \E p \in Ports : proxies'[w][p] = t
    BY <2>3 DEF ProxiesLearn, Learned
  <2>4. CASE \E g \in Gos : ent'[g] # None /\ ent'[g].id = w /\ ent'[g].tok = t
    BY <2>4 DEF EntLearns, Learned
  <2> QED
    BY <1>1, <2>1, <2>2, <2>3, <2>4 DEF Knows
<1>2. Apart'
  BY <1>1 DEF IInv, Apart
<1>3. Minted'
  BY <1>1 DEF IInv, Minted
<1> QED
  BY <1>2, <1>3 DEF RegLearns, Filed

\* What is not touched is known already.
LEMMA KnownAlready ==
  ASSUME IInv
  PROVE  /\ UNCHANGED box => BoxKeeps
         /\ UNCHANGED reg => RegLearns
         /\ UNCHANGED proxies => ProxiesLearn
         /\ UNCHANGED ent => EntLearns
<1>1. UNCHANGED box => BoxKeeps
  BY DEF BoxKeeps
<1>2. UNCHANGED reg => RegLearns
  BY DEF RegLearns, Learned, Knows, IInv, Filed
<1>3. UNCHANGED proxies => ProxiesLearn
  BY DEF ProxiesLearn, Learned, Knows
<1>4. UNCHANGED ent => EntLearns
  BY DEF EntLearns, Learned, Knows
<1> QED
  BY <1>1, <1>2, <1>3, <1>4

LEMMA HoldLearns ==
  ASSUME IInv, NEW g \in Gos, NEW e, NEW at, e # None => Learned(e.id, e.tok), Hold(g, e, at)
  PROVE  EntLearns
<1>1. ent' = [ent EXCEPT ![g] = e]
  BY DEF Hold
<1>2. ent \in [Gos -> Entry \cup {None}]
  BY DEF IInv, TypeInv, TypeOK
<1>3. \A h \in Gos : ent[h] # None => Learned(ent[h].id, ent[h].tok)
  BY DEF Learned, Knows
<1> QED
  BY <1>1, <1>2, <1>3 DEF EntLearns

LEMMA EndLearns ==
  ASSUME IInv, NEW g \in Gos, End(g)
  PROVE  EntLearns
<1>1. ent' = [ent EXCEPT ![g] = None]
  BY DEF End
<1>2. ent \in [Gos -> Entry \cup {None}]
  BY DEF IInv, TypeInv, TypeOK
<1>3. \A h \in Gos : ent[h] # None => Learned(ent[h].id, ent[h].tok)
  BY DEF Learned, Knows
<1> QED
  BY <1>1, <1>2, <1>3 DEF EntLearns

LEMMA InHand ==
  ASSUME IInv, NEW g \in Gos, pc[g] \in Holding
  PROVE  ent[g] \in Entry /\ ent[g] # None /\ ent[g].id \in Workers /\ Learned(ent[g].id, ent[g].tok)
<1>1. ent[g] \in Entry /\ ent[g].id \in Workers
  BY DEF IInv, TypeInv, HandsFull, Entry
<1> QED
  BY <1>1, GosAssumption DEF Learned, Knows

LEMMA DockerKeeps ==
  ASSUME IInv, NEW w \in Workers,
         \/ DockerUnpause(w) \/ DockerPause(w) \/ DockerStop(w) \/ DockerStart(w)
         \/ DockerRemove(w)
  PROVE  BoxKeeps
<1>1. /\ box \in [Workers -> Container \cup {None}]
      /\ \A v \in Workers : box[v] # None => box[v] \in Container
  BY DEF IInv, TypeInv, TypeOK
<1>2. CASE DockerUnpause(w)
  BY <1>1, <1>2 DEF DockerUnpause, Paused, Exists, BoxKeeps, Container
<1>3. CASE DockerPause(w)
  BY <1>1, <1>3 DEF DockerPause, Up, Exists, BoxKeeps, Container
<1>4. CASE DockerStop(w)
  BY <1>1, <1>4 DEF DockerStop, Up, Paused, Exists, BoxKeeps, Container
<1>5. CASE DockerStart(w)
  <2>1. PICK p \in Ports : box' = [box EXCEPT ![w].st = "running", ![w].port = p]
    BY <1>5 DEF DockerStart, FreePorts
  <2> QED
    BY <1>1, <1>5, <2>1 DEF DockerStart, Exists, BoxKeeps, Container
<1>6. CASE DockerRemove(w)
  BY <1>1, <1>6 DEF DockerRemove, BoxKeeps
<1> QED
  BY <1>2, <1>3, <1>4, <1>5, <1>6

\* The token read from a container is known for it.
LEMMA ReadIsKnown ==
  ASSUME IInv, NEW w \in Workers
  PROVE  Learned(w, TokenRead(w))
  BY DEF TokenRead, Learned, Knows, Exists, NoToken, Tokens

\* A new token is known for one worker only.
LEMMA RunKeepsApart ==
  ASSUME IInv, NEW g \in Gos, Run(g)
  PROVE  (Filed /\ Apart /\ Minted)'
<1> DEFINE o == ent[g].id
           n == minted + 1
<1>1. /\ ent[g] \in Entry /\ ent[g] # None /\ o \in Workers
      /\ minted \in Nat /\ n \in Nat /\ n \in Tokens /\ n > minted
      /\ minted' = n /\ UNCHANGED <<reg, proxies>>
      /\ ent \in [Gos -> Entry \cup {None}]
      /\ box \in [Workers -> Container \cup {None}]
  BY InHand DEF Run, Holding, IInv, TypeInv, TypeOK, Tokens
<1>2. ASSUME NEW w \in Workers, NEW t \in Tokens, Knows(w, t)'
      PROVE  Knows(w, t) \/ (w = o /\ t = n)
  <2>1. CASE End(g) /\ UNCHANGED box
    BY <1>1, <1>2, <2>1 DEF End, Knows
  <2>2. CASE ~(End(g) /\ UNCHANGED box)
    <3>1. PICK p \in FreePorts : box' = [box EXCEPT ![o] =
              [st |-> "running", port |-> p, tok |-> n]]
      BY <2>2 DEF Run
    <3>2. ent' = [ent EXCEPT ![g] = [ent[g] EXCEPT !.tok = n]]
      BY <2>2 DEF Run, Hold
    <3>3. [ent[g] EXCEPT !.tok = n].id = o /\ [ent[g] EXCEPT !.tok = n].tok = n
      BY <1>1 DEF Entry
    <3>4. CASE box'[w] # None /\ box'[w].tok = t
      BY <1>1, <3>1, <3>4 DEF Knows
    <3>5. CASE \E h \in Gos : ent'[h] # None /\ ent'[h].id = w /\ ent'[h].tok = t
      BY <1>1, <3>2, <3>3, <3>5 DEF Knows
    <3> QED
      BY <1>1, <1>2, <3>4, <3>5 DEF Knows
  <2> QED
    BY <2>1, <2>2
<1> HIDE DEF o, n
<1>3. \A w \in Workers : ~Knows(w, n)
  BY <1>1 DEF IInv, Minted
<1>4. Apart'
  BY <1>2, <1>3 DEF IInv, Apart
<1>5. Minted'
  <2>1. \A w \in Workers, t \in Tokens : Knows(w, t) => t <= minted
    BY DEF IInv, Minted
  <2>2. \A t \in Tokens : t <= minted \/ t = n => t <= n
    BY <1>1 DEF Tokens
  <2> QED
    BY <1>1, <1>2, <2>1, <2>2 DEF Minted
<1>6. Filed'
  BY <1>1 DEF IInv, Filed
<1> QED
  BY <1>4, <1>5, <1>6

LEMMA ReconcileKeepsApart ==
  ASSUME IInv, NEW g \in Gos, Reconcile(g) \/ ReconcileStarts(g)
  PROVE  (Filed /\ Apart /\ Minted)'
<1> USE DEF dockVars
<1>1. CASE ReconcileStarts(g)
  <2>1. EntLearns
    BY <1>1, HoldLearns DEF ReconcileStarts
  <2> QED
    BY <1>1, <2>1, KnownAlready, MovingKeepsApart DEF ReconcileStarts
<1>2. CASE Ps(g)
  BY <1>2, KnownAlready, MovingKeepsApart DEF Ps
<1>3. CASE PsFails(g) \/ Reconciled(g)
  <2>1. EntLearns
    BY <1>3, EndLearns DEF PsFails, Reconciled
  <2> QED
    BY <1>3, <2>1, KnownAlready, MovingKeepsApart DEF PsFails, Reconciled
<1>4. CASE Adopt(g)
  <2>1. PICK w \in todo[g] :
          IF reg[w] # None /\ reg[w].tok # NoToken
          THEN Hold(g, Adopted(w, rows[g][w], reg[w].tok), "store")
          ELSE Hold(g, Adopted(w, rows[g][w], NoToken), "inspect")
    BY <1>4 DEF Adopt
  <2>2. reg[w] # None => Learned(w, reg[w].tok)
    BY DEF Learned, Knows
  <2>3. Learned(w, NoToken)
    BY DEF Learned, NoToken, Tokens
  <2>4. \A t : Adopted(w, rows[g][w], t).id = w /\ Adopted(w, rows[g][w], t).tok = t
    BY DEF Adopted
  <2>5. CASE reg[w] # None /\ reg[w].tok # NoToken
    <3>1. Hold(g, Adopted(w, rows[g][w], reg[w].tok), "store")
      BY <2>1, <2>5
    <3>2. EntLearns
      BY <2>2, <2>4, <2>5, <3>1, HoldLearns
    <3> QED
      BY <1>4, <3>2, KnownAlready, MovingKeepsApart DEF Adopt
  <2>6. CASE ~(reg[w] # None /\ reg[w].tok # NoToken)
    <3>1. Hold(g, Adopted(w, rows[g][w], NoToken), "inspect")
      BY <2>1, <2>6
    <3>2. EntLearns
      BY <2>3, <2>4, <3>1, HoldLearns
    <3> QED
      BY <1>4, <3>2, KnownAlready, MovingKeepsApart DEF Adopt
  <2> QED
    BY <2>5, <2>6
<1>5. CASE Inspect(g)
  <2> DEFINE e == [ent[g] EXCEPT !.tok = TokenRead(ent[g].id)]
  <2>1. ent[g] \in Entry /\ ent[g].id \in Workers
    BY <1>5, InHand DEF Inspect, Holding
  <2>2. e.id = ent[g].id /\ e.tok = TokenRead(ent[g].id)
    BY <2>1 DEF Entry
  <2>3. Hold(g, e, "store")
    BY <1>5 DEF Inspect
  <2> HIDE DEF e
  <2>4. EntLearns
    BY <2>1, <2>2, <2>3, ReadIsKnown, HoldLearns
  <2> QED
    BY <1>5, <2>4, KnownAlready, MovingKeepsApart DEF Inspect
<1>6. CASE Store(g)
  <2>1. ent[g] # None /\ ent[g].id \in Workers /\ Learned(ent[g].id, ent[g].tok)
    BY <1>6, InHand DEF Store, Holding
  <2>2. reg \in [Workers -> Entry \cup {None}] /\ ent \in [Gos -> Entry \cup {None}]
    BY DEF IInv, TypeInv, TypeOK
  <2>3. \A w \in Workers : reg[w] # None => reg[w].id = w /\ Learned(w, reg[w].tok)
    BY DEF IInv, Filed, Learned, Knows
  <2>4. RegLearns
    BY <1>6, <2>1, <2>2, <2>3 DEF Store, RegLearns
  <2>5. \A h \in Gos : ent[h] # None => Learned(ent[h].id, ent[h].tok)
    BY DEF Learned, Knows
  <2>6. EntLearns
    BY <1>6, <2>2, <2>5 DEF Store, EntLearns
  <2> QED
    BY <1>6, <2>4, <2>6, KnownAlready, MovingKeepsApart DEF Store
<1>7. CASE ListStale(g)
  BY <1>7, KnownAlready, MovingKeepsApart DEF ListStale
<1>8. CASE Prune(g)
  <2>1. PICK w \in todo[g] : reg' = [reg EXCEPT ![w] = None]
    BY <1>8 DEF Prune
  <2>2. reg \in [Workers -> Entry \cup {None}]
    BY DEF IInv, TypeInv, TypeOK
  <2>3. \A v \in Workers : reg[v] # None => reg[v].id = v /\ Learned(v, reg[v].tok)
    BY DEF IInv, Filed, Learned, Knows
  <2>4. RegLearns
    BY <2>1, <2>2, <2>3 DEF RegLearns
  <2> QED
    BY <1>8, <2>4, KnownAlready, MovingKeepsApart DEF Prune
<1> QED
  BY <1>1, <1>2, <1>3, <1>4, <1>5, <1>6, <1>7, <1>8 DEF Reconcile

LEMMA RegisterKeepsApart ==
  ASSUME IInv, NEW g \in Gos, Register(g)
  PROVE  (Filed /\ Apart /\ Minted)'
<1> USE DEF dockVars
<1>1. pc[g] \in Holding =>
        ent[g] \in Entry /\ ent[g] # None /\ ent[g].id \in Workers /\ Learned(ent[g].id, ent[g].tok)
  BY InHand
<1>2. CASE Thaw(g)
  <2>1. EntLearns
    BY <1>1, <1>2, HoldLearns DEF Thaw, Goto, Holding
  <2>2. BoxKeeps
    BY <1>1, <1>2, DockerKeeps, KnownAlready DEF Thaw, Holding
  <2> QED
    BY <1>2, <2>1, <2>2, KnownAlready, MovingKeepsApart DEF Thaw
<1>3. CASE Remove(g)
  <2>1. EntLearns
    BY <1>1, <1>3, HoldLearns DEF Remove, Goto, Holding
  <2>2. BoxKeeps
    BY <1>1, <1>3, DockerKeeps DEF Remove, Holding
  <2> QED
    BY <1>3, <2>1, <2>2, KnownAlready, MovingKeepsApart DEF Remove
<1>4. CASE ReadToken(g)
  <2> DEFINE e == [ent[g] EXCEPT !.tok = TokenRead(ent[g].id)]
  <2>1. ent[g] \in Entry /\ ent[g].id \in Workers
    BY <1>1, <1>4 DEF ReadToken, Holding
  <2>2. e.id = ent[g].id /\ e.tok = TokenRead(ent[g].id)
    BY <2>1 DEF Entry
  <2>3. Hold(g, e, "ports")
    BY <1>4 DEF ReadToken
  <2> HIDE DEF e
  <2>4. EntLearns
    BY <2>1, <2>2, <2>3, ReadIsKnown, HoldLearns
  <2> QED
    BY <1>4, <2>4, KnownAlready, MovingKeepsApart DEF ReadToken
<1>5. CASE ReadPorts(g)
  <2>1. EntLearns
    <3> DEFINE e == [ent[g] EXCEPT !.port = box[ent[g].id].port]
    <3>1. e.id = ent[g].id /\ e.tok = ent[g].tok /\ Learned(ent[g].id, ent[g].tok)
      BY <1>1, <1>5 DEF ReadPorts, Holding, Entry
    <3>2. End(g) \/ Hold(g, e, "state")
      BY <1>5 DEF ReadPorts
    <3> HIDE DEF e
    <3> QED
      BY <3>1, <3>2, HoldLearns, EndLearns
  <2> QED
    BY <1>5, <2>1, KnownAlready, MovingKeepsApart DEF ReadPorts
<1>6. CASE ReadState(g)
  <2> DEFINE st == IF Exists(ent[g].id) THEN box[ent[g].id].st ELSE ""
             e == [ent[g] EXCEPT !.st = st]
  <2>1. e.id = ent[g].id /\ e.tok = ent[g].tok /\ Learned(ent[g].id, ent[g].tok)
    BY <1>1, <1>6 DEF ReadState, Holding, Entry
  <2>2. Hold(g, e, "put")
    BY <1>6 DEF ReadState
  <2> HIDE DEF e
  <2>3. EntLearns
    BY <2>1, <2>2, HoldLearns
  <2> QED
    BY <1>6, <2>3, KnownAlready, MovingKeepsApart DEF ReadState
<1>7. CASE Put(g)
  <2>1. ent[g] # None /\ ent[g].id \in Workers /\ Learned(ent[g].id, ent[g].tok)
    BY <1>1, <1>7 DEF Put, Holding
  <2>2. reg \in [Workers -> Entry \cup {None}]
    BY DEF IInv, TypeInv, TypeOK
  <2>3. \A w \in Workers : reg[w] # None => reg[w].id = w /\ Learned(w, reg[w].tok)
    BY DEF IInv, Filed, Learned, Knows
  <2>4. RegLearns
    BY <1>7, <2>1, <2>2, <2>3 DEF Put, RegLearns
  <2>5. EntLearns
    BY <1>7, EndLearns DEF Put
  <2> QED
    BY <1>7, <2>4, <2>5, KnownAlready, MovingKeepsApart DEF Put
<1> QED
  BY <1>2, <1>3, <1>4, <1>5, <1>6, <1>7, RunKeepsApart DEF Register

LEMMA ProxyForKeepsApart ==
  ASSUME IInv, NEW g \in Gos, ProxyFor(g)
  PROVE  (Filed /\ Apart /\ Minted)'
<1> DEFINE e == ent[g]
<1>1. /\ e \in Entry /\ e.id \in Workers /\ Learned(e.id, e.tok)
      /\ e.port # None => e.port \in Ports
  BY InHand DEF ProxyFor, Holding, Entry
<1>2. proxies \in [Workers -> [Ports -> Tokens \cup {NoToken, None}]]
  BY DEF IInv, TypeInv, TypeOK
<1>3. \A w \in Workers, p \in Ports : Learned(w, proxies[w][p])
  BY DEF Learned, Knows
<1>4. ProxiesLearn
  BY <1>1, <1>2, <1>3 DEF ProxyFor, ProxiesLearn
<1>5. EntLearns
  BY EndLearns DEF ProxyFor
<1> QED
  BY <1>4, <1>5, KnownAlready, MovingKeepsApart DEF ProxyFor, dockVars

LEMMA ForgetKeepsApart ==
  ASSUME IInv, NEW g \in Gos, Forget(g)
  PROVE  (Filed /\ Apart /\ Minted)'
<1>1. reg \in [Workers -> Entry \cup {None}]
  BY DEF IInv, TypeInv, TypeOK
<1>2. \A v \in Workers : reg[v] # None => reg[v].id = v /\ Learned(v, reg[v].tok)
  BY DEF IInv, Filed, Learned, Knows
<1>3. RegLearns
  BY <1>1, <1>2 DEF Forget, RegLearns
<1>4. EntLearns
  BY HoldLearns DEF Forget
<1> QED
  BY <1>3, <1>4, KnownAlready, MovingKeepsApart DEF Forget, dockVars

LEMMA StartsKeepApart ==
  ASSUME IInv, NEW g \in Gos, NEW w \in Workers,
         RegisterStarts(g, w) \/ RequestStarts(g, w) \/ NukeStarts(g, w)
  PROVE  (Filed /\ Apart /\ Minted)'
<1> USE DEF dockVars
<1>1. reg[w] # None => Learned(reg[w].id, reg[w].tok)
  BY DEF IInv, Filed, Learned, Knows
<1>2. CASE RegisterStarts(g, w)
  <2> DEFINE e == [id |-> w, st |-> "", port |-> None, tok |-> NoToken]
  <2>1. Learned(e.id, e.tok)
    BY DEF Learned, NoToken, Tokens
  <2>2. EntLearns
    BY <1>2, <2>1, HoldLearns DEF RegisterStarts
  <2> QED
    BY <1>2, <2>2, KnownAlready, MovingKeepsApart DEF RegisterStarts
<1>3. CASE RequestStarts(g, w)
  <2>1. EntLearns
    BY <1>1, <1>3, HoldLearns DEF RequestStarts
  <2> QED
    BY <1>3, <2>1, KnownAlready, MovingKeepsApart DEF RequestStarts
<1>4. CASE NukeStarts(g, w)
  <2>1. EntLearns
    BY <1>1, <1>4, HoldLearns DEF NukeStarts
  <2>2. BoxKeeps
    BY <1>4, DockerKeeps DEF NukeStarts
  <2> QED
    BY <1>4, <2>1, <2>2, KnownAlready, MovingKeepsApart DEF NukeStarts
<1> QED
  BY <1>2, <1>3, <1>4

LEMMA RestartKeepsApart == IInv /\ Restart => (Filed /\ Apart /\ Minted)'
<1> SUFFICES ASSUME IInv, Restart PROVE (Filed /\ Apart /\ Minted)'
  OBVIOUS
<1>1. RegLearns /\ EntLearns
  BY DEF Restart, NoRows, RegLearns, EntLearns
<1>2. ProxiesLearn
  BY GosAssumption DEF Restart, NoProxies, ProxiesLearn, Learned, Tokens
<1> QED
  BY <1>1, <1>2, KnownAlready, MovingKeepsApart DEF Restart, dockVars

LEMMA NextKeepsApart == IInv /\ [Next]_vars => (Filed /\ Apart /\ Minted)'
<1> SUFFICES ASSUME IInv, [Next]_vars PROVE (Filed /\ Apart /\ Minted)'
  OBVIOUS
<1>1. ASSUME NEW w \in Workers, ContainerChanges(w) PROVE (Filed /\ Apart /\ Minted)'
  <2>1. BoxKeeps
    BY <1>1, DockerKeeps DEF ContainerChanges
  <2> QED
    BY <1>1, <2>1, KnownAlready, MovingKeepsApart DEF ContainerChanges, goVars
<1>2. ASSUME NEW g \in Gos, Step(g) \/ ReconcileStarts(g) PROVE (Filed /\ Apart /\ Minted)'
  BY <1>2, ReconcileKeepsApart, RegisterKeepsApart, ProxyForKeepsApart, ForgetKeepsApart DEF Step
<1>3. ASSUME UNCHANGED vars PROVE (Filed /\ Apart /\ Minted)'
  BY <1>3, KnownAlready, MovingKeepsApart DEF vars, goVars, dockVars
<1> QED
  BY <1>1, <1>2, <1>3, StartsKeepApart, RestartKeepsApart DEF Next

-----------------------------------------------------------------------------
(* The theorems.                                                           *)

LEMMA Invariance == Spec => []IInv
<1>1. Init => IInv
  BY InitTypes, InitApart DEF IInv
<1>2. IInv /\ [Next]_vars => IInv'
  BY NextTypes, NextKeepsApart DEF IInv
<1> QED
  BY <1>1, <1>2, PTL DEF Spec

\* The registry, the proxies, docker's containers and what goroutines have in hand always
\* have the right types, for any workers, ports and goroutines.
THEOREM TypeCorrect == Spec => []TypeOK
<1>1. IInv => TypeOK
  BY DEF IInv, TypeInv
<1> QED
  BY <1>1, Invariance, PTL

\* registry.go, worker.go and coordinator.go: however stale the registry, a proxy or a
\* handler's entry is, no worker's gate lets in what is meant for another.
THEOREM NoRequestGoesAstray == Spec => []NoCrossTalk
<1>1. ASSUME IInv PROVE NoCrossTalk
  <2>1. ASSUME NEW w \in Workers, NEW p, NEW t, Learned(w, t) PROVE Reaches(w, p, t)
    <3> SUFFICES ASSUME NEW v \in Workers, LetIn(p, t, v) PROVE v = w
      BY DEF Reaches
    <3>1. t \in Tokens /\ Knows(v, t)
      BY <1>1 DEF LetIn, Up, Exists, Knows, IInv, TypeInv, TypeOK, Container
    <3> QED
      BY <1>1, <2>1, <3>1 DEF Learned, IInv, Apart
  <2>2. ASSUME NEW w \in Workers, reg[w] # None PROVE Reaches(w, reg[w].port, reg[w].tok)
    BY <2>1, <2>2 DEF Learned, Knows
  <2>3. ASSUME NEW w \in Workers, NEW p \in Ports PROVE Reaches(w, p, proxies[w][p])
    BY <2>1 DEF Learned, Knows
  <2>4. ASSUME NEW g \in Gos, ent[g] # None PROVE Reaches(ent[g].id, ent[g].port, ent[g].tok)
    <3>1. ent[g].id \in Workers
      BY <1>1, <2>4 DEF IInv, TypeInv, TypeOK, Entry
    <3> QED
      BY <2>1, <2>4, <3>1 DEF Learned, Knows
  <2> QED
    BY <2>2, <2>3, <2>4 DEF NoCrossTalk
<1> QED
  BY <1>1, Invariance, PTL
=============================================================================
