------------------------------ MODULE EventHub ------------------------------
(***************************************************************************)
(* The coordinator's cross-project event stream (cmd/sr/coordevents.go).   *)
(*                                                                         *)
(* A hub goroutine (run) compares the registry with its readers every five *)
(* seconds.  A reader seeds the hub from the worker's session list, then   *)
(* follows the worker's event stream, recording every event: the latest    *)
(* one of each live session is kept (last) and broadcast to the browsers.  *)
(* A browser that subscribes gets what is kept, then every broadcast.      *)
(*                                                                         *)
(* The worker's side is what the hub can see of internal/session: sessions *)
(* change state under Session.mu and emit the event after unlocking it, a  *)
(* session's monitor and its exit each in a goroutine of their own.        *)
(***************************************************************************)
EXTENDS Naturals, FiniteSets, SequencesExt

CONSTANTS
    Workers,     \* worker ids
    Sessions,    \* session ids a worker may create (they are random, never used again)
    Readers,     \* readWorker goroutines: bounds how many of them overlap
    Browsers,    \* clients of /api/events
    StreamCap,   \* capacity of a worker's event channel (64)
    BrowserCap,  \* capacity of a browser's channel (64)
    None         \* an absent map entry, a goroutine slot not in use

ASSUME CapAssumption == StreamCap \in Nat \ {0} /\ BrowserCap \in Nat \ {0}
ASSUME FiniteAssumption == IsFiniteSet(Workers) /\ IsFiniteSet(Sessions)
ASSUME NoneAssumption ==
    None \notin Readers \cup {"idle", "running", "fetch", "seed", "stream", "broken"}

Kept == {None, "idle", "running"}
SessState == {"none", "idle", "running", "exited", "lost"}
EventState == {"idle", "running", "exited", "gone"}
Event == [w : Workers, s : Sessions \cup {None}, st : EventState]

VARIABLES
    dock,    \* [Workers -> {"stopped", "booting", "serving", "paused"}]: its container
    reg,     \* [Workers -> BOOLEAN]: the registry lists it as running
    sess,    \* [Workers -> [Sessions -> SessState]]: "lost" if its container stopped
    pend,    \* [Workers -> [Sessions -> SUBSET EventState]]: changes not emitted yet
    readers, \* coordEventHub.readers: [Workers -> Readers or None]
    last,    \* coordEventHub.last: [Workers -> [Sessions -> Kept]]
    rpc,     \* [Readers -> {None, "fetch", "seed", "stream", "broken"}]
    rw,      \* [Readers -> Workers or None]: the worker it reads
    rsnap,   \* [Readers -> SUBSET Event]: fetched and not recorded yet
    rbuf,    \* [Readers -> Seq(Event)]: in its stream and not recorded yet
    sub,     \* the browsers subscribed
    bbuf,    \* [Browsers -> Seq(Event)]: in the browser's channel
    told,    \* what each browser's stream told it so far, as the hub keeps it
    missed,  \* history: the browsers whose channel was full at a broadcast
    moved    \* history: [Workers -> SUBSET Sessions], sessions that changed since the
             \* worker's reader connected, none of those changes dropped and none
             \* overwritten by what a cancelled reader still had

workerVars == <<dock, reg, sess, pend>>
browserVars == <<sub, bbuf, told, missed>>
vars == <<workerVars, readers, last, rpc, rw, rsnap, rbuf, browserVars, moved>>

Nothing == [s \in Sessions |-> None]
NothingKept == [w \in Workers |-> Nothing]

TypeOK ==
    /\ dock \in [Workers -> {"stopped", "booting", "serving", "paused"}]
    /\ reg \in [Workers -> BOOLEAN]
    /\ sess \in [Workers -> [Sessions -> SessState]]
    /\ pend \in [Workers -> [Sessions -> SUBSET {"idle", "running", "exited"}]]
    /\ readers \in [Workers -> Readers \cup {None}]
    /\ last \in [Workers -> [Sessions -> Kept]]
    /\ rpc \in [Readers -> {None, "fetch", "seed", "stream", "broken"}]
    /\ rw \in [Readers -> Workers \cup {None}]
    /\ rsnap \in [Readers -> SUBSET Event]
    /\ rbuf \in [Readers -> Seq(Event)]
    /\ \A r \in Readers : Len(rbuf[r]) <= StreamCap
    /\ sub \subseteq Browsers
    /\ bbuf \in [Browsers -> Seq(Event)]
    /\ \A b \in Browsers : Len(bbuf[b]) <= BrowserCap
    /\ told \in [Browsers -> [Workers -> [Sessions -> Kept]]]
    /\ missed \subseteq Browsers
    /\ moved \in [Workers -> SUBSET Sessions]

Init ==
    /\ dock = [w \in Workers |-> "stopped"]
    /\ reg = [w \in Workers |-> FALSE]
    /\ sess = [w \in Workers |-> [s \in Sessions |-> "none"]]
    /\ pend = [w \in Workers |-> [s \in Sessions |-> {}]]
    /\ readers = [w \in Workers |-> None]
    /\ last = NothingKept
    /\ rpc = [r \in Readers |-> None]
    /\ rw = [r \in Readers |-> None]
    /\ rsnap = [r \in Readers |-> {}]
    /\ rbuf = [r \in Readers |-> <<>>]
    /\ sub = {}
    /\ bbuf = [b \in Browsers |-> <<>>]
    /\ told = [b \in Browsers |-> NothingKept]
    /\ missed = {}
    /\ moved = [w \in Workers |-> {}]

-----------------------------------------------------------------------------
(* Recording and broadcasting, under coordEventHub.mu.                     *)

\* A faulty record: keeps the first state it hears of a session.
AfterKeepsFirst(map, e) ==
    CASE e.st = "gone" -> [map EXCEPT ![e.w] = Nothing]
      [] e.st = "exited" -> [map EXCEPT ![e.w][e.s] = None]
      [] OTHER -> [map EXCEPT ![e.w][e.s] = IF @ = None THEN e.st ELSE @]

\* What is known of the sessions after an event.
After(map, e) ==
    CASE e.st = "gone" -> [map EXCEPT ![e.w] = Nothing]
      [] e.st = "exited" -> [map EXCEPT ![e.w][e.s] = None]
      [] OTHER -> [map EXCEPT ![e.w][e.s] = e.st]

\* broadcastLocked, for each of a sequence of events: a full channel is skipped.  A
\* browser that missed an event is followed no further.
Broadcast(es) ==
    LET over == {b \in sub : Len(bbuf[b]) + Len(es) > BrowserCap}
    IN /\ missed' = missed \cup over
       /\ bbuf' = [b \in Browsers |-> IF b \notin sub \ missed' THEN <<>> ELSE bbuf[b] \o es]
       /\ told' = [b \in Browsers |-> IF b \in missed' THEN NothingKept ELSE told[b]]
       /\ UNCHANGED sub

Record(e) ==
    /\ last' = After(last, e)
    /\ Broadcast(<<e>>)

-----------------------------------------------------------------------------
(* syncReaders, on every tick of run.                                      *)

Running == {w \in Workers : reg[w]}
Followed == {w \in Workers : readers[w] # None}

\* Goroutines that returned and whose cancel function is in no map entry.
Free == {r \in Readers : rpc[r] = None /\ \A w \in Workers : readers[w] # r}

\* A faulty syncReaders: drops a stopped worker's state without telling the browsers.
SyncSilently ==
    LET new == Running \ Followed
        gone == Followed \ Running
    IN /\ new \cup gone # {}
       /\ \E start \in Injection(new, Free) :
             /\ readers' = [w \in Workers |-> IF w \in gone THEN None
                                              ELSE IF w \in new THEN start[w] ELSE readers[w]]
             /\ rpc' = [r \in Readers |-> IF r \in Range(start) THEN "fetch" ELSE rpc[r]]
             /\ rw' = [r \in Readers |-> IF r \in Range(start) THEN AntiFunction(start)[r]
                                                               ELSE rw[r]]
       /\ last' = [w \in Workers |-> IF w \in gone THEN Nothing ELSE last[w]]
       /\ UNCHANGED <<workerVars, rsnap, rbuf, browserVars, moved>>

\* One reader for each newly running worker; the reader of a worker that stopped running
\* is cancelled, its state dropped and the browsers told.  The registry is listed before
\* coordEventHub.mu is taken; nothing the hub does depends on the registry in between.
SyncReaders ==
    LET new == Running \ Followed
        gone == Followed \ Running
    IN /\ new \cup gone # {}
       /\ \E start \in Injection(new, Free) :
             /\ readers' = [w \in Workers |-> IF w \in gone THEN None
                                              ELSE IF w \in new THEN start[w] ELSE readers[w]]
             /\ rpc' = [r \in Readers |-> IF r \in Range(start) THEN "fetch" ELSE rpc[r]]
             /\ rw' = [r \in Readers |-> IF r \in Range(start) THEN AntiFunction(start)[r]
                                                               ELSE rw[r]]
       /\ last' = [w \in Workers |-> IF w \in gone THEN Nothing ELSE last[w]]
       /\ \E es \in SetToSeqs({[w |-> w, s |-> None, st |-> "gone"] : w \in gone}) : Broadcast(es)
       /\ UNCHANGED <<workerVars, rsnap, rbuf, moved>>

-----------------------------------------------------------------------------
(* readWorker.                                                             *)

\* Its context is cancelled exactly when syncReaders drops it from the map.
Cancelled(r) == readers[rw[r]] # r

\* The goroutine returns; nothing takes it out of coordEventHub.readers.
Return(r) ==
    /\ rpc' = [rpc EXCEPT ![r] = None]
    /\ rw' = [rw EXCEPT ![r] = None]

\* GET /api/sessions, without the sessions Manager.Kill has forgotten by now.  A paused
\* container answers when it resumes; no answer is an empty seed.
Fetch(r) ==
    /\ rpc[r] = "fetch"
    /\ \/ /\ dock[rw[r]] = "serving" /\ ~Cancelled(r)
          /\ \E listed \in SUBSET {s \in Sessions : sess[rw[r]][s] \notin {"none", "lost"}} :
                rsnap' = [rsnap EXCEPT ![r] =
                            {[w |-> rw[r], s |-> s, st |-> sess[rw[r]][s]] : s \in listed}]
       \/ /\ dock[rw[r]] \in {"stopped", "booting"} \/ Cancelled(r)
          /\ UNCHANGED rsnap
    /\ rpc' = [rpc EXCEPT ![r] = "seed"]
    /\ UNCHANGED <<workerVars, readers, last, rw, rbuf, browserVars, moved>>

\* What a cancelled reader still records may be older than what its successor did.
MovedUnlessStale(r, e) ==
    moved' = [moved EXCEPT ![e.w] = IF Cancelled(r) THEN @ \ {e.s} ELSE @]

\* The loop over the snapshot does not look at the context.
Seed(r) ==
    /\ rpc[r] = "seed"
    /\ \E e \in rsnap[r] :
          /\ Record(e)
          /\ MovedUnlessStale(r, e)
          /\ rsnap' = [rsnap EXCEPT ![r] = @ \ {e}]
    /\ UNCHANGED <<workerVars, readers, rpc, rw, rbuf>>

\* GET /api/events: the worker subscribes the request before it answers.
Connect(r) ==
    /\ rpc[r] = "seed"
    /\ rsnap[r] = {}
    /\ \/ /\ dock[rw[r]] = "serving" /\ ~Cancelled(r)
          /\ rpc' = [rpc EXCEPT ![r] = "stream"]
          /\ moved' = [moved EXCEPT ![rw[r]] = {}]
          /\ UNCHANGED rw
       \/ /\ dock[rw[r]] \in {"stopped", "booting"} \/ Cancelled(r)
          /\ Return(r)
          /\ UNCHANGED moved
    /\ UNCHANGED <<workerVars, readers, last, rsnap, rbuf, browserVars>>

Receive(r) ==
    /\ rpc[r] \in {"stream", "broken"}
    /\ rbuf[r] # <<>>
    /\ Record(Head(rbuf[r]))
    /\ MovedUnlessStale(r, Head(rbuf[r]))
    /\ rbuf' = [rbuf EXCEPT ![r] = Tail(@)]
    /\ UNCHANGED <<workerVars, readers, rpc, rw, rsnap>>

\* The stream broke or was cancelled; lines already read may or may not have been
\* recorded before the scanner met the error.
StreamEnds(r) ==
    /\ rpc[r] = "broken" \/ (rpc[r] = "stream" /\ Cancelled(r))
    /\ Return(r)
    /\ rbuf' = [rbuf EXCEPT ![r] = <<>>]
    /\ UNCHANGED <<workerVars, readers, last, rsnap, browserVars, moved>>

-----------------------------------------------------------------------------
(* Browsers: sub, the handler's loop, cancel.                              *)

Keeping == {x \in Workers \X Sessions : last[x[1]][x[2]] # None}

\* The order of the replay is that of Go's map iteration.
Subscribe(b) ==
    /\ b \notin sub
    /\ sub' = sub \cup {b}
    /\ told' = [told EXCEPT ![b] = NothingKept]
    /\ IF Cardinality(Keeping) > BrowserCap
       THEN missed' = missed \cup {b} /\ bbuf' = [bbuf EXCEPT ![b] = <<>>]
       ELSE /\ missed' = missed \ {b}
            /\ \E replay \in SetToSeqs({[w |-> x[1], s |-> x[2], st |-> last[x[1]][x[2]]] : x \in Keeping}) :
                  bbuf' = [bbuf EXCEPT ![b] = replay]
    /\ UNCHANGED <<workerVars, readers, last, rpc, rw, rsnap, rbuf, moved>>

Deliver(b) ==
    /\ b \in sub
    /\ bbuf[b] # <<>>
    /\ told' = [told EXCEPT ![b] = After(@, Head(bbuf[b]))]
    /\ bbuf' = [bbuf EXCEPT ![b] = Tail(@)]
    /\ UNCHANGED <<workerVars, readers, last, rpc, rw, rsnap, rbuf, sub, missed, moved>>

Leave(b) ==
    /\ b \in sub
    /\ sub' = sub \ {b}
    /\ bbuf' = [bbuf EXCEPT ![b] = <<>>]
    /\ told' = [told EXCEPT ![b] = NothingKept]
    /\ missed' = missed \ {b}
    /\ UNCHANGED <<workerVars, readers, last, rpc, rw, rsnap, rbuf, moved>>

-----------------------------------------------------------------------------
(* The worker: its container, the registry's copy of that, its sessions.   *)

\* Everything in the container ends with it, the sessions and the streams included.
ContainerStops(w) ==
    /\ dock[w] # "stopped"
    /\ dock' = [dock EXCEPT ![w] = "stopped"]
    /\ sess' = [sess EXCEPT ![w] = [s \in Sessions |-> IF @[s] = "none" THEN "none" ELSE "lost"]]
    /\ pend' = [pend EXCEPT ![w] = [s \in Sessions |-> {}]]
    /\ rpc' = [r \in Readers |-> IF rw[r] = w /\ rpc[r] = "stream" THEN "broken" ELSE rpc[r]]
    /\ UNCHANGED <<reg, readers, last, rw, rsnap, rbuf, browserVars, moved>>

ContainerMoves(w) ==
    /\ \/ dock[w] = "stopped" /\ dock' = [dock EXCEPT ![w] = "booting"]
       \/ dock[w] = "booting" /\ dock' = [dock EXCEPT ![w] = "serving"]
       \/ dock[w] = "serving" /\ dock' = [dock EXCEPT ![w] = "paused"]
       \/ dock[w] = "paused" /\ dock' = [dock EXCEPT ![w] = "serving"]
    /\ UNCHANGED <<reg, sess, pend, readers, last, rpc, rw, rsnap, rbuf,
                   browserVars, moved>>

Reconcile(w) ==
    /\ reg' = [reg EXCEPT ![w] = dock[w] \in {"booting", "serving"}]
    /\ UNCHANGED <<dock, sess, pend, readers, last, rpc, rw, rsnap, rbuf,
                   browserVars, moved>>

\* Manager.Create: the session is idle, and no event says so.
Create(w, s) ==
    /\ dock[w] = "serving"
    /\ sess[w][s] = "none"
    /\ sess' = [sess EXCEPT ![w][s] = "idle"]
    /\ UNCHANGED <<dock, reg, pend, readers, last, rpc, rw, rsnap, rbuf,
                   browserVars, moved>>

\* One monitor goroutine per session: it emits a change before it makes the next.
MonitorChanges(w, s) ==
    /\ dock[w] = "serving"
    /\ sess[w][s] \in {"idle", "running"}
    /\ pend[w][s] = {}
    /\ LET st == IF sess[w][s] = "idle" THEN "running" ELSE "idle"
       IN /\ sess' = [sess EXCEPT ![w][s] = st]
          /\ pend' = [pend EXCEPT ![w][s] = {st}]
    /\ moved' = [moved EXCEPT ![w] = @ \cup {s}]
    /\ UNCHANGED <<dock, reg, readers, last, rpc, rw, rsnap, rbuf, browserVars>>

\* handleExit, in the session's other goroutine.
Exit(w, s) ==
    /\ dock[w] = "serving"
    /\ sess[w][s] \in {"idle", "running"}
    /\ sess' = [sess EXCEPT ![w][s] = "exited"]
    /\ pend' = [pend EXCEPT ![w][s] = @ \cup {"exited"}]
    /\ UNCHANGED <<dock, reg, readers, last, rpc, rw, rsnap, rbuf,
                   browserVars, moved>>

\* Manager.emit: into every stream that has room; what the hub hung up on reads nothing.
Emit(w, s) ==
    /\ dock[w] = "serving"
    /\ \E st \in pend[w][s] :
          LET e == [w |-> w, s |-> s, st |-> st]
              on == {r \in Readers : rpc[r] = "stream" /\ rw[r] = w /\ ~Cancelled(r)}
              full == {r \in on : Len(rbuf[r]) = StreamCap}
          IN /\ pend' = [pend EXCEPT ![w][s] = @ \ {st}]
             /\ rbuf' = [r \in Readers |-> IF r \in on \ full THEN Append(rbuf[r], e) ELSE rbuf[r]]
             /\ moved' = [moved EXCEPT ![w] = IF full = {} THEN @ ELSE @ \ {s}]
    /\ UNCHANGED <<dock, reg, sess, readers, last, rpc, rw, rsnap, browserVars>>

-----------------------------------------------------------------------------
ReaderStep(r) ==
    Fetch(r) \/ Seed(r) \/ Connect(r) \/ Receive(r) \/ StreamEnds(r)

WorkerStep(w) ==
    \/ ContainerStops(w) \/ ContainerMoves(w) \/ Reconcile(w)
    \/ \E s \in Sessions :
          Create(w, s) \/ MonitorChanges(w, s) \/ Exit(w, s) \/ Emit(w, s)

Next ==
    \/ SyncReaders
    \/ \E r \in Readers : ReaderStep(r)
    \/ \E b \in Browsers : Subscribe(b) \/ Deliver(b) \/ Leave(b)
    \/ \E w \in Workers : WorkerStep(w)

Spec == Init /\ [][Next]_vars

\* The ticker, the goroutines that can run and the periodic reconcile are scheduled;
\* nobody is obliged to start a container, use a session or read a browser's stream.
Fairness ==
    /\ WF_vars(SyncReaders)
    /\ \A r \in Readers : WF_vars(ReaderStep(r))
    /\ \A w \in Workers : WF_vars(Reconcile(w))
    /\ \A w \in Workers, s \in Sessions : WF_vars(Emit(w, s))

FairSpec == Spec /\ Fairness

-----------------------------------------------------------------------------
(* Properties.                                                             *)

\* A browser that missed nothing knows, once its channel is drained, exactly what the hub
\* keeps: the replay on subscribing, the events and the "gone" of a stopped worker add up
\* to the snapshot, whenever it subscribed and whatever the readers did meanwhile.  (What
\* it knows of a channel that is not drained is the matter of the states that follow:
\* Deliver can always empty it, and leaves what the hub keeps alone.)
StreamIsSnapshot ==
    \A b \in sub \ missed : bbuf[b] = <<>> => told[b] = last

\* The reader that follows a worker's stream.
Following(w) == readers[w] # None /\ rpc[readers[w]] = "stream"

\* Nobody holds anything of the worker's that is not recorded yet.
Recorded(w) ==
    /\ \A s \in Sessions : pend[w][s] = {}
    /\ \A r \in Readers : rw[r] = w => rpc[r] = "stream" /\ rbuf[r] = <<>>

\* For a session that is alive and changed since the hub connected, with no event lost,
\* the hub keeps the state the session is in: the seed, which is read before the stream,
\* never puts it back to an older one.  (What a cancelled reader of the same worker still
\* had to record can; history variable moved leaves those sessions out.)
FollowedSessionsCurrent ==
    \A w \in Workers : Following(w) /\ Recorded(w) =>
        \A s \in moved[w] : sess[w][s] \in {"idle", "running"} => last[w][s] = sess[w][s]

\* coordevents.go: "run keeps an upstream reader alive for every running worker", and
\* after a failed connect "syncReaders will retry next tick if still running".
RunningWorkersFollowed ==
    \A w \in Workers : <>[](dock[w] = "serving") => []<>Following(w)
=============================================================================
