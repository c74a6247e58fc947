----------------------------- MODULE DeviceLink -----------------------------
(***************************************************************************)
(* The SSH link between the backend and one device: the device's connect   *)
(* loop, the hello, bind and unbind requests, the listeners on the device, *)
(* and the channel a connection at such a listener travels back on.        *)
(* PortForwarding has what the coordinator does with Forward and its       *)
(* closer; here a call is one use of them.                                 *)
(*                                                                         *)
(* The ssh library is external: requests of one connection arrive in the   *)
(* order they were sent, one that wants an answer waits for the one before *)
(* it to be answered, and everything on a connection fails once the        *)
(* library has noticed its end.                                            *)
(***************************************************************************)
EXTENDS FiniteSets, Naturals, Sequences

CONSTANTS
    Calls,      \* calls of remoteDevice.Forward, each for a worker's port
    Users,      \* TCP connections that arrive on the device
    MaxLinks    \* bound on connections

ASSUME DeviceLinkAssumption == MaxLinks \in Nat \ {0} /\ IsFiniteSet(Calls)

Links == 1..MaxLinks
Tags == 1..Cardinality(Calls)

VARIABLES
    made,       \* how many connections the device has made; the last is its own
    dev,        \* the device's end of that one
    srv,        \* the backend's end of each: handleConn and handleRequests
    mute,       \* connections on which nothing gets through any more
    seq,        \* remoteDevice.seq
    tags,       \* remoteDevice.tags: the call that a tag's DialFunc is for
    reqs,       \* requests under way to the device
    call,       \* the calls
    open,       \* the listeners on the device that are open
    listeners,  \* deviceClient.listeners
    user        \* the connections at the listeners

vars == <<made, dev, srv, mute, seq, tags, reqs, call, open, listeners, user>>

NoCall == [at |-> "idle", link |-> 0, tag |-> 0]
NoUser == [at |-> "idle", ln |-> <<>>, to |-> {}]

Init ==
    /\ made = 0
    /\ dev = "down"
    /\ srv = [l \in Links |-> "none"]
    /\ mute = {}
    /\ seq = [l \in Links |-> 0]
    /\ tags = [l \in Links |-> [t \in Tags |-> {}]]
    /\ reqs = [l \in Links |-> <<>>]
    /\ call = [c \in Calls |-> NoCall]
    /\ open = {}
    /\ listeners = [t \in Tags |-> {}]
    /\ user = [u \in Users |-> NoUser]

\* A listener: the connection and tag it was bound for, and the call that
\* the tag stood for when it was bound.
Listener == Links \X Tags \X Calls

\* The connection works from end to end.
Carries(l) == l = made /\ l \notin mute /\ dev # "down" /\ srv[l] # "ended"

-----------------------------------------------------------------------------
(* connectOnce.                                                            *)

\* The dial, the handshake and the hello's request.
Connect ==
    /\ dev = "down" /\ made < MaxLinks
    /\ made' = made + 1
    /\ dev' = "hello"
    /\ srv' = [srv EXCEPT ![made + 1] = "hello"]
    /\ UNCHANGED <<mute, seq, tags, reqs, call, open, listeners, user>>

\* handleRequests: setHello and activate; from here on there are calls.
Activate(l) ==
    /\ srv[l] = "hello"
    /\ srv' = [srv EXCEPT ![l] = "activated"]
    /\ UNCHANGED <<made, dev, mute, seq, tags, reqs, call, open, listeners, user>>

\* A mutant: the hello is answered when the ports are bound.
AnswerHelloLate(l) ==
    /\ srv[l] = "activated" /\ Carries(l)
    /\ \A c \in Calls : call[c].link = l => call[c].at \in {"bound", "closed", "failed"}
    /\ srv' = [srv EXCEPT ![l] = "serving"]
    /\ dev' = "up"
    /\ UNCHANGED <<made, mute, seq, tags, reqs, call, open, listeners, user>>

\* The device serves requests once its hello is answered.
AnswerHello(l) ==
    /\ srv[l] = "activated" /\ Carries(l)
    /\ srv' = [srv EXCEPT ![l] = "serving"]
    /\ dev' = "up"
    /\ UNCHANGED <<made, mute, seq, tags, reqs, call, open, listeners, user>>

\* The backend notices the end: a read fails or keepalive has closed it.
BackendEnds(l) ==
    /\ srv[l] \notin {"none", "ended"} /\ ~Carries(l)
    /\ srv' = [srv EXCEPT ![l] = "ended"]
    /\ reqs' = [reqs EXCEPT ![l] = <<>>]
    /\ UNCHANGED <<made, dev, mute, seq, tags, call, open, listeners, user>>

\* A mutant: the listeners of a lost connection are kept.
DeviceEndsOpen ==
    /\ dev # "down" /\ ~Carries(made)
    /\ dev' = "down"
    /\ UNCHANGED <<made, srv, mute, seq, tags, reqs, call, open, listeners, user>>

\* The device notices; serveRequests has returned, and closeAll runs.
DeviceEnds ==
    /\ dev # "down" /\ ~Carries(made)
    /\ dev' = "down"
    /\ open' = open \ UNION {listeners[t] : t \in Tags}
    /\ listeners' = [t \in Tags |-> {}]
    /\ UNCHANGED <<made, srv, mute, seq, tags, reqs, call, user>>

-----------------------------------------------------------------------------
(* remoteDevice.Forward and its closer.                                    *)

Takes(c, l, t) == [call EXCEPT ![c] = [at |-> "entered", link |-> l, tag |-> t]]

\* A mutant: a tag is free again once it is deleted.
EnterReused(c, l) ==
    LET free == {t \in Tags : tags[l][t] = {}}
        t == CHOOSE s \in free : \A r \in free : s <= r
    IN  /\ call[c] = NoCall
        /\ srv[l] \in {"activated", "serving", "ended"}
        /\ tags' = [tags EXCEPT ![l][t] = {c}]
        /\ call' = Takes(c, l, t)
        /\ UNCHANGED <<made, dev, srv, mute, seq, reqs, open, listeners, user>>

\* The caller's device may have gone since it was read.
Enter(c, l) ==
    /\ call[c] = NoCall
    /\ srv[l] \in {"activated", "serving", "ended"}
    /\ seq' = [seq EXCEPT ![l] = @ + 1]
    /\ tags' = [tags EXCEPT ![l][seq[l] + 1] = {c}]
    /\ call' = Takes(c, l, seq[l] + 1)
    /\ UNCHANGED <<made, dev, srv, mute, reqs, open, listeners, user>>

Goes(c, at) == call' = [call EXCEPT ![c].at = at]
Sends(c, op) ==
    LET l == call[c].link
    IN  reqs' = IF srv[l] = "ended" THEN reqs
                ELSE [reqs EXCEPT ![l] = Append(@, [op |-> op, tag |-> call[c].tag])]

\* A mutant: the tag deleted is the last one given out.
DeletesLatest(c) ==
    tags' = [tags EXCEPT ![call[c].link][seq[call[c].link]] = {}]

Deletes(c) == tags' = [tags EXCEPT ![call[c].link][call[c].tag] = {}]

\* SendRequest waits for the answer of the one before.
Send(c) ==
    /\ call[c].at = "entered"
    /\ \A d \in Calls : call[d].at \in {"sent", "replied", "refused"}
                          => call[d].link # call[c].link
    /\ Sends(c, "bind")
    /\ Goes(c, "sent")
    /\ UNCHANGED <<made, dev, srv, mute, seq, tags, open, listeners, user>>

BindReturns(c) ==
    /\ call[c].at = "replied" /\ call[c].link \notin mute
    /\ srv[call[c].link] # "ended"
    /\ Goes(c, "bound")
    /\ UNCHANGED <<made, dev, srv, mute, seq, tags, reqs, open, listeners, user>>

BindFails(c) ==
    /\ \/ call[c].at = "refused"
       \/ call[c].at \in {"sent", "replied"} /\ srv[call[c].link] = "ended"
    /\ Deletes(c)
    /\ Goes(c, "failed")
    /\ UNCHANGED <<made, dev, srv, mute, seq, reqs, open, listeners, user>>

\* A mutant: the closer tells the device nothing.
UnbindQuietly(c) ==
    /\ call[c].at = "bound"
    /\ Goes(c, "closing")
    /\ UNCHANGED <<made, dev, srv, mute, seq, tags, reqs, open, listeners, user>>

\* The closer sends the unbind without waiting, then deletes the tag.
Unbind(c) ==
    /\ call[c].at = "bound"
    /\ Sends(c, "unbind")
    /\ Goes(c, "closing")
    /\ UNCHANGED <<made, dev, srv, mute, seq, tags, open, listeners, user>>

Forget(c) ==
    /\ call[c].at = "closing"
    /\ Deletes(c)
    /\ Goes(c, "closed")
    /\ UNCHANGED <<made, dev, srv, mute, seq, reqs, open, listeners, user>>

-----------------------------------------------------------------------------
(* serveRequests: one request after the other, noticed end or not.         *)

Handles(op, t) ==
    /\ dev = "up" /\ reqs[made] # <<>>
    /\ Head(reqs[made]) = [op |-> op, tag |-> t]
    /\ reqs' = [reqs EXCEPT ![made] = Tail(@)]

\* Whose bind it is that came with tag t; it may have failed meanwhile.
Caller(t) == CHOOSE c \in Calls : call[c].link = made /\ call[c].tag = t

Answers(t, with) ==
    call' = IF call[Caller(t)].at # "sent" THEN call
            ELSE [call EXCEPT ![Caller(t)].at = with]

HandleBind(t) ==
    LET ln == <<made, t, Caller(t)>> IN
    /\ Handles("bind", t)
    /\ open' = open \cup {ln}
    /\ listeners' = [listeners EXCEPT ![t] = {ln}]
    /\ Answers(t, "replied")
    /\ UNCHANGED <<made, dev, srv, mute, seq, tags, user>>

\* The port is taken, and the bind strict.
RefuseBind(t) ==
    /\ Handles("bind", t)
    /\ Answers(t, "refused")
    /\ UNCHANGED <<made, dev, srv, mute, seq, tags, open, listeners, user>>

HandleUnbind(t) ==
    /\ Handles("unbind", t)
    /\ open' = open \ listeners[t]
    /\ listeners' = [listeners EXCEPT ![t] = {}]
    /\ UNCHANGED <<made, dev, srv, mute, seq, tags, call, user>>

-----------------------------------------------------------------------------
(* A connection at a listener: acceptForward, then handleChannels.         *)

Accept(u, ln) ==
    /\ user[u].at = "idle"
    /\ user' = [user EXCEPT ![u] = [at |-> "opening", ln |-> ln, to |-> {}]]
    /\ UNCHANGED <<made, dev, srv, mute, seq, tags, reqs, call, open, listeners>>

\* dialer(tag): bridged to the call's port, or rejected.
HandleChannel(u) ==
    LET l == user[u].ln[1]
        dial == tags[l][user[u].ln[2]]
    IN
    /\ user[u].at = "opening" /\ srv[l] # "ended"
    /\ user' = [user EXCEPT ![u].at = IF dial = {} THEN "rejected" ELSE "bridged",
                            ![u].to = dial]
    /\ UNCHANGED <<made, dev, srv, mute, seq, tags, reqs, call, open, listeners>>

\* The channel does not open: its connection has ended at one side.
ChannelFails(u) ==
    /\ user[u].at = "opening" /\ ~Carries(user[u].ln[1])
    /\ user' = [user EXCEPT ![u].at = "closed"]
    /\ UNCHANGED <<made, dev, srv, mute, seq, tags, reqs, call, open, listeners>>

-----------------------------------------------------------------------------
\* Nothing gets through any more: a machine sleeps, a network is gone.
GoesMute ==
    /\ Carries(made)
    /\ mute' = mute \cup {made}
    /\ UNCHANGED <<made, dev, srv, seq, tags, reqs, call, open, listeners, user>>

BackendStep(l) == Activate(l) \/ AnswerHello(l) \/ BackendEnds(l)
CallStep(c) == Send(c) \/ BindReturns(c) \/ BindFails(c) \/ Forget(c)
DeviceStep ==
    \/ Connect \/ DeviceEnds
    \/ \E t \in Tags : HandleBind(t) \/ RefuseBind(t) \/ HandleUnbind(t)

Next ==
    \/ DeviceStep \/ GoesMute
    \/ \E l \in Links : BackendStep(l)
    \/ \E c \in Calls : CallStep(c) \/ Unbind(c) \/ \E l \in Links : Enter(c, l)
    \/ \E u \in Users :
        \/ HandleChannel(u) \/ ChannelFails(u)
        \/ \E ln \in open : Accept(u, ln)

\* Go runs every goroutine; what is mute is ended by keepalive at both ends,
\* and before the hello is answered by that of TCP.
Fairness ==
    /\ WF_vars(DeviceStep)
    /\ \A l \in Links : WF_vars(BackendStep(l))
    /\ \A c \in Calls : WF_vars(CallStep(c))

Spec == Init /\ [][Next]_vars /\ Fairness

-----------------------------------------------------------------------------
TypeOK ==
    /\ made \in 0..MaxLinks
    /\ dev \in {"down", "hello", "up"}
    /\ srv \in [Links -> {"none", "hello", "activated", "serving", "ended"}]
    /\ mute \in SUBSET Links
    /\ seq \in [Links -> 0..Cardinality(Calls)]
    /\ tags \in [Links -> [Tags -> SUBSET Calls]]
    /\ reqs \in [Links -> Seq([op : {"bind", "unbind"}, tag : Tags])]
    /\ call \in [Calls -> [at : {"idle", "entered", "sent", "replied", "refused", "bound",
                                 "closing", "closed", "failed"},
                           link : 0..MaxLinks, tag : 0..Cardinality(Calls)]]
    /\ open \in SUBSET Listener
    /\ listeners \in [Tags -> SUBSET Listener]
    /\ user \in [Users -> [at : {"idle", "opening", "bridged", "rejected", "closed"},
                           ln : Listener \cup {<<>>}, to : SUBSET Calls]]

(* A connection at a forward's listener reaches the port of that forward    *)
(* and no other, whatever was unbound, bound again or reconnected while its *)
(* channel was under way (devicelink.go Forward's tags, dialer,             *)
(* handleChannels; deviceclient.go acceptForward).                          *)
RightPort == \A u \in Users : user[u].at = "bridged" => user[u].to = {user[u].ln[3]}

(* A device never holds a listener it has lost sight of: every open one is  *)
(* in its map, and is of the connection it has, though tags begin again     *)
(* with every connection (deviceclient.go handleBind, closeAll,             *)
(* connectOnce).                                                            *)
NoStrayListener ==
    /\ \A ln \in open : ln \in listeners[ln[2]] /\ ln[1] = made
    /\ dev = "down" => open = {}

(* No connection at a listener is rejected while its forward is in use:     *)
(* the tag is known before the listener is bound (devicelink.go Forward,    *)
(* handleChannels).                                                         *)
NotTurnedAway ==
    [][\A u \in Users :
          user[u].at = "opening" /\ user'[u].at = "rejected"
            => call[user[u].ln[3]].at \in {"closed", "failed"}]_vars

(* A port that the backend has given up, on request or with the connection, *)
(* is free on the device in the end (devicelink.go closer; deviceclient.go  *)
(* unbind, closeAll).                                                       *)
PortsAreReleased ==
    \A c \in Calls :
        call[c].at \in {"closed", "failed"} ~> \A ln \in open : ln[3] # c

(* A device whose hello is under way is served or told: the ports bound as  *)
(* soon as it is active do not wait for the answer that it waits for        *)
(* (devicelink.go handleRequests, activate; coordinator.go rebindPorts).    *)
HelloIsAnswered == dev = "hello" ~> dev # "hello"
=============================================================================
