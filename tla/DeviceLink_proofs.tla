-------------------------- MODULE DeviceLink_proofs --------------------------
(***************************************************************************)
(* Proofs about the two SSH links of the coordinator, to devices            *)
(* (DeviceLink) and to workers (Relays).  For any number of calls,          *)
(* connections and links of the first: a connection at a forward's listener *)
(* is bridged to the port of that forward and no other, and is not turned   *)
(* away while the forward is in use; and a device never loses sight of a    *)
(* listener it holds.  Of the second, from "Relays" on: an entry of the map *)
(* is that of a relay which is served.                                      *)
(***************************************************************************)
EXTENDS DeviceLink, Relays, FiniteSetTheorems, TLAPS

Places == {"idle", "entered", "sent", "replied", "refused", "bound", "closing", "closed",
           "failed"}
Phases == {"idle", "opening", "bridged", "rejected", "closed"}
Message == [op : {"bind", "unbind"}, tag : Nat]

\* The types that the argument needs; that tags do not run out is not one.
Types ==
    /\ made \in 0..MaxLinks
    /\ dev # "down" => made # 0
    /\ seq \in [Links -> Nat]
    /\ tags \in [Links -> [Tags -> SUBSET Calls]]
    /\ reqs \in [Links -> Seq(Message)]
    /\ call \in [Calls -> [at : Places, link : 0..MaxLinks, tag : Nat]]
    /\ open \in SUBSET Listener
    /\ user \in [Users -> [at : Phases, ln : Listener \cup {<<>>}, to : SUBSET Calls]]

\* Tag t of connection l was given to call c.
Given(c, l, t) == call[c].link = l /\ call[c].tag = t

\* A tag is given out once.
Numbered ==
    \A c \in Calls : call[c].link # 0 =>
        /\ call[c].tag =< seq[call[c].link]
        /\ \A d \in Calls : Given(d, call[c].link, call[c].tag) => d = c

TagsKnown == \A l \in Links, t \in Tags : \A c \in tags[l][t] : Given(c, l, t)
ReqsKnown == \A l \in Links : \A i \in 1..Len(reqs[l]) :
                \E c \in Calls : Given(c, l, reqs[l][i].tag)
ListenersKnown == \A ln \in open : Given(ln[3], ln[1], ln[2])
UsersKnown == \A u \in Users : user[u].at # "idle" =>
                user[u].ln \in Listener /\ Given(user[u].ln[3], user[u].ln[1], user[u].ln[2])

IInv == Types /\ Numbered /\ TagsKnown /\ ReqsKnown /\ ListenersKnown /\ UsersKnown
        /\ RightPort

-----------------------------------------------------------------------------
LEMMA InitInv == Init => IInv
  <1> SUFFICES ASSUME Init PROVE IInv
    OBVIOUS
  <1> USE DeviceLinkAssumption
  <1>1. NoCall \in [at : Places, link : 0..MaxLinks, tag : Nat]
    BY DEF NoCall, Places
  <1>2. NoUser \in [at : Phases, ln : Listener \cup {<<>>}, to : SUBSET Calls]
    BY DEF NoUser, Phases
  <1>3. seq \in [Links -> Nat] /\ reqs \in [Links -> Seq(Message)]
    BY DEF Init
  <1>4. tags \in [Links -> [Tags -> SUBSET Calls]]
    BY DEF Init
  <1>5. Types
    BY <1>1, <1>2, <1>3, <1>4 DEF Init, Types
  <1>6. Numbered /\ UsersKnown /\ RightPort
    BY DEF Init, Numbered, NoCall, UsersKnown, RightPort, NoUser
  <1>7. TagsKnown /\ ReqsKnown /\ ListenersKnown
    BY DEF Init, TagsKnown, ReqsKnown, ListenersKnown
  <1> QED BY <1>5, <1>6, <1>7 DEF IInv

\* Where a call is changes; which tag it was given does not.
LEMMA Goes_ ==
  ASSUME Types, NEW c \in Calls, NEW at \in Places, Goes(c, at)
  PROVE  /\ call' \in [Calls -> [at : Places, link : 0..MaxLinks, tag : Nat]]
         /\ \A d \in Calls : call'[d].link = call[d].link /\ call'[d].tag = call[d].tag
  BY DEF Types, Goes

\* What does not touch the tags given out keeps what is known about them.
LEMMA Keeps ==
  ASSUME IInv, Types',
         \A c \in Calls : call'[c].link = call[c].link /\ call'[c].tag = call[c].tag,
         UNCHANGED seq,
         \A l \in Links, t \in Tags : tags'[l][t] \subseteq tags[l][t],
         ReqsKnown', ListenersKnown', UNCHANGED user
  PROVE  IInv'
  <1>1. Numbered'
    BY DEF IInv, Types, Numbered, Given
  <1>2. TagsKnown'
    BY DEF IInv, Types, TagsKnown, Given
  <1>3. UsersKnown' /\ RightPort'
    BY DEF IInv, Types, UsersKnown, Given, RightPort, Listener
  <1> QED BY <1>1, <1>2, <1>3 DEF IInv

-----------------------------------------------------------------------------
(* The ends of the connections.                                            *)

LEMMA LinkStep ==
  ASSUME IInv, Connect \/ DeviceEnds \/ GoesMute \/ \E l \in Links : BackendStep(l)
  PROVE  IInv'
  <1> USE DeviceLinkAssumption
  <1>1. UNCHANGED <<seq, tags, call, user>>
    BY DEF Connect, DeviceEnds, GoesMute, BackendStep, Activate, AnswerHello, BackendEnds
  <1>2. open' \subseteq open
    BY DEF Connect, DeviceEnds, GoesMute, BackendStep, Activate, AnswerHello, BackendEnds
  <1>3. \A l \in Links : reqs'[l] = reqs[l] \/ reqs'[l] = <<>>
    BY DEF Connect, DeviceEnds, GoesMute, BackendStep, Activate, AnswerHello, BackendEnds,
           IInv, Types
  <1>4. reqs' \in [Links -> Seq(Message)]
    <2>1. UNCHANGED reqs \/ \E l \in Links : reqs' = [reqs EXCEPT ![l] = <<>>]
      BY DEF Connect, DeviceEnds, GoesMute, BackendStep, Activate, AnswerHello, BackendEnds
    <2>2. <<>> \in Seq(Message)
      OBVIOUS
    <2> QED BY <2>1, <2>2, Zenon DEF IInv, Types
  <1>5. made' \in 0..MaxLinks /\ (dev' # "down" => made' # 0)
    <2>1. CASE \E l \in Links : AnswerHello(l)
      BY <2>1 DEF AnswerHello, Carries, IInv, Types
    <2>2. CASE Connect
      BY <2>2 DEF Connect, IInv, Types
    <2> QED
      BY <2>1, <2>2 DEF DeviceEnds, GoesMute, BackendStep, Activate, BackendEnds, IInv, Types
  <1>6. Types'
    BY <1>1, <1>2, <1>4, <1>5 DEF IInv, Types
  <1>7. ReqsKnown'
    BY <1>1, <1>3 DEF IInv, ReqsKnown, Given
  <1>8. ListenersKnown'
    BY <1>1, <1>2 DEF IInv, ListenersKnown, Given
  <1> QED BY <1>1, <1>6, <1>7, <1>8, Keeps

-----------------------------------------------------------------------------
(* The calls.                                                              *)

LEMMA EnterStep ==
  ASSUME IInv, NEW c \in Calls, NEW l \in Links, Enter(c, l)
  PROVE  IInv'
  <1> USE DeviceLinkAssumption
  <1> DEFINE t == seq[l] + 1
             new == [at |-> "entered", link |-> l, tag |-> t]
  <1>1. t \in Nat /\ l \in 1..MaxLinks
    BY DEF IInv, Types, Links
  <1>2. call' = [call EXCEPT ![c] = new] /\ call[c].link = 0
    BY DEF Enter, Takes, NoCall
  <1>3. new \in [at : Places, link : 0..MaxLinks, tag : Nat]
    BY <1>1 DEF Places
  <1>4. \A d \in Calls : ~Given(d, l, t)
    <2> SUFFICES ASSUME NEW d \in Calls, call[d].link = l, call[d].tag = t PROVE FALSE
      BY DEF Given
    <2>1. call[d].tag =< seq[l]
      BY <1>1 DEF IInv, Numbered
    <2> QED BY <2>1 DEF IInv, Types
  <1>5. \A d \in Calls : d # c => call'[d] = call[d]
    BY <1>2 DEF IInv, Types
  <1>6. call'[c].link = l /\ call'[c].tag = t
    BY <1>2 DEF IInv, Types
  <1> HIDE DEF new
  <1>7. Types'
    <2>1. call' \in [Calls -> [at : Places, link : 0..MaxLinks, tag : Nat]]
      BY <1>2, <1>3 DEF IInv, Types
    <2>2. seq' \in [Links -> Nat] /\ tags' \in [Links -> [Tags -> SUBSET Calls]]
      BY <1>1 DEF Enter, IInv, Types
    <2> QED BY <2>1, <2>2 DEF Enter, IInv, Types
  <1>8. Numbered'
    <2> SUFFICES ASSUME NEW e \in Calls, call'[e].link # 0
                 PROVE  /\ call'[e].tag =< seq'[call'[e].link]
                        /\ \A d \in Calls :
                             call'[d].link = call'[e].link /\ call'[d].tag = call'[e].tag
                               => d = e
      BY DEF Numbered, Given
    <2>1. \A k \in Links : seq[k] =< seq'[k]
      BY DEF Enter, IInv, Types
    <2>2. seq'[l] = t
      BY DEF Enter, IInv, Types
    <2>3. CASE e = c
      BY <1>4, <1>5, <1>6, <2>2, <2>3, <1>1 DEF Given
    <2>4. CASE e # c
      <3>1. call'[e] = call[e] /\ call[e].link \in Links
        BY <1>5, <2>4 DEF IInv, Types, Links
      <3>2. call[e].tag =< seq[call[e].link]
        BY <3>1 DEF IInv, Numbered
      <3>3. call'[e].tag =< seq'[call'[e].link]
        BY <3>1, <3>2, <2>1 DEF Enter, IInv, Types
      <3>4. ASSUME NEW d \in Calls, call'[d].link = call'[e].link,
                   call'[d].tag = call'[e].tag
            PROVE  d = e
        <4>1. d # c
          BY <1>4, <1>6, <3>1, <3>4 DEF Given
        <4> QED BY <4>1, <1>5, <3>1, <3>4 DEF IInv, Numbered, Given
      <3> QED BY <3>3, <3>4
    <2> QED BY <2>3, <2>4
  <1>9. TagsKnown'
    <2> SUFFICES ASSUME NEW k \in Links, NEW s \in Tags, NEW d \in tags'[k][s]
                 PROVE  call'[d].link = k /\ call'[d].tag = s
      BY DEF TagsKnown, Given
    <2>1. CASE k = l /\ s = t
      BY <2>1, <1>6 DEF Enter, IInv, Types
    <2>2. CASE ~(k = l /\ s = t)
      <3>1. d \in tags[k][s]
        BY <2>2 DEF Enter, IInv, Types
      <3>2. d # c
        BY <3>1, <1>2 DEF IInv, TagsKnown, Given, Links
      <3> QED BY <3>1, <3>2, <1>5 DEF IInv, TagsKnown, Given, Types
    <2> QED BY <2>1, <2>2
  <1>10. \A d \in Calls, k \in Links : \A s : Given(d, k, s) => Given(d, k, s)'
    BY <1>2, <1>5 DEF Given, Links
  <1>11. ReqsKnown'
    BY <1>10 DEF Enter, IInv, ReqsKnown
  <1>12. ListenersKnown'
    BY <1>10 DEF Enter, IInv, ListenersKnown, Types, Listener
  <1>13. UsersKnown' /\ RightPort'
    BY <1>10 DEF Enter, IInv, UsersKnown, RightPort, Types, Listener
  <1> QED BY <1>7, <1>8, <1>9, <1>11, <1>12, <1>13 DEF IInv

\* A request for a call's own tag is known.
LEMMA SendsKnown ==
  ASSUME IInv, NEW c \in Calls, NEW op \in {"bind", "unbind"}, Sends(c, op)
  PROVE  /\ reqs' \in [Links -> Seq(Message)]
         /\ \A l \in Links : \A i \in 1..Len(reqs'[l]) :
              \E d \in Calls : Given(d, l, reqs'[l][i].tag)
  <1> DEFINE l == call[c].link
             m == [op |-> op, tag |-> call[c].tag]
  <1>1. m \in Message
    BY DEF IInv, Types, Message
  <1>2. reqs' = reqs \/ reqs' = [reqs EXCEPT ![l] = Append(@, m)]
    BY DEF Sends
  <1>3. Given(c, l, m.tag)
    BY DEF Given
  <1> HIDE DEF m
  <1>4. CASE reqs' = reqs
    BY <1>4 DEF IInv, Types, ReqsKnown
  <1>5. CASE reqs' = [reqs EXCEPT ![l] = Append(@, m)]
    <2>1. \A q \in Seq(Message) : Append(q, m) \in Seq(Message)
      BY <1>1
    <2>3. reqs' \in [Links -> Seq(Message)]
      BY <1>5, <2>1, Zenon DEF IInv, Types
    <2>2. ASSUME NEW k \in Links, NEW i \in 1..Len(reqs'[k])
          PROVE  \E d \in Calls : Given(d, k, reqs'[k][i].tag)
      <3>1. CASE k = l
        <4>1. reqs'[k] = Append(reqs[k], m) /\ reqs[k] \in Seq(Message)
          BY <1>5, <3>1 DEF IInv, Types
        <4>2. CASE i = Len(reqs[k]) + 1
          BY <4>1, <4>2, <1>3, <3>1
        <4>3. CASE i \in 1..Len(reqs[k])
          BY <4>1, <4>3 DEF IInv, ReqsKnown
        <4> QED BY <4>1, <4>2, <4>3
      <3>2. CASE k # l
        BY <1>5, <3>2 DEF IInv, Types, ReqsKnown
      <3> QED BY <3>1, <3>2
    <2> QED BY <2>2, <2>3
  <1> QED BY <1>2, <1>4, <1>5

LEMMA CallsStep ==
  ASSUME IInv, NEW c \in Calls, CallStep(c) \/ Unbind(c)
  PROVE  IInv'
  <1> USE DeviceLinkAssumption
  <1>1. PICK at \in Places : Goes(c, at)
    BY DEF CallStep, Unbind, Send, BindReturns, BindFails, Forget, Places
  <1>2. UNCHANGED <<made, dev, seq, open, user>>
    BY DEF CallStep, Unbind, Send, BindReturns, BindFails, Forget
  <1>3. /\ tags' \in [Links -> [Tags -> SUBSET Calls]]
        /\ \A l \in Links, t \in Tags : tags'[l][t] \subseteq tags[l][t]
    <2>1. UNCHANGED tags \/ Deletes(c)
      BY DEF CallStep, Unbind, Send, BindReturns, BindFails, Forget
    <2>2. CASE Deletes(c)
      <3> DEFINE a == call[c].link
                 b == call[c].tag
      <3>1. tags' = [tags EXCEPT ![a] = [tags[a] EXCEPT ![b] = {}]]
        BY <2>2 DEF Deletes
      <3> HIDE DEF a, b
      <3>2. \A l \in Links : [tags[l] EXCEPT ![b] = {}] \in [Tags -> SUBSET Calls]
        BY DEF IInv, Types
      <3>3. tags' \in [Links -> [Tags -> SUBSET Calls]]
        BY <3>1, <3>2 DEF IInv, Types
      <3>4. ASSUME NEW l \in Links, NEW t \in Tags PROVE tags'[l][t] \subseteq tags[l][t]
        <4>1. tags'[l] = tags[l] \/ tags'[l] = [tags[l] EXCEPT ![b] = {}]
          BY <3>1 DEF IInv, Types
        <4> QED BY <4>1 DEF IInv, Types
      <3> QED BY <3>3, <3>4
    <2> QED BY <2>1, <2>2 DEF IInv, Types
  <1>4. UNCHANGED reqs \/ \E op \in {"bind", "unbind"} : Sends(c, op)
    BY DEF CallStep, Unbind, Send, BindReturns, BindFails, Forget
  <1>5. /\ reqs' \in [Links -> Seq(Message)]
        /\ \A l \in Links : \A i \in 1..Len(reqs'[l]) :
             \E d \in Calls : Given(d, l, reqs'[l][i].tag)
    BY <1>4, SendsKnown DEF IInv, Types, ReqsKnown
  <1>6. /\ call' \in [Calls -> [at : Places, link : 0..MaxLinks, tag : Nat]]
        /\ \A d \in Calls : call'[d].link = call[d].link /\ call'[d].tag = call[d].tag
    BY <1>1, Goes_ DEF IInv
  <1>7. Types'
    BY <1>2, <1>3, <1>5, <1>6 DEF IInv, Types
  <1>8. ReqsKnown' /\ ListenersKnown'
    BY <1>2, <1>5, <1>6 DEF IInv, Types, ReqsKnown, ListenersKnown, Given, Listener
  <1> QED BY <1>2, <1>3, <1>6, <1>7, <1>8, Keeps

-----------------------------------------------------------------------------
(* The device's requests, and the connections at its listeners.            *)

LEMMA Known ==
  ASSUME IInv, NEW t \in Tags, dev = "up", reqs[made] # <<>>, Head(reqs[made]).tag = t
  PROVE  made \in Links /\ Caller(t) \in Calls /\ Given(Caller(t), made, t)
  <1>1. made \in Links
    BY DEF IInv, Types, Links
  <1>2. 1 \in 1..Len(reqs[made]) /\ reqs[made][1].tag = t
    BY <1>1 DEF IInv, Types
  <1>3. \E c \in Calls : call[c].link = made /\ call[c].tag = t
    BY <1>1, <1>2 DEF IInv, ReqsKnown, Given
  <1> QED BY <1>1, <1>3 DEF Caller, Given

LEMMA RequestStep ==
  ASSUME IInv, NEW t \in Tags, HandleBind(t) \/ RefuseBind(t) \/ HandleUnbind(t)
  PROVE  IInv'
  <1> USE DeviceLinkAssumption
  <1>1. PICK op \in {"bind", "unbind"} : Handles(op, t)
    BY DEF HandleBind, RefuseBind, HandleUnbind
  <1>2. made \in Links /\ Caller(t) \in Calls /\ Given(Caller(t), made, t)
    BY <1>1, Known DEF Handles
  <1>3. UNCHANGED <<made, dev, seq, tags, user>>
    BY DEF HandleBind, RefuseBind, HandleUnbind
  <1>4. UNCHANGED call \/ \E with \in Places : Goes(Caller(t), with)
    BY DEF HandleBind, RefuseBind, HandleUnbind, Answers, Goes, Places
  <1>5. /\ call' \in [Calls -> [at : Places, link : 0..MaxLinks, tag : Nat]]
        /\ \A d \in Calls : call'[d].link = call[d].link /\ call'[d].tag = call[d].tag
    BY <1>2, <1>4, Goes_ DEF IInv, Types
  <1>6. reqs' = [reqs EXCEPT ![made] = Tail(@)] /\ reqs[made] # <<>>
    BY <1>1 DEF Handles
  <1>7. Tail(reqs[made]) \in Seq(Message)
    BY <1>2, <1>6 DEF IInv, Types
  <1>8. reqs' \in [Links -> Seq(Message)]
    BY <1>6, <1>7 DEF IInv, Types
  <1>9. \A l \in Links : \A i \in 1..Len(reqs'[l]) :
          \E d \in Calls : Given(d, l, reqs'[l][i].tag)
    <2> SUFFICES ASSUME NEW l \in Links, NEW i \in 1..Len(reqs'[l])
                 PROVE  \E d \in Calls : Given(d, l, reqs'[l][i].tag)
      OBVIOUS
    <2>1. CASE l = made
      <3>1. reqs'[l] = Tail(reqs[l]) /\ reqs[l] \in Seq(Message) /\ reqs[l] # <<>>
        BY <1>6, <1>8, <2>1 DEF IInv, Types
      <3>2. i + 1 \in 1..Len(reqs[l]) /\ reqs'[l][i] = reqs[l][i + 1]
        BY <3>1
      <3> QED BY <3>2 DEF IInv, ReqsKnown
    <2>2. CASE l # made
      BY <1>6, <2>2 DEF IInv, Types, ReqsKnown
    <2> QED BY <2>1, <2>2
  <1>10. ReqsKnown'
    BY <1>5, <1>9 DEF ReqsKnown, Given
  <1>11. open' \subseteq open \cup {<<made, t, Caller(t)>>}
    BY DEF HandleBind, RefuseBind, HandleUnbind
  <1>12. <<made, t, Caller(t)>> \in Listener
    BY <1>2 DEF Listener
  <1>13. Types'
    BY <1>3, <1>5, <1>8, <1>11, <1>12 DEF IInv, Types
  <1>14. ListenersKnown'
    BY <1>2, <1>5, <1>11 DEF IInv, Types, ListenersKnown, Given, Listener
  <1> QED BY <1>3, <1>5, <1>10, <1>13, <1>14, Keeps

LEMMA UserStep ==
  ASSUME IInv, NEW u \in Users,
         HandleChannel(u) \/ ChannelFails(u) \/ \E ln \in open : Accept(u, ln)
  PROVE  IInv'
  <1> USE DEF IInv
  <1>1. UNCHANGED <<made, dev, seq, tags, reqs, call, open>>
    BY DEF HandleChannel, ChannelFails, Accept
  <1>2. Numbered' /\ TagsKnown' /\ ReqsKnown' /\ ListenersKnown'
    BY <1>1 DEF Numbered, TagsKnown, ReqsKnown, ListenersKnown, Given
  <1> DEFINE Good(v) ==
        /\ v \in [at : Phases, ln : Listener \cup {<<>>}, to : SUBSET Calls]
        /\ v.at # "idle" => v.ln \in Listener /\ Given(v.ln[3], v.ln[1], v.ln[2])
        /\ v.at = "bridged" => v.to = {v.ln[3]}
  <1>3. \E v : user' = [user EXCEPT ![u] = v] /\ Good(v)
    <2>1. ASSUME NEW ln \in open, Accept(u, ln) PROVE <1>3
      <3> DEFINE v == [at |-> "opening", ln |-> ln, to |-> {}]
      <3>1. user' = [user EXCEPT ![u] = v]
        BY <2>1, Zenon DEF Accept
      <3>2. Good(v)
        BY DEF Types, Phases, ListenersKnown
      <3> QED BY <3>1, <3>2
    <2>2. CASE ChannelFails(u)
      <3> DEFINE v == [user[u] EXCEPT !.at = "closed"]
      <3>1. user' = [user EXCEPT ![u] = v]
        BY <2>2 DEF ChannelFails
      <3>2. Good(v)
        BY <2>2 DEF ChannelFails, Types, Phases, UsersKnown
      <3> QED BY <3>1, <3>2
    <2>3. CASE HandleChannel(u)
      <3> DEFINE l == user[u].ln[1]
                 t == user[u].ln[2]
                 dial == tags[l][t]
                 v == [user[u] EXCEPT !.at = IF dial = {} THEN "rejected" ELSE "bridged",
                                      !.to = dial]
      <3>1. user' = [user EXCEPT ![u] = v]
        BY <2>3 DEF HandleChannel
      <3>2. user[u] \in [at : Phases, ln : Listener \cup {<<>>}, to : SUBSET Calls]
        BY DEF Types
      <3>3. /\ user[u].ln \in Listener /\ l \in Links /\ t \in Tags
            /\ user[u].ln[3] \in Calls
            /\ Given(user[u].ln[3], l, t)
        BY <2>3 DEF HandleChannel, UsersKnown, Listener
      <3>4. dial \in SUBSET Calls
        BY <3>3 DEF Types
      <3>5. \A c \in dial : c = user[u].ln[3]
        <4> SUFFICES ASSUME NEW c \in dial PROVE c = user[u].ln[3]
          OBVIOUS
        <4>1. c \in Calls /\ Given(c, l, t)
          BY <3>3, <3>4 DEF TagsKnown
        <4>2. call[c].link # 0
          BY <3>3, <4>1 DEF Given, Links
        <4> QED BY <3>3, <4>1, <4>2 DEF Numbered, Given
      <3>6. dial # {} => dial = {user[u].ln[3]}
        BY <3>5
      <3> HIDE DEF dial
      <3>7. /\ v.at = IF dial = {} THEN "rejected" ELSE "bridged"
            /\ v.ln = user[u].ln /\ v.to = dial
            /\ v \in [at : Phases, ln : Listener \cup {<<>>}, to : SUBSET Calls]
        BY <3>2, <3>4 DEF Phases
      <3>8. Good(v)
        BY <3>3, <3>6, <3>7
      <3> QED BY <3>1, <3>8
    <2> QED BY <2>1, <2>2, <2>3
  <1>4. PICK v : user' = [user EXCEPT ![u] = v] /\ Good(v)
    BY <1>3
  <1>5. Types'
    BY <1>1, <1>4 DEF Types
  <1>6. UsersKnown' /\ RightPort'
    BY <1>1, <1>4 DEF Types, UsersKnown, RightPort, Given
  <1> QED BY <1>2, <1>5, <1>6

-----------------------------------------------------------------------------
LEMMA Preserved == IInv /\ [Next]_vars => IInv'
  <1> SUFFICES ASSUME IInv, [Next]_vars PROVE IInv'
    OBVIOUS
  <1>1. CASE UNCHANGED vars
    <2>1. UNCHANGED <<made, dev, seq, tags, reqs, call, open, user>>
      BY <1>1 DEF vars
    <2>2. Types'
      BY <2>1 DEF IInv, Types
    <2>3. ReqsKnown' /\ ListenersKnown'
      BY <2>1 DEF IInv, ReqsKnown, ListenersKnown, Given
    <2> QED BY <2>1, <2>2, <2>3, Keeps
  <1>2. CASE Next
    BY <1>2, LinkStep, EnterStep, CallsStep, RequestStep, UserStep DEF Next, DeviceStep
  <1> QED BY <1>1, <1>2

(* A connection at a forward's listener reaches the port of that forward,   *)
(* for all calls, connections and links (devicelink.go Forward,             *)
(* handleChannels; deviceclient.go handleBind, acceptForward).              *)
THEOREM ConnectionsReachTheirPort == Spec => []RightPort
  <1>1. IInv => RightPort
    BY DEF IInv
  <1> QED BY InitInv, Preserved, <1>1, PTL DEF Spec

-----------------------------------------------------------------------------
(* What the device keeps of its listeners.                                 *)

\* Every open listener is in the map, under its tag.
Tracked == listeners \in [Tags -> SUBSET Listener] /\ NoStrayListener

LEMMA TrackedStep == IInv /\ Tracked /\ [Next]_vars => Tracked'
  <1> SUFFICES ASSUME IInv, Tracked, [Next]_vars PROVE Tracked'
    OBVIOUS
  <1> USE DEF Tracked, NoStrayListener
  <1>0. open \in SUBSET Listener
    BY DEF IInv, Types
  <1>1. CASE Connect
    BY <1>1 DEF Connect
  <1>2. CASE DeviceEnds
    <2>1. open' = {}
      BY <1>0, <1>2 DEF DeviceEnds, Listener
    <2> QED BY <1>2, <2>1 DEF DeviceEnds
  <1>3. ASSUME NEW t \in Tags, HandleBind(t) PROVE Tracked'
    <2> DEFINE ln == <<made, t, Caller(t)>>
    <2>1. made \in Links /\ Caller(t) \in Calls /\ Given(Caller(t), made, t)
      BY <1>3, Known DEF HandleBind, Handles
    <2>2. ln \in Listener
      BY <2>1 DEF Listener
    <2>3. ASSUME NEW k \in open, k[2] = t PROVE k = ln
      <3>1. k \in Listener /\ Given(k[3], k[1], t) /\ k[1] = made
        BY <1>0, <2>3 DEF IInv, ListenersKnown
      <3>2. k[3] = Caller(t)
        BY <2>1, <3>1 DEF IInv, Numbered, Given, Listener, Links
      <3> QED BY <2>3, <3>1, <3>2 DEF Listener
    <2>4. /\ open' = open \cup {ln} /\ listeners' = [listeners EXCEPT ![t] = {ln}]
          /\ UNCHANGED <<made, dev>> /\ dev # "down"
      BY <1>3 DEF HandleBind, Handles
    <2>5. listeners' \in [Tags -> SUBSET Listener]
      BY <2>2, <2>4
    <2>6. ln[1] = made /\ ln[2] = t
      OBVIOUS
    <2>7. ASSUME NEW k \in open' PROVE k \in listeners'[k[2]] /\ k[1] = made'
      <3>1. CASE k = ln
        BY <2>4, <2>6, <3>1
      <3>2. CASE k # ln
        <4>1. k \in open /\ k[2] # t /\ k \in listeners[k[2]] /\ k[1] = made
          BY <2>3, <2>4, <2>7, <3>2
        <4>2. k[2] \in Tags
          BY <1>0, <4>1 DEF Listener
        <4> QED BY <2>4, <4>1, <4>2
      <3> QED BY <3>1, <3>2
    <2> QED BY <2>4, <2>5, <2>7
  <1>4. ASSUME NEW t \in Tags, HandleUnbind(t) PROVE Tracked'
    <2>1. /\ open' = open \ listeners[t] /\ listeners' = [listeners EXCEPT ![t] = {}]
          /\ UNCHANGED <<made, dev>>
      BY <1>4 DEF HandleUnbind
    <2>2. ASSUME NEW k \in open' PROVE k \in listeners'[k[2]] /\ k[1] = made'
      <3>1. k \in open /\ k[2] \in Tags /\ k[2] # t
        BY <1>0, <2>1, <2>2 DEF Listener
      <3> QED BY <2>1, <3>1
    <2> QED BY <2>1, <2>2
  <1>5. CASE \/ \E t \in Tags : RefuseBind(t)
             \/ GoesMute
             \/ \E l \in Links : BackendStep(l)
    <2>1. UNCHANGED <<made, open, listeners>> /\ (dev' = dev \/ dev' # "down")
      BY <1>5 DEF RefuseBind, GoesMute, BackendStep, Activate, AnswerHello, BackendEnds
    <2>2. dev = "down" => dev' = "down"
      BY <1>5 DEF RefuseBind, GoesMute, BackendStep, Activate, AnswerHello, BackendEnds, Carries
    <2> QED BY <2>1, <2>2
  <1>6. CASE \/ \E c \in Calls : CallStep(c) \/ Unbind(c) \/ \E l \in Links : Enter(c, l)
             \/ \E u \in Users :
                  HandleChannel(u) \/ ChannelFails(u) \/ \E ln \in open : Accept(u, ln)
             \/ UNCHANGED vars
    <2>1. UNCHANGED <<made, dev, open, listeners>>
      BY <1>6 DEF CallStep, Send, BindReturns, BindFails, Forget, Unbind, Enter, HandleChannel,
                  ChannelFails, Accept, vars
    <2> QED BY <2>1
  <1> QED BY <1>1, <1>2, <1>3, <1>4, <1>5, <1>6 DEF Next, DeviceStep

(* A device never loses sight of a listener it holds: every open one is in  *)
(* its map under the tag it was bound with, so that an unbind or closeAll   *)
(* closes it, and is of the connection the device has, for all calls and    *)
(* any number of connections (deviceclient.go handleBind, unbind, closeAll; *)
(* devicelink.go Forward).                                                  *)
THEOREM NoListenerIsLost == Spec => []NoStrayListener
  <1>1. Init => Tracked
    BY DEF Init, Tracked, NoStrayListener
  <1>2. Tracked => NoStrayListener
    BY DEF Tracked
  <1> QED BY InitInv, Preserved, TrackedStep, <1>1, <1>2, PTL DEF Spec

-----------------------------------------------------------------------------
(* Tags: how many are given out, and whose they are.                       *)

Of(l) == {c \in Calls : call[c].link = l}

\* A connection counts the calls that came for it; so there is a tag for each of them.
Counted == \A l \in Links : seq[l] = Cardinality(Of(l))

\* The tag of a call that has not ended is the call's.
InUse(c) == call[c].at \notin {"closed", "failed"}
Live == \A c \in Calls : call[c].link # 0 /\ InUse(c) => tags[call[c].link][call[c].tag] = {c}

LEMMA OfFinite ==
  ASSUME NEW l PROVE IsFiniteSet(Of(l)) /\ Cardinality(Of(l)) \in 0..Cardinality(Calls)
  <1>1. Of(l) \subseteq Calls
    BY DEF Of
  <1> QED BY <1>1, DeviceLinkAssumption, FS_Subset, FS_CardinalityType

\* The call that enters is one more.
LEMMA EnterCounts ==
  ASSUME IInv, Counted, NEW c \in Calls, NEW l \in Links, Enter(c, l)
  PROVE  seq[l] + 1 \in Tags /\ Counted'
  <1> DEFINE all == Of(l) \cup {c}
  <1>1. call[c].link = 0 /\ l # 0
    BY DEF Enter, NoCall, Links
  <1>2. c \notin Of(l) /\ all \subseteq Calls
    BY <1>1 DEF Of
  <1>3. Cardinality(all) = Cardinality(Of(l)) + 1
    BY <1>2, OfFinite, FS_AddElement
  <1>4. IsFiniteSet(all) /\ Cardinality(all) =< Cardinality(Calls)
    BY <1>2, DeviceLinkAssumption, FS_Subset
  <1>5. Cardinality(Calls) \in Nat /\ Cardinality(Of(l)) \in Nat
    BY DeviceLinkAssumption, OfFinite, FS_CardinalityType
  <1>6. seq[l] = Cardinality(Of(l))
    BY DEF Counted
  <1> HIDE DEF all
  <1>7. seq[l] + 1 \in Tags
    BY <1>3, <1>4, <1>5, <1>6 DEF Tags
  <1>8. call'[c].link = l /\ \A d \in Calls : d # c => call'[d] = call[d]
    BY DEF Enter, Takes, IInv, Types
  <1>9. Of(l)' = all
    BY <1>8 DEF Of, all
  <1>10. ASSUME NEW k \in Links, k # l PROVE Of(k)' = Of(k)
    BY <1>1, <1>8, <1>10 DEF Of, Links
  <1>11. seq'[l] = seq[l] + 1 /\ \A k \in Links : k # l => seq'[k] = seq[k]
    BY DEF Enter, IInv, Types
  <1>12. ASSUME NEW k \in Links PROVE seq'[k] = Cardinality(Of(k))'
    <2>1. CASE k = l
      BY <1>3, <1>6, <1>9, <1>11, <2>1
    <2>2. CASE k # l
      BY <1>10, <1>11, <2>2 DEF Counted
    <2> QED BY <2>1, <2>2
  <1> QED BY <1>7, <1>12 DEF Counted

\* Any other step of a call or a request takes no tag, and ends no call whose tag stays.
LEMMA OthersMove ==
  ASSUME IInv, [Next]_vars, \A c \in Calls, l \in Links : ~Enter(c, l)
  PROVE  /\ UNCHANGED seq
         /\ \A d \in Calls : call'[d].link = call[d].link /\ call'[d].tag = call[d].tag
         /\ \A d \in Calls : InUse(d)' => InUse(d)
         /\ \/ UNCHANGED tags
            \/ \E c \in Calls : Deletes(c) /\ ~InUse(c)'
  <1> DEFINE Moves ==
        /\ UNCHANGED seq
        /\ \A d \in Calls : call'[d].link = call[d].link /\ call'[d].tag = call[d].tag
        /\ \A d \in Calls : InUse(d)' => InUse(d)
        /\ \/ UNCHANGED tags
           \/ \E c \in Calls : Deletes(c) /\ ~InUse(c)'
  <1>1. ASSUME UNCHANGED <<seq, tags, call>> PROVE Moves
    BY <1>1 DEF InUse
  <1>2. ASSUME NEW c \in Calls, NEW at \in Places, Goes(c, at), InUse(c), UNCHANGED seq,
               UNCHANGED tags \/ (Deletes(c) /\ at \in {"closed", "failed"})
        PROVE  Moves
    <2>1. \A d \in Calls : call'[d].link = call[d].link /\ call'[d].tag = call[d].tag
      BY <1>2, Goes_ DEF IInv
    <2>2. call'[c].at = at /\ \A d \in Calls : d # c => call'[d] = call[d]
      BY <1>2 DEF Goes, IInv, Types
    <2> QED BY <1>2, <2>1, <2>2 DEF InUse
  <1>3. ASSUME NEW c \in Calls, CallStep(c) \/ Unbind(c) PROVE Moves
    <2> USE DEF Places, InUse
    <2>1. CASE Send(c)
      BY <1>2, <2>1 DEF Send
    <2>2. CASE BindReturns(c)
      BY <1>2, <2>2 DEF BindReturns
    <2>3. CASE BindFails(c)
      BY <1>2, <2>3 DEF BindFails
    <2>4. CASE Forget(c)
      BY <1>2, <2>4 DEF Forget
    <2>5. CASE Unbind(c)
      BY <1>2, <2>5 DEF Unbind
    <2> QED BY <1>3, <2>1, <2>2, <2>3, <2>4, <2>5 DEF CallStep
  <1>4. ASSUME NEW t \in Tags, HandleBind(t) \/ RefuseBind(t) \/ HandleUnbind(t) PROVE Moves
    <2>1. UNCHANGED <<seq, tags>>
      BY <1>4 DEF HandleBind, RefuseBind, HandleUnbind
    <2>2. dev = "up" /\ reqs[made] # <<>> /\ Head(reqs[made]).tag = t
      BY <1>4 DEF HandleBind, RefuseBind, HandleUnbind, Handles
    <2>3. Caller(t) \in Calls
      BY <2>2, Known
    <2>4. CASE UNCHANGED call
      BY <1>1, <2>1, <2>4
    <2>5. CASE \E with \in Places : call[Caller(t)].at = "sent" /\ Goes(Caller(t), with)
      BY <1>2, <2>1, <2>3, <2>5 DEF InUse
    <2>6. UNCHANGED call \/ \E with \in Places : call[Caller(t)].at = "sent" /\ Goes(Caller(t), with)
      BY <1>4 DEF HandleBind, RefuseBind, HandleUnbind, Answers, Goes, Places
    <2> QED BY <2>4, <2>5, <2>6
  <1>5. CASE \/ Connect \/ DeviceEnds \/ GoesMute
             \/ \E l \in Links : BackendStep(l)
             \/ \E u \in Users :
                  HandleChannel(u) \/ ChannelFails(u) \/ \E ln \in open : Accept(u, ln)
             \/ UNCHANGED vars
    <2>1. UNCHANGED <<seq, tags, call>>
      BY <1>5 DEF Connect, DeviceEnds, GoesMute, BackendStep, Activate, AnswerHello, BackendEnds,
                  HandleChannel, ChannelFails, Accept, vars
    <2> QED BY <1>1, <2>1
  <1>6. Moves
    BY <1>3, <1>4, <1>5 DEF Next, DeviceStep
  <1> QED BY <1>6

LEMMA CountedStep == IInv /\ Counted /\ [Next]_vars => Counted'
  <1> SUFFICES ASSUME IInv, Counted, [Next]_vars PROVE Counted'
    OBVIOUS
  <1>1. CASE \E c \in Calls, l \in Links : Enter(c, l)
    BY <1>1, EnterCounts
  <1>2. CASE \A c \in Calls, l \in Links : ~Enter(c, l)
    <2>1. UNCHANGED seq /\ \A l : Of(l)' = Of(l)
      BY <1>2, OthersMove DEF Of
    <2> QED BY <2>1 DEF Counted
  <1> QED BY <1>1, <1>2

LEMMA TagInRange ==
  ASSUME IInv, Counted, NEW c \in Calls, call[c].link # 0, call[c].tag # 0
  PROVE  call[c].link \in Links /\ call[c].tag \in Tags
  <1>1. call[c].link \in Links /\ call[c].tag \in Nat
    BY DEF IInv, Types, Links
  <1>2. call[c].tag =< seq[call[c].link]
    BY <1>1 DEF IInv, Numbered
  <1>3. seq[call[c].link] \in 0..Cardinality(Calls) /\ Cardinality(Calls) \in Nat
    BY <1>1, OfFinite, DeviceLinkAssumption, FS_CardinalityType DEF Counted
  <1> QED BY <1>1, <1>2, <1>3 DEF Tags

LEMMA LiveStep == IInv /\ Counted /\ Live /\ [Next]_vars => Live'
  <1> SUFFICES ASSUME IInv, Counted, Live, [Next]_vars,
                      NEW e \in Calls, call'[e].link # 0, InUse(e)'
               PROVE  tags'[call'[e].link][call'[e].tag] = {e}
    BY DEF Live
  <1>1. tags \in [Links -> [Tags -> SUBSET Calls]]
    BY DEF IInv, Types
  <1>2. ASSUME NEW c \in Calls, NEW l \in Links, Enter(c, l)
        PROVE  tags'[call'[e].link][call'[e].tag] = {e}
    <2> DEFINE t == seq[l] + 1
    <2>1. t \in Tags
      BY <1>2, EnterCounts
    <2>2. tags' = [tags EXCEPT ![l][t] = {c}]
      BY <1>2 DEF Enter
    <2>3. CASE e = c
      <3>1. call'[e].link = l /\ call'[e].tag = t
        BY <1>2, <2>3 DEF Enter, Takes, IInv, Types
      <3> QED BY <1>1, <2>1, <2>2, <2>3, <3>1
    <2>4. CASE e # c
      <3>1. call'[e] = call[e]
        BY <1>2, <2>4 DEF Enter, Takes, IInv, Types
      <3>2. tags[call[e].link][call[e].tag] = {e}
        BY <3>1 DEF Live, InUse
      <3>3. call[e].link \in Links /\ call[e].tag \in Nat /\ seq[call[e].link] \in Nat
        BY <3>1 DEF IInv, Types, Links
      <3>4. call[e].tag =< seq[call[e].link]
        BY <3>1 DEF IInv, Numbered
      <3>5. call[e].link # l \/ call[e].tag # t
        BY <3>3, <3>4
      <3> HIDE DEF t
      <3> QED BY <1>1, <2>2, <3>1, <3>2, <3>3, <3>5
    <2> QED BY <2>3, <2>4
  <1>3. CASE \A c \in Calls, l \in Links : ~Enter(c, l)
    <2>1. call'[e].link = call[e].link /\ call'[e].tag = call[e].tag /\ InUse(e)
      BY <1>3, OthersMove
    <2>2. tags[call[e].link][call[e].tag] = {e}
      BY <2>1 DEF Live
    <2>3. CASE UNCHANGED tags
      BY <2>1, <2>2, <2>3
    <2>4. ASSUME NEW c \in Calls, Deletes(c), ~InUse(c)'
          PROVE  tags'[call[e].link][call[e].tag] = {e}
      <3>1. c # e
        BY <2>4
      <3>2. ~Given(c, call[e].link, call[e].tag)
        BY <2>1, <3>1 DEF IInv, Numbered
      <3>3. call[c].link # call[e].link \/ call[c].tag # call[e].tag
        BY <3>2 DEF Given
      <3>4. call[e].link \in Links
        BY <2>1 DEF IInv, Types, Links
      <3> QED BY <1>1, <2>2, <2>4, <3>3, <3>4 DEF Deletes
    <2> QED BY <1>3, <2>1, <2>3, <2>4, OthersMove
  <1> QED BY <1>2, <1>3

(* No connection at a listener is rejected while its forward is in use: its *)
(* tag is known from before the listener is bound until the call has failed *)
(* or its closer has run (devicelink.go Forward, handleChannels).           *)
THEOREM ForwardsInUseAnswer == Spec => NotTurnedAway
  <1>1. Init => Counted /\ Live
    <2> SUFFICES ASSUME Init PROVE Counted /\ Live
      OBVIOUS
    <2>1. \A l \in Links : Of(l) = {}
      BY DEF Init, Of, NoCall, Links
    <2>2. Cardinality({}) = 0
      BY FS_EmptySet
    <2> QED BY <2>1, <2>2 DEF Init, Counted, Live, NoCall
  <1>2. ASSUME IInv, Live, [Next]_vars, NEW u \in Users,
               user[u].at = "opening", user'[u].at = "rejected"
        PROVE  call[user[u].ln[3]].at \in {"closed", "failed"}
    <2>1. HandleChannel(u)
      <3>1. ASSUME NEW v \in Users,
                   HandleChannel(v) \/ ChannelFails(v) \/ \E ln \in open : Accept(v, ln)
            PROVE  HandleChannel(u)
        BY <1>2, <3>1 DEF HandleChannel, ChannelFails, Accept, IInv, Types
      <3>2. CASE \/ DeviceStep \/ GoesMute
                 \/ \E l \in Links : BackendStep(l)
                 \/ \E c \in Calls : CallStep(c) \/ Unbind(c) \/ \E l \in Links : Enter(c, l)
                 \/ UNCHANGED vars
        <4>1. user' = user
          BY <3>2 DEF DeviceStep, Connect, DeviceEnds, HandleBind, RefuseBind, HandleUnbind,
                      GoesMute, BackendStep, Activate, AnswerHello, BackendEnds, CallStep, Send,
                      BindReturns, BindFails, Forget, Unbind, Enter, vars
        <4> QED BY <1>2, <4>1
      <3> QED BY <1>2, <3>1, <3>2 DEF Next
    <2> DEFINE c == user[u].ln[3]
    <2>2. /\ user[u].ln \in Listener /\ c \in Calls
          /\ call[c].link = user[u].ln[1] /\ call[c].tag = user[u].ln[2]
          /\ call[c].link # 0
      BY <1>2 DEF IInv, UsersKnown, Given, Listener, Links
    <2>3. tags[user[u].ln[1]][user[u].ln[2]] = {}
      BY <1>2, <2>1 DEF HandleChannel, IInv, Types
    <2> QED BY <1>2, <2>2, <2>3 DEF Live, InUse
  <1>3. IInv /\ Live /\ [Next]_vars =>
          [\A u \in Users :
             user[u].at = "opening" /\ user'[u].at = "rejected"
               => call[user[u].ln[3]].at \in {"closed", "failed"}]_vars
    BY <1>2
  <1> QED BY InitInv, Preserved, CountedStep, LiveStep, <1>1, <1>3, PTL DEF Spec, NotTurnedAway

-----------------------------------------------------------------------------
(* Relays: no step of a goroutine, an actor or docker leaves an entry       *)
(* whose goroutine does not accept.                                         *)

GoPlaces == {"idle", "check", "client", "dial", "listen", "insert", "lost", "accept", "forget"}
Ref == {"none", "live", "dead"}
GoType == [at : GoPlaces, w : Workers \cup {None}, fresh : BOOLEAN, ref : Ref, open : BOOLEAN]
ActPlaces == {"idle", "next", "client", "ping", "has", "close", "closing", "up", "docker", "rec"}
ActType == [at : ActPlaces, w : Workers \cup {None}, op : {"none", "start", "stop", "register"},
            ref : Ref, todo : SUBSET Workers, fresh : SUBSET Workers]
Status == {"running", "paused", "exited"}
Entry == [st : Status, fresh : BOOLEAN]

\* RelaysTypeOK, and that whoever is at work has a worker.
RelaysTyped ==
    /\ ctr \in [Workers -> Status]
    /\ ent \in [Workers -> Entry]
    /\ client \in [Workers -> {None, "live", "dead"}]
    /\ relay \in [Workers -> Gos \cup {None}]
    /\ owner \in [Workers -> Gos \cup {None}]
    /\ mu \in Gos \cup Actors \cup {None}
    /\ go \in [Gos -> GoType]
    /\ act \in [Actors -> ActType]
    /\ events \in 0..MaxEvents
    /\ \A g \in Gos : go[g].at # "idle" => go[g].w \in Workers
    /\ \A a \in Actors : act[a].at \notin {"idle", "next"} => act[a].w \in Workers

LEMMA RelaysTypedIs == RelaysTyped => RelaysTypeOK
  BY Zenon DEF RelaysTyped, RelaysTypeOK, GoType, GoPlaces, Ref, ActType, ActPlaces, Status, Entry

\* Where a goroutine of w stands while its entry is in the map.
Serves(f, g, w) == f[g].w = w /\ f[g].at \in {"accept", "forget"}

Idled ==
    /\ Idle \in GoType /\ Resting \in ActType
    /\ Idle.at = "idle" /\ Resting.at = "idle"

LEMMA IdleTyped == Idled
  BY DEF Idled, Idle, Resting, GoType, GoPlaces, Ref, ActType, ActPlaces

\* Whatever is lost under the goroutines, they stay where they are.
SameGos(f) ==
    /\ f \in [Gos -> GoType]
    /\ \A g \in Gos : f[g].at = go[g].at /\ f[g].w = go[g].w

LEMMA DeadTyped == \A r \in Ref : Dead(r) \in Ref
  BY DEF Dead, Ref

LEMMA CutSame == ASSUME RelaysTyped, NEW w PROVE SameGos(Cut(go, w))
<1> SUFFICES ASSUME NEW g \in Gos
    PROVE  /\ Cut(go, w)[g] \in GoType
           /\ Cut(go, w)[g].at = go[g].at /\ Cut(go, w)[g].w = go[g].w
  BY DEF SameGos, Cut
<1>1. go[g] \in GoType
  BY DEF RelaysTyped
<1>2. \A x \in GoType, r \in Ref :
         LET y == [x EXCEPT !.ref = r, !.open = FALSE]
         IN  y \in GoType /\ y.at = x.at /\ y.w = x.w
  BY DEF GoType
<1>3. go[g].ref \in Ref
  BY <1>1 DEF GoType
<1>4. [go[g] EXCEPT !.ref = Dead(@), !.open = FALSE]
         = [go[g] EXCEPT !.ref = Dead(go[g].ref), !.open = FALSE]
  BY <1>1 DEF GoType
<1> QED
  BY <1>1, <1>2, <1>3, <1>4, DeadTyped DEF Cut

LEMMA MovedSame == ASSUME RelaysTyped, NEW w PROVE SameGos(Moved(go, w))
<1> SUFFICES ASSUME NEW g \in Gos
    PROVE  /\ Moved(go, w)[g] \in GoType
           /\ Moved(go, w)[g].at = go[g].at /\ Moved(go, w)[g].w = go[g].w
  BY DEF SameGos, Moved
<1>1. go[g] \in GoType
  BY DEF RelaysTyped
<1>2. \A x \in GoType :
         LET y == [x EXCEPT !.fresh = FALSE]
         IN  y \in GoType /\ y.at = x.at /\ y.w = x.w
  BY DEF GoType
<1> QED
  BY <1>1, <1>2 DEF Moved

LEMMA CancelledSame == ASSUME RelaysTyped, NEW w PROVE SameGos(Cancelled(go, w))
<1> SUFFICES ASSUME NEW g \in Gos
    PROVE  /\ Cancelled(go, w)[g] \in GoType
           /\ Cancelled(go, w)[g].at = go[g].at /\ Cancelled(go, w)[g].w = go[g].w
  BY DEF SameGos, Cancelled
<1>1. go[g] \in GoType
  BY DEF RelaysTyped
<1>2. \A x \in GoType :
         LET y == [x EXCEPT !.open = FALSE]
         IN  y \in GoType /\ y.at = x.at /\ y.w = x.w
  BY DEF GoType
<1> QED
  BY <1>1, <1>2 DEF Cancelled

\* An actor keeps its place when a connection is cut.
SameActs(f) ==
    /\ f \in [Actors -> ActType]
    /\ \A a \in Actors : f[a].at = act[a].at /\ f[a].w = act[a].w

LEMMA CutActSame == ASSUME RelaysTyped, NEW w PROVE SameActs(CutAct(act, w))
<1> SUFFICES ASSUME NEW a \in Actors
    PROVE  /\ CutAct(act, w)[a] \in ActType
           /\ CutAct(act, w)[a].at = act[a].at /\ CutAct(act, w)[a].w = act[a].w
  BY DEF SameActs, CutAct
<1>1. act[a] \in ActType
  BY DEF RelaysTyped
<1>2. \A x \in ActType, r \in Ref :
         LET y == [x EXCEPT !.ref = r]
         IN  y \in ActType /\ y.at = x.at /\ y.w = x.w
  BY DEF ActType
<1>3. act[a].ref \in Ref
  BY <1>1 DEF ActType
<1>4. [act[a] EXCEPT !.ref = Dead(@)] = [act[a] EXCEPT !.ref = Dead(act[a].ref)]
  BY <1>1 DEF ActType
<1> QED
  BY <1>1, <1>2, <1>3, <1>4, DeadTyped DEF CutAct

LEMMA ActAfterSame ==
  ASSUME RelaysTyped, NEW w \in Workers, NEW to
  PROVE  SameActs(ActAfter(act, w, to))
<1>1. act \in [Actors -> ActType] /\ Ticker \in Actors
  BY DEF RelaysTyped, Actors
<1>2. \A x \in ActType, s \in SUBSET Workers :
         LET y == [x EXCEPT !.fresh = s]
         IN  y \in ActType /\ y.at = x.at /\ y.w = x.w
  BY DEF ActType
<1>3. act[Ticker].fresh \ {w} \in SUBSET Workers
  BY <1>1 DEF ActType
<1>4. [act EXCEPT ![Ticker].fresh = @ \ {w}]
         = [act EXCEPT ![Ticker] = [act[Ticker] EXCEPT !.fresh = act[Ticker].fresh \ {w}]]
  BY <1>1 DEF ActType
<1>5. SameActs([act EXCEPT ![Ticker].fresh = @ \ {w}])
  BY <1>1, <1>2, <1>3, <1>4 DEF SameActs
<1>6. SameActs(act)
  BY <1>1 DEF SameActs
<1> QED
  BY <1>5, <1>6, CutActSame DEF ActAfter

\* What docker does to a container leaves every goroutine where it is.
LEMMA DockerSame ==
  ASSUME RelaysTyped, NEW w \in Workers, NEW to \in Status, Docker(w, to)
  PROVE  /\ SameGos(go') /\ ctr' \in [Workers -> Status] /\ ent' \in [Workers -> Entry]
         /\ client' \in [Workers -> {None, "live", "dead"}]
         /\ owner' \in [Workers -> Gos \cup {None}]
<1>1. SameGos(go)
  BY DEF SameGos, RelaysTyped
<1>2. SameGos(go')
  BY <1>1, CutSame, MovedSame DEF Docker
<1>3. [ent EXCEPT ![w].fresh = FALSE] \in [Workers -> Entry]
  BY DEF RelaysTyped, Entry
<1> QED
  BY <1>2, <1>3 DEF Docker, RelaysTyped

\* RelayIsServed: an entry's goroutine is that worker's, and accepts or is about to leave.
Served == \A w \in Workers : relay[w] # None => Serves(go, relay[w], w)

LEMMA ServedIs == Served <=> RelayIsServed
  BY DEF Served, Serves, RelayIsServed

\* No entry is touched by a goroutine that has none, nor by what leaves all in their places.
LEMMA OneMoves ==
  ASSUME RelaysTyped, Served, NEW g \in Gos, NEW x \in GoType, go' = [go EXCEPT ![g] = x],
         go[g].at \notin {"accept", "forget"} \/ Serves(go', g, go[g].w), UNCHANGED relay
  PROVE  Served'
<1>1. \A w \in Workers : relay[w] \in Gos \cup {None}
  BY DEF RelaysTyped
<1>2. \A w \in Workers : relay[w] # None => go'[relay[w]] = IF relay[w] = g THEN x ELSE go[relay[w]]
  BY <1>1 DEF RelaysTyped
<1> QED
  BY <1>1, <1>2 DEF Served, Serves

LEMMA SameServed ==
  ASSUME RelaysTyped, Served, SameGos(go'), UNCHANGED relay
  PROVE  Served'
<1>1. \A w \in Workers : relay[w] \in Gos \cup {None}
  BY DEF RelaysTyped
<1> QED
  BY <1>1 DEF Served, Serves, SameGos

\* A goroutine's steps: it stays at its worker until it ends.
LEMMA GoFields ==
  ASSUME NEW x \in GoType, NEW at \in GoPlaces, NEW b \in BOOLEAN
  PROVE  /\ [x EXCEPT !.at = at] \in GoType
         /\ [x EXCEPT !.at = at].at = at /\ [x EXCEPT !.at = at].w = x.w
         /\ [x EXCEPT !.open = b] \in GoType
         /\ [x EXCEPT !.open = b].at = x.at /\ [x EXCEPT !.open = b].w = x.w
         /\ [x EXCEPT !.at = at, !.open = b] \in GoType
         /\ [x EXCEPT !.at = at, !.open = b].at = at /\ [x EXCEPT !.at = at, !.open = b].w = x.w
  BY DEF GoType

LEMMA ListeningTyped ==
  ASSUME NEW w \in Workers, NEW r \in Ref
  PROVE  Listening(w, r) \in GoType /\ Listening(w, r).at = "listen" /\ Listening(w, r).w = w
  BY DEF Listening, Idle, GoType, GoPlaces, Ref

\* What a step of g may leave of go, relay and what goes with them.
Kept(g) ==
    /\ ctr' = ctr /\ ent' = ent /\ act' = act /\ events' = events
    /\ client' \in [Workers -> {None, "live", "dead"}]
    /\ owner' \in [Workers -> Gos \cup {None}]
    /\ mu' \in Gos \cup Actors \cup {None}

LEMMA GoMoves ==
  ASSUME RelaysTyped, Served, NEW g \in Gos, NEW x \in GoType, go' = [go EXCEPT ![g] = x],
         x.at # "idle" => x.w \in Workers, Kept(g), UNCHANGED relay,
         go[g].at \notin {"accept", "forget"} \/ Serves(go', g, go[g].w)
  PROVE  RelaysTyped' /\ Served'
<1>1. Served'
  BY OneMoves
<1>2. go' \in [Gos -> GoType] /\ \A h \in Gos : go'[h].at # "idle" => go'[h].w \in Workers
  BY DEF RelaysTyped
<1>3. \A a \in Actors : act'[a].at \notin {"idle", "next"} => act'[a].w \in Workers
  BY DEF Kept, RelaysTyped
<1> QED
  BY <1>1, <1>2, <1>3 DEF RelaysTyped, Kept

LEMMA GoStepServed ==
  ASSUME RelaysTyped, Served, NEW g \in Gos, GoStep(g)
  PROVE  RelaysTyped' /\ Served'
<1> DEFINE w == go[g].w
<1>a. /\ go \in [Gos -> GoType] /\ go[g] \in GoType
      /\ go[g].at # "idle" => w \in Workers
      /\ \A at \in GoPlaces : [go EXCEPT ![g].at = at] = [go EXCEPT ![g] = [go[g] EXCEPT !.at = at]]
  BY DEF RelaysTyped, GoType
<1>b. Idle \in GoType /\ Idle.at = "idle" /\ None \notin Gos
  BY IdleTyped, RelaysAssumption DEF Idled
<1>c. \A at \in GoPlaces : [go[g] EXCEPT !.at = at] \in GoType
         /\ [go[g] EXCEPT !.at = at].at = at /\ [go[g] EXCEPT !.at = at].w = w
  BY <1>a, GoFields DEF Ref
<1>d. /\ client \in [Workers -> {None, "live", "dead"}] /\ owner \in [Workers -> Gos \cup {None}]
      /\ mu \in Gos \cup Actors \cup {None}
  BY DEF RelaysTyped
<1>1. CASE Check(g)
  <2>1. CASE relay[w] # None
    BY <1>1, <1>a, <1>b, <1>d, <2>1, GoMoves DEF Check, Ends, Kept
  <2>2. CASE relay[w] = None
    <3>1. "client" \in GoPlaces
      BY DEF GoPlaces
    <3> QED
      BY <1>1, <1>a, <1>c, <1>d, <2>2, <3>1, GoMoves DEF Check, Step, Kept
  <2> QED
    BY <2>1, <2>2
<1>2. CASE Client(g)
  <2>0. w \in Workers
    BY <1>2, <1>a DEF Client
  <2>1. CASE client[w] # None
    <3>1. client[w] \in Ref
      BY <1>d, <2>0, <2>1 DEF Ref
    <3>2. go' = [go EXCEPT ![g] = Listening(w, client[w])]
      BY <1>2, <2>1 DEF Client
    <3>3. Kept(g) /\ UNCHANGED relay /\ go[g].at = "client"
      BY <1>2, <1>d, <2>1 DEF Client, Kept
    <3> QED
      BY <2>0, <3>1, <3>2, <3>3, ListeningTyped, GoMoves
  <2>2. CASE client[w] = None
    <3>1. "dial" \in GoPlaces
      BY DEF GoPlaces
    <3> QED
      BY <1>2, <1>a, <1>c, <1>d, <2>0, <2>2, <3>1, GoMoves DEF Client, Step, Kept
  <2> QED
    BY <2>1, <2>2
<1>3. CASE Dial(g)
  <2>0. w \in Workers /\ go[g].at = "dial"
    BY <1>3, <1>a DEF Dial
  <2>1. CASE client' = [client EXCEPT ![w] = "live"] /\ go' = [go EXCEPT ![g] = Listening(w, "live")]
    <3>1. "live" \in Ref
      BY DEF Ref
    <3>2. client' \in [Workers -> {None, "live", "dead"}]
      BY <1>d, <2>1
    <3>3. Kept(g) /\ UNCHANGED relay
      BY <1>3, <1>d, <3>2 DEF Dial, Kept
    <3> QED
      BY <2>0, <2>1, <3>1, <3>3, ListeningTyped, GoMoves
  <2>2. CASE Ends(g) /\ UNCHANGED client
    <3>1. Kept(g) /\ UNCHANGED relay
      BY <1>3, <1>d, <2>2 DEF Dial, Kept
    <3> QED
      BY <1>b, <2>0, <2>2, <3>1, GoMoves DEF Ends
  <2> QED
    BY <1>3, <2>1, <2>2 DEF Dial
<1>4. CASE Listen(g)
  <2>0. w \in Workers /\ go[g].at = "listen" /\ UNCHANGED relay
    BY <1>4, <1>a DEF Listen
  <2>1. CASE go[g].ref = "live"
    <3>1. go' = [go EXCEPT ![g] = [go[g] EXCEPT !.at = "insert", !.open = TRUE]]
      BY <1>4, <1>a, <2>1 DEF Listen, GoType
    <3>2. Kept(g)
      BY <1>4, <1>d, <2>1 DEF Listen, Kept
    <3>3. "insert" \in GoPlaces
      BY DEF GoPlaces
    <3>4. LET x == [go[g] EXCEPT !.at = "insert", !.open = TRUE]
          IN  x \in GoType /\ x.w = w
      BY <1>a, <3>3, GoFields DEF Ref
    <3> QED
      BY <2>0, <3>1, <3>2, <3>4, GoMoves
  <2>2. CASE go[g].ref # "live"
    <3>1. Kept(g)
      BY <1>4, <1>d, <2>2 DEF Listen, Kept
    <3> QED
      BY <1>4, <1>b, <2>0, <2>2, <3>1, GoMoves DEF Listen, Ends
  <2> QED
    BY <2>1, <2>2
<1>5. CASE Insert(g)
  <2>0. w \in Workers /\ go[g].at = "insert" /\ Kept(g)
    BY <1>5, <1>a, <1>d DEF Insert, Kept
  <2>1. CASE relay[w] = None
    <3> DEFINE x == [go[g] EXCEPT !.at = "accept", !.ref = "none"]
    <3>1. go' = [go EXCEPT ![g] = x] /\ relay' = [relay EXCEPT ![w] = g]
      BY <1>5, <1>a, <2>1 DEF Insert, GoType
    <3>2. x \in GoType /\ x.at = "accept" /\ x.w = w
      BY <1>a DEF GoType, GoPlaces, Ref
    <3> HIDE DEF x
    <3>3. go' \in [Gos -> GoType] /\ relay' \in [Workers -> Gos \cup {None}]
      BY <1>a, <3>1, <3>2 DEF RelaysTyped
    <3>4. \A h \in Gos : go'[h] = IF h = g THEN x ELSE go[h]
      BY <1>a, <3>1
    <3>5. \A v \in Workers : relay'[v] = IF v = w THEN g ELSE relay[v]
      BY <3>1 DEF RelaysTyped
    <3>6. Served'
      <4>1. \A v \in Workers : relay[v] \in Gos \cup {None}
        BY DEF RelaysTyped
      <4> QED
        BY <2>0, <3>2, <3>4, <3>5, <4>1 DEF Served, Serves
    <3>7. \A h \in Gos : go'[h].at # "idle" => go'[h].w \in Workers
      BY <2>0, <3>2, <3>4 DEF RelaysTyped
    <3> QED
      BY <2>0, <3>3, <3>6, <3>7 DEF RelaysTyped, Kept
  <2>2. CASE relay[w] # None
    <3>1. "lost" \in GoPlaces
      BY DEF GoPlaces
    <3> QED
      BY <1>5, <1>a, <1>c, <2>0, <2>2, <3>1, GoMoves DEF Insert, Step
  <2> QED
    BY <2>1, <2>2
<1>6. CASE Lose(g)
  <2>0. w \in Workers /\ go[g].at = "lost" /\ Kept(g) /\ UNCHANGED relay
    BY <1>6, <1>a, <1>d DEF Lose, Kept
  <2>1. CASE go[g].ref = "live"
    <3> DEFINE f == Cancelled(go, w)
    <3>1. go' = [f EXCEPT ![g] = Idle]
      BY <1>6, <2>1 DEF Lose
    <3>2. SameGos(f)
      BY CancelledSame
    <3> HIDE DEF f
    <3>3. go' \in [Gos -> GoType] /\ \A h \in Gos : go'[h] = IF h = g THEN Idle ELSE f[h]
      BY <1>b, <3>1, <3>2 DEF SameGos
    <3>4. Served'
      <4>1. \A v \in Workers : relay[v] \in Gos \cup {None}
        BY DEF RelaysTyped
      <4> QED
        BY <2>0, <3>2, <3>3, <4>1 DEF Served, Serves, SameGos
    <3>5. \A h \in Gos : go'[h].at # "idle" => go'[h].w \in Workers
      BY <1>b, <3>2, <3>3 DEF RelaysTyped, SameGos
    <3> QED
      BY <2>0, <3>3, <3>4, <3>5 DEF RelaysTyped, Kept
  <2>2. CASE go[g].ref # "live"
    BY <1>6, <1>b, <2>0, <2>2, GoMoves DEF Lose, Ends
  <2> QED
    BY <2>1, <2>2
<1>7. CASE AcceptFails(g)
  <2>1. "forget" \in GoPlaces
    BY DEF GoPlaces
  <2>2. go' = [go EXCEPT ![g] = [go[g] EXCEPT !.at = "forget"]]
    BY <1>7, <1>a, <2>1 DEF AcceptFails, Step
  <2>3. Serves(go', g, w)
    BY <1>a, <1>c, <2>1, <2>2 DEF Serves
  <2>4. Kept(g) /\ UNCHANGED relay
    BY <1>7, <1>d DEF AcceptFails, Kept
  <2>5. w \in Workers
    BY <1>7, <1>a DEF AcceptFails
  <2> QED
    BY <1>c, <2>1, <2>2, <2>3, <2>4, <2>5, GoMoves
<1>8. CASE ForgetCmd(g)
  <2>0. w \in Workers /\ go[g].at = "forget" /\ Kept(g)
    BY <1>8, <1>a, <1>d DEF ForgetCmd, Kept
  <2>1. go' = [go EXCEPT ![g] = Idle]
    BY <1>8 DEF ForgetCmd, Ends
  <2>2. relay' = IF relay[w] = g THEN [relay EXCEPT ![w] = None] ELSE relay
    BY <1>8 DEF ForgetCmd
  <2>3. \A v \in Workers : relay'[v] \in Gos \cup {None} /\ relay'[v] # g
                            /\ (relay'[v] # None => relay'[v] = relay[v])
    BY <1>b, <2>0, <2>2 DEF RelaysTyped, Served, Serves
  <2>4. go' \in [Gos -> GoType] /\ \A h \in Gos : go'[h] = IF h = g THEN Idle ELSE go[h]
    BY <1>a, <1>b, <2>1
  <2>5. Served'
    BY <2>3, <2>4 DEF Served, Serves
  <2>6. relay' \in [Workers -> Gos \cup {None}]
    BY <2>2 DEF RelaysTyped
  <2>7. \A h \in Gos : go'[h].at # "idle" => go'[h].w \in Workers
    BY <1>b, <2>4 DEF RelaysTyped
  <2> QED
    BY <2>0, <2>4, <2>5, <2>6, <2>7 DEF RelaysTyped, Kept
<1> QED
  BY <1>1, <1>2, <1>3, <1>4, <1>5, <1>6, <1>7, <1>8 DEF GoStep

\* CloseWorker closes the listener of the entry it takes out; its goroutine is Cut loose.
LEMMA ActFields ==
  \A f \in [Actors -> ActType], a \in Actors, at \in ActPlaces :
     /\ [f EXCEPT ![a].at = at] \in [Actors -> ActType]
     /\ \A b \in Actors : /\ [f EXCEPT ![a].at = at][b].w = f[b].w
                          /\ [f EXCEPT ![a].at = at][b].at = IF b = a THEN at ELSE f[b].at
  BY DEF ActType

\* The goroutines, when nothing but what they know of their connection changes.
GoRight ==
    /\ go \in [Gos -> GoType] /\ Served
    /\ \A g \in Gos : go[g].at # "idle" => go[g].w \in Workers

LEMMA SameRight ==
  ASSUME RelaysTyped, Served, SameGos(go'), UNCHANGED relay
  PROVE  GoRight'
<1>1. Served'
  BY SameServed
<1> QED
  BY <1>1 DEF GoRight, RelaysTyped, SameGos

LEMMA StillRight == RelaysTyped /\ Served /\ UNCHANGED <<go, relay>> => GoRight'
  BY DEF GoRight, RelaysTyped, Served, Serves

LEMMA SpawnRight ==
  ASSUME RelaysTyped, Served, CanSpawn, NEW w \in Workers, NEW fresh \in BOOLEAN,
         go' = Spawn(go, w, fresh), UNCHANGED relay
  PROVE  GoRight'
<1> DEFINE g == CHOOSE h \in Gos : go[h] = Idle
           x == [Idle EXCEPT !.at = "check", !.w = w, !.fresh = fresh]
<1>1. g \in Gos /\ go[g] = Idle
  BY DEF CanSpawn
<1>2. x \in GoType /\ x.at = "check" /\ x.w = w
  BY DEF Idle, GoType, GoPlaces, Ref
<1>3. go' = [go EXCEPT ![g] = x]
  BY DEF Spawn
<1> HIDE DEF g, x
<1>4. Served'
  BY <1>1, <1>2, <1>3, IdleTyped, OneMoves DEF Idled
<1> QED
  BY <1>1, <1>2, <1>3, <1>4 DEF GoRight, RelaysTyped

\* A step of an actor, and what goes with it.
ActRight ==
    /\ act \in [Actors -> ActType]
    /\ \A a \in Actors : act[a].at \notin {"idle", "next"} => act[a].w \in Workers

LEMMA ActSet ==
  ASSUME RelaysTyped, NEW f, SameActs(f), NEW a \in Actors, NEW x \in ActType,
         x.at \notin {"idle", "next"} => x.w \in Workers, act' = [f EXCEPT ![a] = x]
  PROVE  ActRight'
<1>1. act' \in [Actors -> ActType] /\ \A b \in Actors : act'[b] = IF b = a THEN x ELSE f[b]
  BY DEF SameActs
<1> QED
  BY <1>1 DEF ActRight, SameActs, RelaysTyped

LEMMA ActsAre == RelaysTyped => SameActs(act) /\ SameGos(go)
  BY DEF SameActs, SameGos, RelaysTyped

LEMMA ActMoves ==
  ASSUME RelaysTyped, GoRight', ActRight', relay' \in [Workers -> Gos \cup {None}],
         ctr' \in [Workers -> Status], ent' \in [Workers -> Entry],
         client' \in [Workers -> {None, "live", "dead"}],
         owner' \in [Workers -> Gos \cup {None}], mu' \in Gos \cup Actors \cup {None},
         events' \in 0..MaxEvents
  PROVE  RelaysTyped' /\ Served'
  BY DEF RelaysTyped, GoRight, ActRight

LEMMA CloseServed ==
  ASSUME RelaysTyped, Served, NEW a \in Actors, Close(a)
  PROVE  RelaysTyped' /\ Served'
<1> DEFINE w == act[a].w
<1>1. w \in Workers
  BY DEF RelaysTyped, Close
<1>2. SameGos(go')
  <2>1. CASE relay[w] = None
    BY <2>1 DEF Close, SameGos, RelaysTyped
  <2>2. CASE relay[w] # None
    <3>1. relay[w] \in Gos
      BY <1>1, <2>2 DEF RelaysTyped
    <3>2. go' = [go EXCEPT ![relay[w]] = [go[relay[w]] EXCEPT !.open = FALSE]]
      BY <2>2, <3>1 DEF Close, RelaysTyped, GoType
    <3>3. \A x \in GoType : LET y == [x EXCEPT !.open = FALSE] IN
             y \in GoType /\ y.at = x.at /\ y.w = x.w
      BY DEF GoType
    <3> QED
      BY <3>1, <3>2, <3>3 DEF SameGos, RelaysTyped
  <2> QED
    BY <2>1, <2>2
<1>3. act' = [act EXCEPT ![a].at = "closing"] /\ "closing" \in ActPlaces /\ mu' \in Actors
  BY DEF Close, ActPlaces
<1>4. act \in [Actors -> ActType]
  BY DEF RelaysTyped
<1>5. /\ act' \in [Actors -> ActType]
      /\ \A b \in Actors : act'[b].w = act[b].w /\ act'[b].at = IF b = a THEN "closing" ELSE act[b].at
  BY <1>3, <1>4, ActFields
<1>6. /\ UNCHANGED relay /\ ctr' \in [Workers -> Status] /\ ent' \in [Workers -> Entry]
      /\ client' \in [Workers -> {None, "live", "dead"}]
      /\ owner' \in [Workers -> Gos \cup {None}] /\ events' \in 0..MaxEvents
  BY DEF Close, RelaysTyped
<1>7. \A b \in Actors : act'[b].at \notin {"idle", "next"} => act'[b].w \in Workers
  BY <1>1, <1>5 DEF RelaysTyped
<1>8. GoRight' /\ ActRight' /\ relay' \in [Workers -> Gos \cup {None}]
  BY <1>2, <1>5, <1>6, <1>7, SameRight DEF ActRight, RelaysTyped
<1> QED
  BY <1>3, <1>6, <1>8, ActMoves

LEMMA ClosingServed ==
  ASSUME RelaysTyped, Served, NEW a \in Actors, Closing(a)
  PROVE  RelaysTyped' /\ Served'
<1> DEFINE w == act[a].w
           f == CutAct(act, w)
           at == After(a)
<1>1. w \in Workers
  BY DEF RelaysTyped, Closing
<1>2. /\ client' = [client EXCEPT ![w] = None] /\ relay' = [relay EXCEPT ![w] = None]
      /\ owner' = [owner EXCEPT ![w] = None] /\ go' = Cut(go, w) /\ mu' = None
      /\ act' = [f EXCEPT ![a].at = at]
      /\ UNCHANGED <<ctr, ent, events>>
  BY DEF Closing
<1>3. at \in ActPlaces
  BY DEF After, ActPlaces
<1>4. SameGos(go') /\ SameActs(f)
  BY <1>2, CutSame, CutActSame
<1> HIDE DEF f, at
<1>5. /\ act' \in [Actors -> ActType]
      /\ \A b \in Actors : act'[b].w = f[b].w /\ act'[b].at = IF b = a THEN at ELSE f[b].at
  BY <1>2, <1>3, <1>4, ActFields DEF SameActs
<1>6. \A b \in Actors : act'[b].at \notin {"idle", "next"} => act'[b].w \in Workers
  BY <1>1, <1>4, <1>5 DEF RelaysTyped, SameActs
<1>7. Served'
  <2>1. \A v \in Workers : relay'[v] # None => relay'[v] = relay[v] /\ relay[v] \in Gos
    BY <1>2 DEF RelaysTyped
  <2> QED
    BY <1>4, <2>1 DEF Served, Serves, SameGos
<1>8. go' \in [Gos -> GoType] /\ \A h \in Gos : go'[h].at # "idle" => go'[h].w \in Workers
  BY <1>4 DEF RelaysTyped, SameGos
<1>9. /\ client' \in [Workers -> {None, "live", "dead"}]
      /\ relay' \in [Workers -> Gos \cup {None}] /\ owner' \in [Workers -> Gos \cup {None}]
  BY <1>2 DEF RelaysTyped
<1> QED
  BY <1>2, <1>5, <1>6, <1>7, <1>8, <1>9 DEF RelaysTyped

\* Nothing but act, ent or go changes.
Aside ==
    /\ UNCHANGED <<ctr, client, relay, owner, mu>>
    /\ ent' \in [Workers -> Entry] /\ events' \in 0..MaxEvents

LEMMA AsideServed == ASSUME RelaysTyped, Aside, GoRight', ActRight' PROVE RelaysTyped' /\ Served'
<1>1. /\ relay' \in [Workers -> Gos \cup {None}] /\ ctr' \in [Workers -> Status]
      /\ client' \in [Workers -> {None, "live", "dead"}]
      /\ owner' \in [Workers -> Gos \cup {None}] /\ mu' \in Gos \cup Actors \cup {None}
      /\ ent' \in [Workers -> Entry] /\ events' \in 0..MaxEvents
  BY DEF Aside, RelaysTyped
<1> QED
  BY <1>1, ActMoves

LEMMA ReconciledTyped == RelaysTyped => Reconciled \in [Workers -> Entry]
  BY DEF RelaysTyped, Reconciled, Entry

LEMMA EventTyped == RelaysTyped /\ Event => events' \in 0..MaxEvents
  BY RelaysAssumption DEF RelaysTyped, Event

LEMMA OnwardTyped ==
  RelaysTyped => Onward \in ActType /\ Onward.at = "next"
<1> SUFFICES ASSUME RelaysTyped PROVE Onward \in ActType /\ Onward.at = "next"
  OBVIOUS
<1>1. act[Ticker] \in ActType
  BY DEF RelaysTyped, Actors
<1>2. act[Ticker].todo \in SUBSET Workers /\ act[Ticker].fresh \cap act[Ticker].todo \in SUBSET Workers
  BY <1>1 DEF ActType
<1>3. \A s, t \in SUBSET Workers :
         LET y == [Resting EXCEPT !.at = "next", !.todo = s, !.fresh = t]
         IN  y \in ActType /\ y.at = "next"
  BY IdleTyped DEF Idled, ActType, ActPlaces
<1> QED
  BY <1>2, <1>3 DEF Onward

LEMMA TickerServed ==
  ASSUME RelaysTyped, Served,
         Tick \/ NextWorker \/ ReadClient \/ Ping \/ HasCmd \/ TickerUp
  PROVE  RelaysTyped' /\ Served'
<1> DEFINE t == act[Ticker]
<1>a. Ticker \in Actors /\ act \in [Actors -> ActType] /\ t \in ActType /\ SameActs(act)
      /\ events \in 0..MaxEvents /\ ent \in [Workers -> Entry]
  BY ActsAre DEF RelaysTyped, Actors
<1>b. t.at \notin {"idle", "next"} => t.w \in Workers
  BY <1>a DEF RelaysTyped
<1>c. Resting \in ActType /\ Resting.at = "idle"
  BY IdleTyped DEF Idled
<1>1. CASE Tick
  <2> DEFINE up == {w \in Workers : ctr[w] = "running"}
             x == IF up = {} THEN Resting
                  ELSE [Resting EXCEPT !.at = "next", !.todo = up, !.fresh = up]
  <2>1. act' = [act EXCEPT ![Ticker] = x] /\ UNCHANGED go
    BY <1>1 DEF Tick
  <2>2. x \in ActType /\ x.at \in {"idle", "next"}
    <3>1. up \in SUBSET Workers
      OBVIOUS
    <3> HIDE DEF up
    <3> QED
      BY <1>c, <3>1 DEF ActType, ActPlaces
  <2>3. ActRight'
    BY <1>a, <2>1, <2>2, ActSet
  <2>4. Aside
    BY <1>1, <1>a, ReconciledTyped, EventTyped DEF Tick, Aside
  <2>5. GoRight'
    BY <1>1, StillRight DEF Tick
  <2> QED
    BY <2>3, <2>4, <2>5, AsideServed
<1>2. CASE NextWorker
  <2>1. CASE t.todo = {}
    <3>1. ActRight'
      BY <1>2, <1>a, <1>c, <2>1, ActSet DEF NextWorker
    <3> QED
      BY <1>2, <1>a, <3>1, StillRight, AsideServed DEF NextWorker, Aside
  <2>2. CASE t.todo # {}
    <3>1. PICK w \in t.todo : act' = [act EXCEPT ![Ticker].at = "client", ![Ticker].w = w,
                                                 ![Ticker].todo = @ \ {w}]
      BY <1>2, <2>2 DEF NextWorker
    <3> DEFINE x == [t EXCEPT !.at = "client", !.w = w, !.todo = t.todo \ {w}]
    <3>2. w \in Workers /\ act' = [act EXCEPT ![Ticker] = x]
      BY <1>a, <3>1 DEF ActType
    <3>3. x \in ActType /\ x.w = w
      BY <1>a, <3>2 DEF ActType, ActPlaces
    <3> HIDE DEF x
    <3>4. ActRight'
      BY <1>a, <3>2, <3>3, ActSet
    <3> QED
      BY <1>2, <1>a, <3>4, StillRight, AsideServed DEF NextWorker, Aside
  <2> QED
    BY <2>1, <2>2
<1>3. CASE ReadClient
  <2> DEFINE w == t.w
             at == IF client[w] = None THEN "close" ELSE "ping"
             r == IF client[w] = None THEN "none" ELSE client[w]
             x == [t EXCEPT !.at = at, !.ref = r]
  <2>1. w \in Workers
    BY <1>3, <1>b DEF ReadClient
  <2>2. at \in ActPlaces /\ r \in Ref
    BY <2>1 DEF RelaysTyped, ActPlaces, Ref
  <2>3. act' = [act EXCEPT ![Ticker].at = at, ![Ticker].ref = r]
    BY <1>3 DEF ReadClient
  <2> HIDE DEF at, r
  <2>4. act' = [act EXCEPT ![Ticker] = x]
    BY <1>a, <2>3 DEF ActType
  <2>5. x \in ActType /\ x.w = w
    BY <1>a, <2>2 DEF ActType
  <2> HIDE DEF x
  <2>6. ActRight'
    BY <1>a, <2>1, <2>4, <2>5, ActSet
  <2> QED
    BY <1>3, <1>a, <2>6, StillRight, AsideServed DEF ReadClient, Aside
<1>4. CASE Ping
  <2> DEFINE at == IF t.ref = "live" THEN "has" ELSE "close"
             x == [t EXCEPT !.at = at, !.ref = "none"]
  <2>1. t.w \in Workers
    BY <1>4, <1>b DEF Ping
  <2>2. at \in ActPlaces /\ "none" \in Ref
    BY DEF ActPlaces, Ref
  <2>3. act' = [act EXCEPT ![Ticker].at = at, ![Ticker].ref = "none"]
    BY <1>4 DEF Ping
  <2> HIDE DEF at
  <2>4. act' = [act EXCEPT ![Ticker] = x]
    BY <1>a, <2>3 DEF ActType
  <2>5. x \in ActType /\ x.w = t.w
    BY <1>a, <2>2 DEF ActType
  <2> HIDE DEF x
  <2>6. ActRight'
    BY <1>a, <2>1, <2>4, <2>5, ActSet
  <2> QED
    BY <1>4, <1>a, <2>6, StillRight, AsideServed DEF Ping, Aside
<1>5. CASE HasCmd
  <2> DEFINE x == IF relay[t.w] = None THEN [t EXCEPT !.at = "up"] ELSE Onward
  <2>1. t.w \in Workers
    BY <1>5, <1>b DEF HasCmd
  <2>2. act' = [act EXCEPT ![Ticker] = x]
    BY <1>5 DEF HasCmd
  <2>3. "up" \in ActPlaces
    BY DEF ActPlaces
  <2>4. x \in ActType /\ (x.at \notin {"idle", "next"} => x.w \in Workers)
    BY <1>a, <2>1, <2>3, OnwardTyped DEF ActType
  <2> HIDE DEF x
  <2>5. ActRight'
    BY <1>a, <2>2, <2>4, ActSet
  <2> QED
    BY <1>5, <1>a, <2>5, StillRight, AsideServed DEF HasCmd, Aside
<1>6. CASE TickerUp
  <2>1. t.w \in Workers
    BY <1>6, <1>b DEF TickerUp
  <2>2. GoRight'
    <3>1. (t.w \in t.fresh) \in BOOLEAN
      OBVIOUS
    <3>2. CanSpawn /\ go' = Spawn(go, t.w, t.w \in t.fresh) /\ UNCHANGED relay
      BY <1>6 DEF TickerUp
    <3> HIDE DEF t
    <3> QED
      BY <2>1, <3>1, <3>2, SpawnRight, Zenon
  <2>3. ActRight'
    BY <1>6, <1>a, OnwardTyped, ActSet DEF TickerUp
  <2> QED
    BY <1>6, <1>a, <2>2, <2>3, AsideServed DEF TickerUp, Aside
<1> QED
  BY <1>1, <1>2, <1>3, <1>4, <1>5, <1>6

\* Docker and the actor that asked for it.
LEMMA DockerServed ==
  ASSUME RelaysTyped, Served, NEW w \in Workers, NEW to \in Status, Docker(w, to), ActRight',
         UNCHANGED <<relay, mu>>, events' \in 0..MaxEvents
  PROVE  RelaysTyped' /\ Served'
<1>1. /\ ctr' \in [Workers -> Status] /\ ent' \in [Workers -> Entry]
      /\ client' \in [Workers -> {None, "live", "dead"}]
      /\ owner' \in [Workers -> Gos \cup {None}] /\ GoRight'
  BY DockerSame, SameRight
<1>2. relay' \in [Workers -> Gos \cup {None}] /\ mu' \in Gos \cup Actors \cup {None}
  BY DEF RelaysTyped
<1> QED
  BY <1>1, <1>2, ActMoves

\* What an actor does of its own, and what it is told of a container.
LEMMA SameActRight ==
  ASSUME RelaysTyped, SameActs(act') PROVE ActRight'
  BY DEF SameActs, ActRight, RelaysTyped

LEMMA ReaperServed ==
  ASSUME RelaysTyped, Served, ReaperReconciles \/ \E w \in Workers : Pause(w) \/ DeepStop(w)
  PROVE  RelaysTyped' /\ Served'
<1> DEFINE t == act[Reaper]
<1>a. /\ Reaper \in Actors /\ act \in [Actors -> ActType] /\ t \in ActType /\ SameActs(act)
      /\ events \in 0..MaxEvents /\ ent \in [Workers -> Entry]
  BY ActsAre DEF RelaysTyped, Actors
<1>c. Resting \in ActType /\ Resting.at = "idle"
  BY IdleTyped DEF Idled
<1>1. CASE ReaperReconciles
  <2>1. ActRight'
    BY <1>1, <1>a, <1>c, ActSet DEF ReaperReconciles
  <2> QED
    BY <1>1, <1>a, <2>1, StillRight, ReconciledTyped, AsideServed DEF ReaperReconciles, Aside
<1>2. ASSUME NEW w \in Workers, Pause(w) PROVE RelaysTyped' /\ Served'
  <2> DEFINE x == [t EXCEPT !.at = "close", !.w = w]
  <2>1. act' = [act EXCEPT ![Reaper] = x]
    BY <1>2, <1>a DEF Pause, ActType
  <2>2. x \in ActType /\ x.w = w
    BY <1>a DEF ActType, ActPlaces
  <2> HIDE DEF x
  <2>3. ActRight'
    BY <1>a, <2>1, <2>2, ActSet
  <2>4. Docker(w, "paused") /\ "paused" \in Status /\ UNCHANGED <<relay, mu>>
        /\ events' \in 0..MaxEvents
    BY <1>2, EventTyped DEF Pause, Status
  <2> QED
    BY <2>3, <2>4, DockerServed
<1>3. ASSUME NEW w \in Workers, DeepStop(w) PROVE RelaysTyped' /\ Served'
  <2> DEFINE f == CutAct(act, w)
             x == [f[Reaper] EXCEPT !.at = "rec", !.w = w]
  <2>1. SameActs(f) /\ act' = [f EXCEPT ![Reaper].at = "rec", ![Reaper].w = w]
    BY <1>3, CutActSame DEF DeepStop
  <2> HIDE DEF f
  <2>2. act' = [f EXCEPT ![Reaper] = x]
    BY <1>a, <2>1 DEF SameActs, ActType
  <2>3. x \in ActType /\ x.w = w
    BY <1>a, <2>1 DEF SameActs, ActType, ActPlaces
  <2> HIDE DEF x
  <2>4. ActRight'
    BY <1>a, <2>1, <2>2, <2>3, ActSet
  <2>5. Docker(w, "exited") /\ "exited" \in Status /\ UNCHANGED <<relay, mu>>
        /\ events' \in 0..MaxEvents
    BY <1>3, EventTyped DEF DeepStop, Status
  <2> QED
    BY <2>4, <2>5, DockerServed
<1> QED
  BY <1>1, <1>2, <1>3

LEMMA HandlerServed ==
  ASSUME RelaysTyped, Served,
         HandlerStops \/ HandlerReconciles \/ HandlerUp
         \/ \E w \in Workers : Start(w) \/ Register(w) \/ Stop(w)
  PROVE  RelaysTyped' /\ Served'
<1> DEFINE t == act[Handler]
<1>a. /\ Handler \in Actors /\ act \in [Actors -> ActType] /\ t \in ActType /\ SameActs(act)
      /\ events \in 0..MaxEvents /\ ent \in [Workers -> Entry]
  BY ActsAre DEF RelaysTyped, Actors
<1>b. t.at \notin {"idle", "next"} => t.w \in Workers
  BY <1>a DEF RelaysTyped
<1>c. Resting \in ActType /\ Resting.at = "idle"
  BY IdleTyped DEF Idled
<1>1. CASE HandlerStops
  <2> DEFINE f == CutAct(act, t.w)
             x == [f[Handler] EXCEPT !.at = "rec"]
  <2>0. t.w \in Workers
    BY <1>1, <1>b DEF HandlerStops
  <2>1. SameActs(f) /\ act' = [f EXCEPT ![Handler].at = "rec"]
    BY <1>1, CutActSame DEF HandlerStops
  <2> HIDE DEF f
  <2>2. act' = [f EXCEPT ![Handler] = x]
    BY <1>a, <2>1 DEF SameActs, ActType
  <2>3. x \in ActType /\ x.w = t.w
    BY <1>a, <2>1 DEF SameActs, ActType, ActPlaces
  <2> HIDE DEF x
  <2>4. ActRight'
    BY <1>a, <2>0, <2>1, <2>2, <2>3, ActSet
  <2>5. Docker(t.w, "exited") /\ "exited" \in Status /\ UNCHANGED <<relay, mu>>
        /\ events' \in 0..MaxEvents
    BY <1>1, <1>a DEF HandlerStops, Status
  <2> QED
    BY <2>0, <2>4, <2>5, DockerServed
<1>2. CASE HandlerReconciles
  <2> DEFINE more == t.op = "start" /\ ctr[t.w] = "running"
             x == IF more THEN [t EXCEPT !.at = "close", !.fresh = {t.w}] ELSE Resting
  <2>0. t.w \in Workers
    BY <1>2, <1>b DEF HandlerReconciles
  <2>1. act' = [act EXCEPT ![Handler] = x]
    BY <1>2 DEF HandlerReconciles
  <2> HIDE DEF more
  <2>2. {t.w} \in SUBSET Workers
    BY <2>0
  <2>3. x \in ActType /\ (x.at \notin {"idle", "next"} => x.w \in Workers)
    BY <1>a, <1>c, <2>0, <2>2 DEF ActType, ActPlaces
  <2> HIDE DEF x
  <2>4. ActRight'
    BY <1>a, <2>1, <2>3, ActSet
  <2> QED
    BY <1>2, <1>a, <2>4, StillRight, ReconciledTyped, AsideServed DEF HandlerReconciles, Aside
<1>3. CASE HandlerUp
  <2> DEFINE fresh == t.w \in t.fresh
             w == t.w
  <2>0. t.w \in Workers /\ fresh \in BOOLEAN
    BY <1>3, <1>b DEF HandlerUp
  <2>1. CanSpawn /\ go' = Spawn(go, w, fresh) /\ UNCHANGED relay
    BY <1>3 DEF HandlerUp
  <2>2. ent' = ent \/ ent' = [ent EXCEPT ![w] = [st |-> "running", fresh |-> fresh]]
    BY <1>3 DEF HandlerUp
  <2>3. ActRight'
    BY <1>3, <1>a, <1>c, ActSet DEF HandlerUp
  <2>4. UNCHANGED <<ctr, client, relay, owner, mu, events>>
    BY <1>3 DEF HandlerUp
  <2> HIDE DEF fresh, w
  <2>5. GoRight'
    BY <2>0, <2>1, SpawnRight, Zenon DEF w
  <2>6. [st |-> "running", fresh |-> fresh] \in Entry
    BY <2>0 DEF Entry, Status
  <2>7. ent' \in [Workers -> Entry]
    BY <1>a, <2>2, <2>6
  <2> QED
    BY <1>a, <2>3, <2>4, <2>5, <2>7, AsideServed DEF Aside
<1>4. ASSUME NEW w \in Workers, Start(w) \/ Register(w) PROVE RelaysTyped' /\ Served'
  <2> DEFINE f == ActAfter(act, w, "running")
             s == [Resting EXCEPT !.at = "rec", !.w = w, !.op = "start"]
             r == [Resting EXCEPT !.at = "up", !.w = w, !.op = "register", !.fresh = {w}]
  <2>1. SameActs(f)
    BY ActAfterSame
  <2>2. act' = [f EXCEPT ![Handler] = s] \/ act' = [f EXCEPT ![Handler] = r]
    BY <1>4 DEF Start, Register
  <2>3. s \in ActType /\ s.w = w /\ r \in ActType /\ r.w = w
    BY DEF Resting, ActType, ActPlaces, Ref
  <2> HIDE DEF f, r, s
  <2>4. ActRight'
    BY <1>a, <2>1, <2>2, <2>3, ActSet
  <2>5. Docker(w, "running") /\ "running" \in Status /\ UNCHANGED <<relay, mu>>
        /\ events' \in 0..MaxEvents
    BY <1>4, EventTyped DEF Start, Register, Status
  <2> QED
    BY <2>4, <2>5, DockerServed
<1>5. ASSUME NEW w \in Workers, Stop(w) PROVE RelaysTyped' /\ Served'
  <2> DEFINE x == [Resting EXCEPT !.at = "close", !.w = w, !.op = "stop"]
  <2>1. act' = [act EXCEPT ![Handler] = x]
    BY <1>5 DEF Stop
  <2>2. x \in ActType /\ x.w = w
    BY DEF Resting, ActType, ActPlaces, Ref
  <2> HIDE DEF x
  <2>3. ActRight'
    BY <1>a, <2>1, <2>2, ActSet
  <2> QED
    BY <1>5, <1>a, <2>3, EventTyped, StillRight, AsideServed DEF Stop, Aside
<1> QED
  BY <1>1, <1>2, <1>3, <1>4, <1>5

LEMMA OutsideServed ==
  ASSUME RelaysTyped, Served, NEW w \in Workers, ContainerExits(w) \/ ConnectionLost(w)
  PROVE  RelaysTyped' /\ Served'
<1>a. ActRight'
  BY CutActSame, SameActRight DEF ContainerExits, ConnectionLost
<1>1. CASE ContainerExits(w)
  <2>1. Docker(w, "exited") /\ "exited" \in Status /\ UNCHANGED <<relay, mu>>
        /\ events' \in 0..MaxEvents
    BY <1>1, EventTyped DEF ContainerExits, Status
  <2> QED
    BY <1>a, <2>1, DockerServed
<1>2. CASE ConnectionLost(w)
  <2>1. GoRight'
    BY <1>2, CutSame, SameRight DEF ConnectionLost
  <2>2. /\ relay' \in [Workers -> Gos \cup {None}] /\ ctr' \in [Workers -> Status]
        /\ ent' \in [Workers -> Entry] /\ mu' \in Gos \cup Actors \cup {None}
        /\ client' \in [Workers -> {None, "live", "dead"}]
        /\ owner' \in [Workers -> Gos \cup {None}]
    BY <1>2 DEF ConnectionLost, RelaysTyped
  <2>3. events' \in 0..MaxEvents
    BY <1>2, EventTyped DEF ConnectionLost
  <2> QED
    BY <1>a, <2>1, <2>2, <2>3, ActMoves
<1> QED
  BY <1>1, <1>2

LEMMA RelaysInv == RelaysSpec => [](RelaysTyped /\ Served)
<1>1. RelaysInit => RelaysTyped /\ Served
  <2> SUFFICES ASSUME RelaysInit PROVE RelaysTyped /\ Served
    OBVIOUS
  <2>1. go \in [Gos -> GoType] /\ act \in [Actors -> ActType]
    BY IdleTyped DEF RelaysInit, Idled
  <2>2. (\A g \in Gos : go[g].at = "idle") /\ (\A a \in Actors : act[a].at = "idle")
    BY IdleTyped DEF RelaysInit, Idled
  <2>3. ent \in [Workers -> Entry]
    <3>1. [st |-> "exited", fresh |-> FALSE] \in Entry
      BY DEF Entry, Status
    <3> QED
      BY <3>1, Zenon DEF RelaysInit
  <2>4. ctr \in [Workers -> Status] /\ events \in 0..MaxEvents
    BY RelaysAssumption DEF RelaysInit, Status
  <2>5. Served
    BY DEF Served, RelaysInit
  <2> QED
    BY <2>1, <2>2, <2>3, <2>4, <2>5 DEF RelaysTyped, RelaysInit
<1>2. RelaysTyped /\ Served /\ [RelaysNext]_relayVars => (RelaysTyped /\ Served)'
  <2> SUFFICES ASSUME RelaysTyped, Served, [RelaysNext]_relayVars
      PROVE (RelaysTyped /\ Served)'
    OBVIOUS
  <2>1. CASE \E g \in Gos : GoStep(g)
    BY <2>1, GoStepServed
  <2>2. CASE TickerStep \/ ReaperStep \/ HandlerStep
    <3>1. Ticker \in Actors /\ Reaper \in Actors /\ Handler \in Actors
      BY DEF Actors
    <3> QED
      BY <2>2, <3>1, CloseServed, ClosingServed, TickerServed, ReaperServed, HandlerServed
         DEF TickerStep, ReaperStep, HandlerStep
  <2>3. CASE \E w \in Workers : Pause(w) \/ DeepStop(w) \/ Start(w) \/ Register(w) \/ Stop(w)
                                \/ ContainerExits(w) \/ ConnectionLost(w)
    BY <2>3, ReaperServed, HandlerServed, OutsideServed
  <2>4. CASE UNCHANGED relayVars
    BY <2>4 DEF relayVars, RelaysTyped, Served, Serves
  <2> QED
    BY <2>1, <2>2, <2>3, <2>4 DEF RelaysNext
<1> QED
  BY <1>1, <1>2, PTL DEF RelaysSpec

(* Every reachable state of Relays satisfies RelaysTypeOK.                  *)
THEOREM RelaysTypeCorrect == RelaysSpec => []RelaysTypeOK
  BY RelaysInv, RelaysTypedIs, PTL

(* The entry that hasCmd and ForwardCmd's first look go by always is that   *)
(* of a goroutine at that worker which accepts or is about to take it out,  *)
(* whoever cut the connection or lost the race (portmap.go ForwardCmd,      *)
(* forget, CloseWorker).                                                    *)
THEOREM RelaysAreServed == RelaysSpec => []RelayIsServed
  BY RelaysInv, ServedIs, PTL
=============================================================================
