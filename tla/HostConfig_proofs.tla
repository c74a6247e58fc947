------------------------- MODULE HostConfig_proofs -------------------------
(***************************************************************************)
(* Theorems about HostConfig: the type invariant, that an enrollment has    *)
(* one verdict, and that what was answered ok is in config.toml and in      *)
(* memory.  Below them those about SignIn, which keeps the password that    *)
(* HostConfig stores: the type invariant, and that the lockout bounds the   *)
(* guesses however the logins overlap.                                      *)
(***************************************************************************)
EXTENDS HostConfig, SignIn, FiniteSetTheorems, TLAPS

\* What a request and an enrollment may be, and TypeOK by parts.
GoState == [at : {"none", "hash", "lock", "copy", "open", "write", "rename"},
            op : Ops, new : Config, fd : {"none", "tmp", "cfg", "gone"}]
Enrollment == [known : BOOLEAN, decided : BOOLEAN, approved : BOOLEAN,
               done : BOOLEAN, said : SUBSET {"approve", "deny"}]

Typed ==
    /\ up \in BOOLEAN /\ mem \in Config
    /\ cfg \in Config \cup {Empty, Torn} /\ tmp \in Config \cup {Empty, Torn, None}
    /\ go \in [Savers -> GoState]
    /\ mu \in Gos \cup {None} /\ pend \in [Codes -> Enrollment]
    /\ dev \in [Codes -> {"new", "polls", "waits", "reads", "approved", "denied", "gone"}]
    /\ events \in 0..MaxEvents /\ overlap \in BOOLEAN /\ acked \in Config

\* What the place a request has come to says of it: a place in a save belongs to a request
\* that changes something, only `sr serve` changes the address, a file is open only while
\* its text is written, and a handler runs in a daemon that does.
Placed ==
    /\ \A g \in Gos :
          /\ go[g].at # "none" => up
          /\ go[g].at = "hash" => go[g].op.kind = "pw"
          /\ go[g].at = "lock" => go[g].op.kind \in {"key", "deny"}
          /\ Saving(g) => go[g].op.kind \in {"pw", "git", "key"}
    /\ go[Cli].op.kind = "addr"
    /\ go[Cli].at \in {"none", "open", "write", "rename"}
    /\ \A g \in Savers : go[g].at # "write" => go[g].fd = "none"

\* An enrollment: what was said follows the decision, the decision comes before any answer
\* to the device, and a save of a key is that of an approval.
Enrolled(c) ==
    /\ ~up => pend[c] = NoEnroll
    /\ ~pend[c].decided => pend[c].said = {} /\ ~pend[c].approved
    /\ pend[c].decided =>
          /\ pend[c].approved => pend[c].said \subseteq {"approve"} /\ c \in mem.keys
          /\ ~pend[c].approved => pend[c].said \subseteq {"deny"}
          /\ dev[c] = "approved" => pend[c].approved
          /\ dev[c] = "denied" => ~pend[c].approved
          /\ dev[c] # "new"
    /\ pend[c].known \/ (\E g \in Gos : go[g].at = "lock" /\ go[g].op.val = c) =>
          /\ dev[c] # "new"
          /\ ~pend[c].decided => dev[c] \notin {"approved", "denied"}
    /\ \A g \in Gos : Saving(g) /\ go[g].op.kind = "key" /\ go[g].op.val = c =>
          pend[c].decided /\ pend[c].approved

\* c has what a asks for.
Has(c, a) ==
    /\ a.pw # None => c.pw = a.pw
    /\ a.git => c.git
    /\ a.keys \subseteq c.keys

\* What was answered ok, and what the request of g asks for.
Asked(g) == With(acked, go[g].op)

\* While no two saves overlapped, there is one at a time, and what it will rename over
\* config.toml has what was answered ok and what its own request asks for.
OnDisk == cfg \in Config \cup {Empty} /\ Has(Loaded(cfg), acked)
Own(g) ==
    /\ g \in Gos /\ Saving(g) => Has(mem, Asked(g))
    /\ go[g].at \in {"open", "write"} => Has(go[g].new, Asked(g))
    /\ go[g].at = "write" => go[g].fd = "tmp" /\ tmp = Empty
    /\ go[g].at = "rename" => tmp \in Config /\ Has(tmp, Asked(g))
OneSave ==
    /\ \A g, h \in Savers : Saving(g) /\ Saving(h) => g = h
    /\ OnDisk
    /\ up /\ (\A g \in Gos : ~Saving(g)) => Has(mem, acked)
    /\ \A g \in Savers : Own(g)

Kept == ~overlap => OneSave
-----------------------------------------------------------------------------
LEMMA TypedIs == Typed <=> TypeOK
  BY Zenon DEF Typed, TypeOK, GoState, Enrollment

AddrOp == [kind |-> "addr", val |-> None]
GitOp == [kind |-> "git", val |-> None]

LEMMA Defaults ==
  /\ NoConfig \in Config /\ Free \in GoState /\ NoEnroll \in Enrollment
  /\ AddrOp \in Ops /\ GitOp \in Ops
<1>1. NoConfig \in Config
  BY DEF NoConfig, Config
<1>2. AddrOp \in Ops /\ GitOp \in Ops
  BY DEF AddrOp, GitOp, Ops
<1>3. Free \in GoState
  BY <1>1, <1>2 DEF Free, GoState, AddrOp
<1>4. NoEnroll \in Enrollment
  BY DEF NoEnroll, Enrollment
<1> QED
  BY <1>1, <1>2, <1>3, <1>4

\* What a request of each kind changes.
LEMMA WithOp ==
  ASSUME NEW c \in Config, NEW op \in Ops
  PROVE  /\ With(c, op) \in Config
         /\ op.kind = "pw" => With(c, op).pw = op.val /\ op.val \in Passwords
         /\ op.kind # "pw" => With(c, op).pw = c.pw
         /\ op.kind \in {"key", "deny"} => op.val \in Codes
         /\ With(c, op).git <=> (c.git \/ op.kind = "git")
         /\ With(c, op).keys = IF op.kind = "key" THEN c.keys \cup {op.val} ELSE c.keys
<1>1. op.kind = "pw" => op.val \in Passwords
  BY DEF Ops
<1>2. op.kind \in {"key", "deny"} => op.val \in Codes
  BY DEF Ops
<1> QED
  BY <1>1, <1>2 DEF With, Config

LEMMA LoadedConfig ==
  ASSUME NEW c \in Config \cup {Empty, Torn}
  PROVE  /\ Loaded(c) \in Config
         /\ c \in Config => Loaded(c) = c
  BY Defaults, ContentsAssumption DEF Loaded

LEMMA InitTyped == Init => Typed
<1> SUFFICES ASSUME Init PROVE Typed
  OBVIOUS
<1>1. go \in [Savers -> GoState] /\ pend \in [Codes -> Enrollment]
  BY Defaults DEF Init
<1>2. up \in BOOLEAN /\ overlap \in BOOLEAN
  BY Zenon DEF Init
<1>3. events \in 0..MaxEvents
  BY HostConfigAssumption DEF Init
<1>4. mem \in Config /\ acked \in Config
  BY Defaults DEF Init
<1> QED
  BY <1>1, <1>2, <1>3, <1>4 DEF Init, Typed

\* The ends of a request.
LEMMA FinishTypes ==
  ASSUME Typed, NEW g \in Savers, NEW ok \in BOOLEAN, Finish(g, ok)
  PROVE  mu' \in Gos \cup {None} /\ pend' \in [Codes -> Enrollment] /\ acked' \in Config
<1>1. go[g].op \in Ops
  BY DEF Typed, GoState
<1>2. mu' \in Gos \cup {None}
  BY DEF Finish, Typed
<1>3. pend' \in [Codes -> Enrollment]
  <2>1. CASE go[g].op.kind = "key" /\ ok
    <3> DEFINE c == go[g].op.val
               p == [pend[c] EXCEPT !.done = TRUE, !.said = @ \cup {"approve"}]
    <3>1. c \in Codes
      BY <1>1, <2>1 DEF Ops
    <3>2. p \in Enrollment
      <4>1. pend[c] \in Enrollment
        BY <3>1 DEF Typed
      <4>2. (pend[c].said \cup {"approve"}) \in SUBSET {"approve", "deny"}
        BY <4>1 DEF Enrollment
      <4> QED
        BY <4>1, <4>2, Zenon DEF Enrollment
    <3>3. pend' = [pend EXCEPT ![c].done = TRUE, ![c].said = @ \cup {"approve"}]
      BY <2>1 DEF Finish
    <3>4. pend' = [pend EXCEPT ![c] = p]
      BY <3>1, <3>3 DEF Typed, Enrollment
    <3> HIDE DEF p
    <3> QED
      BY <3>2, <3>4 DEF Typed
  <2>2. CASE ~(go[g].op.kind = "key" /\ ok)
    BY <2>2 DEF Finish, Typed
  <2> QED
    BY <2>1, <2>2
<1>4. acked' \in {With(acked, go[g].op), [acked EXCEPT !.pw = None], acked}
  BY DEF Finish
<1>5. acked \in Config /\ [acked EXCEPT !.pw = None] \in Config
  BY DEF Typed, Config
<1> QED
  BY <1>1, <1>2, <1>3, <1>4, <1>5, WithOp

LEMMA SaveTyped ==
  ASSUME Typed, NEW g \in Savers,
         Copy(g) \/ Open(g) \/ Write(g) \/ WriteFails(g) \/ Rename(g)
  PROVE  Typed'
<1> USE DEF fileVars, enrollVars
<1>a. go[g] \in GoState
  BY DEF Typed
<1>b. \A x \in GoState : [Free EXCEPT !.at = "rename", !.op = x.op] \in GoState
  BY Defaults DEF GoState
<1>1. CASE Copy(g)
  <2>1. go' = [go EXCEPT ![g] = [go[g] EXCEPT !.at = "open", !.new = mem]]
    BY <1>1 DEF Copy, Typed
  <2>2. [go[g] EXCEPT !.at = "open", !.new = mem] \in GoState
    BY <1>a DEF Typed, GoState
  <2> QED
    BY <1>1, <2>1, <2>2 DEF Copy, Typed
<1>2. CASE Open(g)
  <2>1. go' = [go EXCEPT ![g] = [go[g] EXCEPT !.at = "write", !.fd = "tmp"]]
    BY <1>2 DEF Open, Typed
  <2>2. [go[g] EXCEPT !.at = "write", !.fd = "tmp"] \in GoState
    BY <1>a DEF GoState
  <2> QED
    BY <1>2, <2>1, <2>2 DEF Open, Typed
<1>3. CASE Write(g)
  <2>1. go' \in [Savers -> GoState]
    BY <1>a, <1>b, <1>3 DEF Write, Typed
  <2>2. go[g].new \in Config
    BY <1>a DEF GoState
  <2>3. cfg' \in Config \cup {Empty, Torn} /\ tmp' \in Config \cup {Empty, Torn, None}
    BY <1>3, <2>2 DEF Write, Written, Typed
  <2> QED
    BY <1>3, <2>1, <2>3 DEF Write, Typed
<1>4. CASE WriteFails(g)
  <2>1. go' \in [Savers -> GoState]
    BY <1>4, Defaults DEF WriteFails, Typed
  <2>2. cfg' \in Config \cup {Empty, Torn} /\ tmp' \in Config \cup {Empty, Torn, None}
    BY <1>4 DEF WriteFails, Typed
  <2>3. events' \in 0..MaxEvents
    BY <1>4, HostConfigAssumption DEF WriteFails, Typed
  <2>4. mu' \in Gos \cup {None} /\ pend' \in [Codes -> Enrollment] /\ acked' \in Config
    BY <1>4, FinishTypes DEF WriteFails
  <2> QED
    BY <1>4, <2>1, <2>2, <2>3, <2>4 DEF WriteFails, Typed
<1>5. CASE Rename(g)
  <2>1. \A h \in Savers : MovedOn(h) \in GoState
    BY DEF MovedOn, Typed, GoState
  <2>2. go' \in [Savers -> GoState]
    BY <1>5, <2>1, Defaults DEF Rename, Typed
  <2>3. cfg' \in Config \cup {Empty, Torn} /\ tmp' = None
    BY <1>5 DEF Rename, Typed
  <2>4. mu' \in Gos \cup {None} /\ pend' \in [Codes -> Enrollment] /\ acked' \in Config
    <3>1. Finish(g, tmp # None) /\ (tmp # None) \in BOOLEAN
      BY <1>5 DEF Rename
    <3> QED
      BY <3>1, FinishTypes
  <2> QED
    BY <1>5, <2>2, <2>3, <2>4 DEF Rename, Typed
<1> QED
  BY <1>1, <1>2, <1>3, <1>4, <1>5

\* A request that comes in, in the one place of a goroutine that serves none.
LEMMA RequestTyped ==
  ASSUME Typed, NEW g \in Savers, NEW at \in {"copy", "hash", "lock", "open"}, NEW op \in Ops,
         Request(g, at, op)
  PROVE  /\ go' \in [Savers -> GoState] /\ events' \in 0..MaxEvents
         /\ go' = [go EXCEPT ![g] = [Free EXCEPT !.at = at, !.op = op]]
<1>1. [Free EXCEPT !.at = at, !.op = op] \in GoState
  BY Defaults DEF GoState
<1>2. go' \in [Savers -> GoState]
  BY <1>1 DEF Request, Typed
<1>3. events' \in 0..MaxEvents
  BY HostConfigAssumption DEF Request, Typed
<1> QED
  BY <1>2, <1>3 DEF Request

LEMMA OverlapsTyped == ASSUME Typed, NEW g, Overlaps(g) PROVE overlap' \in BOOLEAN
  BY Zenon DEF Overlaps

\* What Decide makes of an undecided enrollment.
Verdict(p, yes) ==
    [p EXCEPT !.decided = TRUE, !.approved = yes, !.done = ~yes,
              !.said = IF yes THEN @ ELSE @ \cup {"deny"}]

LEMMA VerdictIs ==
  ASSUME NEW p \in Enrollment, NEW yes \in BOOLEAN
  PROVE  /\ Verdict(p, yes) \in Enrollment
         /\ Verdict(p, yes).known = p.known
         /\ Verdict(p, yes).decided
         /\ Verdict(p, yes).approved <=> yes
         /\ yes => Verdict(p, yes).said = p.said
         /\ ~yes => Verdict(p, yes).said = p.said \cup {"deny"}
<1> DEFINE no == ~yes
           s == IF yes THEN p.said ELSE p.said \cup {"deny"}
<1>1. s \in SUBSET {"approve", "deny"} /\ (yes => s = p.said) /\ (~yes => s = p.said \cup {"deny"})
  BY DEF Enrollment
<1>2. no \in BOOLEAN
  OBVIOUS
<1>3. Verdict(p, yes) = [p EXCEPT !.decided = TRUE, !.approved = yes, !.done = no, !.said = s]
  BY Zenon DEF Verdict
<1> HIDE DEF no, s
<1> QED
  BY <1>1, <1>2, <1>3 DEF Enrollment

LEMMA DecideSame ==
  ASSUME NEW g, Decide(g), pend[go[g].op.val].decided
  PROVE  /\ go' = [go EXCEPT ![g] = Free]
         /\ UNCHANGED <<mu, pend, mem, overlap, up, cfg, tmp, acked, dev, events>>
  BY DEF Decide

LEMMA DecideNew ==
  ASSUME Typed, NEW g, go[g].op.val \in Codes, Decide(g), ~pend[go[g].op.val].decided
  PROVE  /\ pend' = [pend EXCEPT ![go[g].op.val] = Verdict(@, go[g].op.kind = "key")]
         /\ mem' = With(mem, go[g].op)
         /\ mu' = IF go[g].op.kind = "key" THEN g ELSE None
         /\ go' = [go EXCEPT ![g] = IF go[g].op.kind = "key" THEN [@ EXCEPT !.at = "copy"] ELSE Free]
         /\ UNCHANGED <<up, cfg, tmp, acked, dev, events>>
         /\ IF go[g].op.kind = "key" THEN Overlaps(g) ELSE UNCHANGED overlap
<1> DEFINE c == go[g].op.val
           yes == go[g].op.kind = "key"
<1>1. pend' = [pend EXCEPT ![c].decided = TRUE, ![c].approved = yes, ![c].done = ~yes,
                           ![c].said = IF yes THEN @ ELSE @ \cup {"deny"}]
  BY Zenon DEF Decide
<1>2. pend \in [Codes -> Enrollment] /\ pend[c] \in Enrollment
  BY DEF Typed
<1>3. pend' = [pend EXCEPT ![c] = Verdict(@, yes)]
  <2> DEFINE s == IF yes THEN pend[c].said ELSE pend[c].said \cup {"deny"}
             no == ~yes
  <2>1. pend' = [pend EXCEPT ![c].decided = TRUE, ![c].approved = yes, ![c].done = no, ![c].said = s]
    BY <1>1, <1>2, Zenon
  <2>2. Verdict(pend[c], yes) =
           [pend[c] EXCEPT !.decided = TRUE, !.approved = yes, !.done = no, !.said = s]
    BY Zenon DEF Verdict
  <2> HIDE DEF yes, no, s
  <2>3. pend' = [pend EXCEPT ![c] = [pend[c] EXCEPT !.decided = TRUE, !.approved = yes,
                                                    !.done = no, !.said = s]]
    BY <1>2, <2>1
  <2> QED
    BY <2>2, <2>3
<1>4. mem' = With(mem, go[g].op)
  BY DEF Decide
<1>5. /\ mu' = IF go[g].op.kind = "key" THEN g ELSE None
      /\ go' = [go EXCEPT ![g] = IF go[g].op.kind = "key" THEN [@ EXCEPT !.at = "copy"] ELSE Free]
  BY DEF Decide
<1>6. /\ UNCHANGED <<up, cfg, tmp, acked, dev, events>>
      /\ IF go[g].op.kind = "key" THEN Overlaps(g) ELSE UNCHANGED overlap
  BY DEF Decide
<1> QED
  BY <1>3, <1>4, <1>5, <1>6

LEMMA HandlerTyped ==
  ASSUME Typed, Placed, NEW g \in Savers,
         \/ SavePassword(g) \/ Decide(g)
         \/ g \in Gos /\ HandleConfig(g)
         \/ g \in Gos /\ \E p \in Passwords : SetPassword(g, p)
         \/ g \in Gos /\ \E c \in Codes, kind \in {"key", "deny"} : Approve(g, c, kind)
         \/ g = Cli /\ Serve
  PROVE  Typed'
<1> USE DEF fileVars, enrollVars
<1>a. go[g] \in GoState /\ go[g].op \in Ops /\ mem \in Config
  BY DEF Typed, GoState
<1>1. CASE SavePassword(g)
  <2>1. go' = [go EXCEPT ![g] = [go[g] EXCEPT !.at = "copy"]]
    BY <1>1 DEF SavePassword, Typed
  <2>2. [go[g] EXCEPT !.at = "copy"] \in GoState
    BY <1>a DEF GoState
  <2>3. mem' \in Config /\ overlap' \in BOOLEAN
    BY <1>a, <1>1, WithOp, OverlapsTyped DEF SavePassword
  <2> QED
    BY <1>1, <2>1, <2>2, <2>3 DEF SavePassword, Typed
<1>2. CASE Decide(g)
  <2> DEFINE c == go[g].op.val
             yes == go[g].op.kind = "key"
  <2>0. g \in Gos /\ c \in Codes /\ yes \in BOOLEAN
    <3>1. g \in Gos
      BY <1>2 DEF Decide, Placed, Savers
    <3>2. go[g].op.kind \in {"key", "deny"}
      BY <1>2, <3>1 DEF Decide, Placed
    <3> QED
      BY <1>a, <3>1, <3>2 DEF Ops
  <2>1. CASE pend[c].decided
    <3> QED
      BY <1>2, <2>1, DecideSame, Defaults DEF Typed
  <2>2. CASE ~pend[c].decided
    <3>1. /\ pend' = [pend EXCEPT ![c] = Verdict(@, yes)]
          /\ mem' = With(mem, go[g].op)
          /\ mu' = IF yes THEN g ELSE None
          /\ go' = [go EXCEPT ![g] = IF yes THEN [@ EXCEPT !.at = "copy"] ELSE Free]
          /\ UNCHANGED <<up, cfg, tmp, acked, dev, events>>
          /\ IF yes THEN Overlaps(g) ELSE UNCHANGED overlap
      BY <1>2, <2>0, <2>2, DecideNew
    <3>2. Verdict(pend[c], yes) \in Enrollment
      BY <2>0, VerdictIs DEF Typed
    <3>3. [go[g] EXCEPT !.at = "copy"] \in GoState
      BY <1>a DEF GoState
    <3>4. overlap' \in BOOLEAN
      BY <3>1, OverlapsTyped DEF Typed
    <3>5. mem' \in Config
      BY <1>a, <3>1, WithOp
    <3>6. go' \in [Savers -> GoState]
      BY <3>1, <3>3, Defaults DEF Typed
    <3> QED
      BY <2>0, <3>1, <3>2, <3>4, <3>5, <3>6 DEF Typed
  <2> QED
    BY <2>1, <2>2
<1>3. CASE g \in Gos /\ HandleConfig(g)
  <2>1. Request(g, "copy", GitOp) /\ mem' = With(mem, GitOp) /\ Overlaps(g)
    BY <1>3 DEF HandleConfig, GitOp
  <2>2. mem' \in Config /\ overlap' \in BOOLEAN
    BY <1>a, <2>1, WithOp, Defaults, OverlapsTyped
  <2>3. go' \in [Savers -> GoState] /\ events' \in 0..MaxEvents
    BY <2>1, RequestTyped, Defaults
  <2> QED
    BY <1>3, <2>2, <2>3 DEF HandleConfig, Typed
<1>4. ASSUME g \in Gos, NEW p \in Passwords, SetPassword(g, p) PROVE Typed'
  <2>1. [kind |-> "pw", val |-> p] \in Ops
    BY DEF Ops
  <2>2. go' \in [Savers -> GoState] /\ events' \in 0..MaxEvents
    BY <1>4, <2>1, RequestTyped DEF SetPassword
  <2> QED
    BY <1>4, <2>2 DEF SetPassword, Typed
<1>5. ASSUME g \in Gos, NEW c \in Codes, NEW kind \in {"key", "deny"}, Approve(g, c, kind)
      PROVE  Typed'
  <2>1. [kind |-> kind, val |-> c] \in Ops
    BY DEF Ops
  <2>2. go' \in [Savers -> GoState] /\ events' \in 0..MaxEvents
    BY <1>5, <2>1, RequestTyped DEF Approve
  <2> QED
    BY <1>5, <2>2 DEF Approve, Typed
<1>6. CASE g = Cli /\ Serve
  <2> DEFINE new == With(Loaded(cfg), AddrOp)
             r == [Free EXCEPT !.at = "open", !.op = AddrOp, !.new = new]
  <2>1. new \in Config
    BY LoadedConfig, WithOp, Defaults DEF Typed
  <2>2. r \in GoState
    <3> HIDE DEF new
    <3> QED
      BY <2>1, Defaults DEF GoState
  <2>3. go' = [go EXCEPT ![Cli] = r]
    BY <1>6 DEF Serve, AddrOp
  <2>4. events' \in 0..MaxEvents /\ overlap' \in BOOLEAN
    BY <1>6, HostConfigAssumption, OverlapsTyped DEF Serve, Typed
  <2> HIDE DEF r
  <2> QED
    BY <1>6, <2>2, <2>3, <2>4 DEF Serve, Typed
<1> QED
  BY <1>1, <1>2, <1>3, <1>4, <1>5, <1>6

LEMMA DaemonTyped ==
  ASSUME Typed,
         \/ \E c \in Codes : EnrollStart(c) \/ DeviceStep(c) \/ Expire(c)
         \/ Crash \/ Start
  PROVE  Typed'
<1> USE DEF fileVars, enrollVars
<1>1. ASSUME NEW c \in Codes, EnrollStart(c) PROVE Typed'
  <2>1. [NoEnroll EXCEPT !.known = TRUE] \in Enrollment
    BY Defaults DEF Enrollment
  <2> QED
    BY <1>1, <2>1 DEF EnrollStart, Typed
<1>2. ASSUME NEW c \in Codes, DeviceStep(c) PROVE Typed'
  BY <1>2 DEF DeviceStep, Poll, Wake, Answer, Typed
<1>3. ASSUME NEW c \in Codes, Expire(c) PROVE Typed'
  <2>1. [pend[c] EXCEPT !.known = FALSE] \in Enrollment
    BY DEF Typed, Enrollment
  <2>2. pend' = [pend EXCEPT ![c] = [pend[c] EXCEPT !.known = FALSE]]
    BY <1>3 DEF Expire, Typed
  <2> QED
    BY <1>3, <2>1, <2>2 DEF Expire, Typed
<1>4. CASE Crash
  <2>1. go' \in [Savers -> GoState] /\ pend' \in [Codes -> Enrollment]
    BY <1>4, Defaults DEF Crash, Typed
  <2>2. events' \in 0..MaxEvents
    BY <1>4, HostConfigAssumption DEF Crash, Typed
  <2>3. dev' \in [Codes -> {"new", "polls", "waits", "reads", "approved", "denied", "gone"}]
    BY <1>4 DEF Crash, Typed
  <2>4. up' \in BOOLEAN
    BY <1>4, Zenon DEF Crash
  <2> QED
    BY <1>4, <2>1, <2>2, <2>3, <2>4, Defaults DEF Crash, Typed
<1>5. CASE Start
  <2>1. up' \in BOOLEAN
    BY <1>5, Zenon DEF Start
  <2>2. mem' \in Config
    BY <1>5, LoadedConfig DEF Start, Typed
  <2> QED
    BY <1>5, <2>1, <2>2 DEF Start, Typed
<1> QED
  BY <1>1, <1>2, <1>3, <1>4, <1>5

-----------------------------------------------------------------------------
(* Where a request may be.                                                 *)

LEMMA FreeIs == /\ Free.at = "none" /\ Free.op.kind = "addr" /\ Free.fd = "none"
                /\ \A at, op : LET r == [Free EXCEPT !.at = at, !.op = op] IN
                      r.at = at /\ r.op = op /\ r.fd = "none" /\ r.new = NoConfig
  BY DEF Free

LEMMA Distinct == \A g \in Savers : g # Cli <=> g \in Gos
  BY HostConfigAssumption DEF Savers

\* What Placed says of one request.
PlacedAt(g, r) ==
    /\ g \in Gos =>
          /\ r.at # "none" => up
          /\ r.at = "hash" => r.op.kind = "pw"
          /\ r.at = "lock" => r.op.kind \in {"key", "deny"}
          /\ r.at \in {"copy", "open", "write", "rename"} => r.op.kind \in {"pw", "git", "key"}
    /\ g = Cli => r.op.kind = "addr" /\ r.at \in {"none", "open", "write", "rename"}
    /\ r.at # "write" => r.fd = "none"

LEMMA PlacedIs == Placed <=> \A g \in Savers : PlacedAt(g, go[g])
  BY Distinct DEF Placed, PlacedAt, Saving, Savers

LEMMA PlacedIsNext == Placed' <=> \A g \in Savers : PlacedAt(g, go[g])'
  BY Distinct DEF Placed, PlacedAt, Saving, Savers

LEMMA PlacedOne ==
  ASSUME Typed, Placed, NEW g \in Savers, NEW r, go' = [go EXCEPT ![g] = r], UNCHANGED up,
         PlacedAt(g, r)
  PROVE  Placed'
<1>1. \A h \in Savers : go'[h] = IF h = g THEN r ELSE go[h]
  BY DEF Typed
<1> QED
  BY <1>1, PlacedIs, PlacedIsNext DEF PlacedAt

LEMMA PlacedStep == Typed /\ Placed /\ [Next]_vars => Placed'
<1> SUFFICES ASSUME Typed, Placed, [Next]_vars PROVE Placed'
  OBVIOUS
<1> USE DEF fileVars, enrollVars
<1>a. \A g \in Savers : PlacedAt(g, go[g]) /\ go[g] \in GoState
  BY PlacedIs DEF Typed
<1>f. \A g \in Savers : PlacedAt(g, Free)
  BY FreeIs, Distinct DEF PlacedAt
<1>1. ASSUME NEW g \in Savers, SaveStep(g) PROVE Placed'
  <2>1. CASE Copy(g)
    <3> DEFINE r == [go[g] EXCEPT !.at = "open", !.new = mem]
    <3>1. go' = [go EXCEPT ![g] = r] /\ UNCHANGED up
      BY <2>1 DEF Copy, Typed
    <3>2. r.at = "open" /\ r.op = go[g].op /\ r.fd = go[g].fd
      BY <1>a DEF GoState
    <3>3. PlacedAt(g, r)
      <4> HIDE DEF r
      <4> QED
        BY <1>a, <2>1, <3>2, Distinct DEF Copy, PlacedAt
    <3> QED
      BY <3>1, <3>3, PlacedOne
  <2>2. CASE Open(g)
    <3> DEFINE r == [go[g] EXCEPT !.at = "write", !.fd = "tmp"]
    <3>1. go' = [go EXCEPT ![g] = r] /\ UNCHANGED up
      BY <2>2 DEF Open, Typed
    <3>2. r.at = "write" /\ r.op = go[g].op
      BY <1>a DEF GoState
    <3>3. PlacedAt(g, r)
      <4> HIDE DEF r
      <4> QED
        BY <1>a, <2>2, <3>2, Distinct DEF Open, PlacedAt
    <3> QED
      BY <3>1, <3>3, PlacedOne
  <2>3. CASE Write(g)
    <3> DEFINE r == [Free EXCEPT !.at = "rename", !.op = go[g].op]
    <3>1. go' = [go EXCEPT ![g] = r] /\ UNCHANGED up
      BY <2>3 DEF Write
    <3>2. PlacedAt(g, r)
      BY <1>a, <2>3, FreeIs, Distinct DEF Write, PlacedAt
    <3> QED
      BY <3>1, <3>2, PlacedOne
  <2>4. CASE WriteFails(g)
    <3>1. go' = [go EXCEPT ![g] = Free] /\ UNCHANGED up
      BY <2>4 DEF WriteFails
    <3> QED
      BY <1>f, <3>1, PlacedOne
  <2>5. CASE Rename(g)
    <3>1. CASE tmp # None
      <4>1. \A h \in Savers : MovedOn(h).at = go[h].at /\ MovedOn(h).op = go[h].op
                              /\ (go[h].fd = "none" => MovedOn(h).fd = "none")
        BY <1>a DEF MovedOn, GoState
      <4>2. \A h \in Savers : PlacedAt(h, MovedOn(h))
        BY <1>a, <4>1 DEF PlacedAt
      <4>3. \A h \in Savers : go'[h] = IF h = g THEN Free ELSE MovedOn(h)
        BY <2>5, <3>1 DEF Rename
      <4> QED
        BY <1>f, <2>5, <4>2, <4>3, PlacedIsNext DEF PlacedAt, Rename
    <3>2. CASE tmp = None
      <4>1. go' = [go EXCEPT ![g] = Free] /\ UNCHANGED up
        BY <2>5, <3>2 DEF Rename
      <4> QED
        BY <1>f, <4>1, PlacedOne
    <3> QED
      BY <3>1, <3>2
  <2>6. CASE SavePassword(g)
    <3> DEFINE r == [go[g] EXCEPT !.at = "copy"]
    <3>1. go' = [go EXCEPT ![g] = r] /\ UNCHANGED up
      BY <2>6 DEF SavePassword, Typed
    <3>2. r.at = "copy" /\ r.op = go[g].op /\ r.fd = go[g].fd
      BY <1>a DEF GoState
    <3>3. PlacedAt(g, r)
      <4> HIDE DEF r
      <4> QED
        BY <1>a, <2>6, <3>2, Distinct DEF SavePassword, PlacedAt
    <3> QED
      BY <3>1, <3>3, PlacedOne
  <2>7. CASE Decide(g)
    <3> DEFINE r == [go[g] EXCEPT !.at = "copy"]
    <3>1. go' = [go EXCEPT ![g] = Free] \/ (go[g].op.kind = "key" /\ go' = [go EXCEPT ![g] = r])
      BY <2>7 DEF Decide, Typed
    <3>2. r.at = "copy" /\ r.op = go[g].op /\ r.fd = go[g].fd
      BY <1>a DEF GoState
    <3>3. go[g].op.kind = "key" => PlacedAt(g, r)
      <4> HIDE DEF r
      <4> QED
        BY <1>a, <2>7, <3>2, Distinct DEF Decide, PlacedAt
    <3>4. UNCHANGED up
      BY <2>7 DEF Decide
    <3> HIDE DEF r
    <3> QED
      BY <1>f, <3>1, <3>3, <3>4, PlacedOne
  <2> QED
    BY <1>1, <2>1, <2>2, <2>3, <2>4, <2>5, <2>6, <2>7 DEF SaveStep
<1>2. ASSUME NEW g \in Gos, HandleConfig(g) PROVE Placed'
  <2> DEFINE r == [Free EXCEPT !.at = "copy", !.op = GitOp]
  <2>1. go' = [go EXCEPT ![g] = r] /\ UNCHANGED up /\ up
    BY <1>2 DEF HandleConfig, Request, GitOp
  <2>2. r.at = "copy" /\ r.op.kind = "git" /\ r.fd = "none"
    BY FreeIs DEF GitOp
  <2> HIDE DEF r
  <2>3. PlacedAt(g, r) /\ g \in Savers
    BY <2>1, <2>2, Distinct DEF PlacedAt, Savers
  <2> QED
    BY <2>1, <2>3, PlacedOne
<1>3. ASSUME NEW g \in Gos, NEW p \in Passwords, SetPassword(g, p) PROVE Placed'
  <2> DEFINE r == [Free EXCEPT !.at = "hash", !.op = [kind |-> "pw", val |-> p]]
  <2>1. go' = [go EXCEPT ![g] = r] /\ UNCHANGED up /\ up
    BY <1>3 DEF SetPassword, Request
  <2>2. r.at = "hash" /\ r.op.kind = "pw" /\ r.fd = "none"
    BY FreeIs
  <2> HIDE DEF r
  <2>3. PlacedAt(g, r) /\ g \in Savers
    BY <2>1, <2>2, Distinct DEF PlacedAt, Savers
  <2> QED
    BY <2>1, <2>3, PlacedOne
<1>4. ASSUME NEW g \in Gos, NEW c \in Codes, NEW kind \in {"key", "deny"}, Approve(g, c, kind)
      PROVE  Placed'
  <2> DEFINE r == [Free EXCEPT !.at = "lock", !.op = [kind |-> kind, val |-> c]]
  <2>1. go' = [go EXCEPT ![g] = r] /\ UNCHANGED up /\ up
    BY <1>4 DEF Approve, Request
  <2>2. r.at = "lock" /\ r.op.kind \in {"key", "deny"} /\ r.fd = "none"
    BY FreeIs
  <2> HIDE DEF r
  <2>3. PlacedAt(g, r) /\ g \in Savers
    BY <2>1, <2>2, Distinct DEF PlacedAt, Savers
  <2> QED
    BY <2>1, <2>3, PlacedOne
<1>5. CASE Serve
  <2> DEFINE r == [Free EXCEPT !.at = "open", !.op = AddrOp, !.new = With(Loaded(cfg), AddrOp)]
  <2>1. go' = [go EXCEPT ![Cli] = r] /\ UNCHANGED up
    BY <1>5 DEF Serve, AddrOp
  <2>2. r.at = "open" /\ r.op.kind = "addr" /\ r.fd = "none"
    BY DEF Free, AddrOp
  <2> HIDE DEF r
  <2>3. PlacedAt(Cli, r) /\ Cli \in Savers
    BY <2>2, Distinct DEF PlacedAt, Savers
  <2> QED
    BY <2>1, <2>3, PlacedOne
<1>6. CASE Crash
  <2>1. \A g \in Savers : go'[g] = IF g = Cli THEN go[g] ELSE Free
    BY <1>6 DEF Crash
  <2> QED
    BY <1>a, <1>f, <2>1, FreeIs, PlacedIsNext, Distinct DEF PlacedAt
<1>7. CASE Start
  <2>1. UNCHANGED go /\ ~up /\ up'
    BY <1>7 DEF Start
  <2> QED
    BY <1>a, <2>1, PlacedIsNext DEF PlacedAt
<1>8. ASSUME NEW c \in Codes, EnrollStart(c) \/ DeviceStep(c) \/ Expire(c) PROVE Placed'
  <2>1. UNCHANGED <<go, up>>
    BY <1>8 DEF EnrollStart, DeviceStep, Poll, Wake, Answer, Expire
  <2> QED
    BY <1>a, <2>1, PlacedIsNext DEF PlacedAt
<1>9. CASE UNCHANGED vars
  BY <1>a, <1>9, PlacedIsNext DEF PlacedAt, vars
<1> QED
  BY <1>1, <1>2, <1>3, <1>4, <1>5, <1>6, <1>7, <1>8, <1>9 DEF Next

LEMMA TypedStep == Typed /\ Placed /\ [Next]_vars => Typed'
<1> SUFFICES ASSUME Typed, Placed, [Next]_vars PROVE Typed'
  OBVIOUS
<1>1. CASE UNCHANGED vars
  BY <1>1 DEF vars, fileVars, enrollVars, Typed
<1>2. CASE Next
  BY <1>2, SaveTyped, HandlerTyped, DaemonTyped DEF Next, SaveStep, Savers
<1> QED
  BY <1>1, <1>2

LEMMA Safe == Spec => [](Typed /\ Placed)
<1>1. Init => Placed
  BY FreeIs, Distinct, PlacedIs DEF Init, PlacedAt, Savers
<1> QED
  BY <1>1, InitTyped, TypedStep, PlacedStep, PTL DEF Spec

(* Every reachable state of the host configuration satisfies TypeOK.       *)
THEOREM TypeCorrect == Spec => []TypeOK
  BY Safe, TypedIs, PTL

-----------------------------------------------------------------------------
(* An enrollment has one verdict.                                          *)

Waits(c) == \E g \in Gos : go[g].at = "lock" /\ go[g].op.val = c
SavesKey(c) == \E g \in Gos : Saving(g) /\ go[g].op.kind = "key" /\ go[g].op.val = c

LEMMA EnrolledFrame ==
  ASSUME NEW c, Enrolled(c), up' = up, pend'[c] = pend[c], dev'[c] = dev[c],
         mem.keys \subseteq mem'.keys, Waits(c)' => Waits(c), SavesKey(c)' => SavesKey(c)
  PROVE  Enrolled(c)'
  BY DEF Enrolled, Waits, SavesKey

\* A step of one request that neither takes it to the lock nor makes it save a key.
LEMMA OneMoves ==
  ASSUME Typed, NEW g \in Savers, NEW r, NEW c, go' = [go EXCEPT ![g] = r],
         r.at # "lock",
         r.at \in {"copy", "open", "write", "rename"} /\ r.op.kind = "key" =>
            Saving(g) /\ r.op = go[g].op
  PROVE  (Waits(c)' => Waits(c)) /\ (SavesKey(c)' => SavesKey(c))
<1>1. \A h \in Savers : go'[h] = IF h = g THEN r ELSE go[h]
  BY DEF Typed
<1> QED
  BY <1>1 DEF Waits, SavesKey, Saving, Savers

\* What Finish does to an enrollment: an approval that was saved is said, no other.
LEMMA FinishEnrolled ==
  ASSUME Typed, Placed, NEW g \in Savers, Saving(g), NEW ok \in BOOLEAN, Finish(g, ok),
         NEW c \in Codes, Enrolled(c), up' = up, dev' = dev, mem' = mem,
         Waits(c)' => Waits(c), SavesKey(c)' => SavesKey(c)
  PROVE  Enrolled(c)'
<1>1. CASE go[g].op.kind = "key" /\ ok /\ go[g].op.val = c
  <2>1. g \in Gos
    BY <1>1 DEF Placed, Savers
  <2>2. pend[c].decided /\ pend[c].approved
    BY <1>1, <2>1 DEF Enrolled
  <2>3. pend' = [pend EXCEPT ![c].done = TRUE, ![c].said = @ \cup {"approve"}]
    BY <1>1 DEF Finish
  <2>4. pend[c] \in Enrollment
    BY DEF Typed
  <2>5. /\ pend'[c].said = pend[c].said \cup {"approve"}
        /\ pend'[c].known = pend[c].known /\ pend'[c].decided = pend[c].decided
        /\ pend'[c].approved = pend[c].approved
    BY <2>3, <2>4 DEF Typed, Enrollment
  <2>6. up
    BY <1>1, <2>1 DEF Placed, Saving
  <2> QED
    BY <2>2, <2>5, <2>6 DEF Enrolled, Waits, SavesKey
<1>2. CASE ~(go[g].op.kind = "key" /\ ok /\ go[g].op.val = c)
  <2>1. pend'[c] = pend[c]
    BY <1>2 DEF Finish, Typed
  <2> QED
    BY <2>1, EnrolledFrame
<1> QED
  BY <1>1, <1>2

LEMMA DecideEnrolled ==
  ASSUME Typed, Placed, NEW g \in Savers, Decide(g), NEW c \in Codes, Enrolled(c)
  PROVE  Enrolled(c)'
<1> DEFINE d == go[g].op.val
           yes == go[g].op.kind = "key"
           r == [go[g] EXCEPT !.at = "copy"]
<1>1. g \in Gos /\ go[g].op.kind \in {"key", "deny"} /\ go[g].at = "lock" /\ go[g] \in GoState
  BY DEF Decide, Placed, Savers, Typed
<1>2. d \in Codes /\ go[g].op \in Ops
  BY <1>1 DEF Ops, GoState
<1>3. r.at = "copy" /\ r.op = go[g].op
  BY <1>1 DEF GoState
<1>f. Free.at = "none"
  BY FreeIs
<1>4. CASE pend[d].decided
  <2>1. (Waits(c)' => Waits(c)) /\ (SavesKey(c)' => SavesKey(c))
    BY <1>4, <1>f, DecideSame, OneMoves
  <2> QED
    BY <1>4, <2>1, DecideSame, EnrolledFrame
<1>5. CASE ~pend[d].decided
  <2>1. /\ pend' = [pend EXCEPT ![d] = Verdict(@, yes)]
        /\ mem' = With(mem, go[g].op)
        /\ go' = [go EXCEPT ![g] = IF yes THEN r ELSE Free]
        /\ UNCHANGED <<up, dev>>
    BY <1>2, <1>5, DecideNew DEF Typed
  <2>2. \A h \in Savers : go'[h] = IF h = g THEN IF yes THEN r ELSE Free ELSE go[h]
    BY <2>1 DEF Typed
  <2>3. mem'.keys = IF yes THEN mem.keys \cup {d} ELSE mem.keys
    BY <1>2, <2>1, WithOp DEF Typed
  <2>4. Waits(c)' => Waits(c)
    BY <1>3, <1>f, <2>2 DEF Waits, Savers
  <2>5. SavesKey(c)' => SavesKey(c) \/ (yes /\ c = d)
    BY <1>3, <1>f, <2>2 DEF SavesKey, Saving, Savers
  <2>6. CASE c # d
    BY <2>1, <2>3, <2>4, <2>5, <2>6, EnrolledFrame DEF Typed
  <2>7. CASE c = d
    <3> DEFINE p == pend[c]
               q == Verdict(p, yes)
    <3>1. p \in Enrollment /\ pend'[c] = q
      BY <2>1, <2>7 DEF Typed
    <3>2. q.known = p.known /\ q.decided /\ (q.approved <=> yes) /\ (yes => q.said = p.said)
          /\ (~yes => q.said = p.said \cup {"deny"})
      BY <3>1, VerdictIs
    <3>3. p.said = {} /\ ~p.decided
      BY <1>5, <2>7 DEF Enrolled
    <3>4. dev[c] \notin {"new", "approved", "denied"}
      BY <1>1, <2>7, <3>3 DEF Enrolled
    <3>5. up
      BY <1>1 DEF Placed
    <3>6. ~yes => ~SavesKey(c)'
      <4>1. ~SavesKey(c)
        BY <3>3 DEF Enrolled, SavesKey
      <4> QED
        BY <2>5, <4>1
    <3> HIDE DEF q, yes, p, d
    <3> QED
      BY <2>1, <2>3, <2>7, <3>1, <3>2, <3>3, <3>4, <3>5, <3>6 DEF Enrolled, SavesKey
  <2> QED
    BY <2>6, <2>7
<1> QED
  BY <1>4, <1>5

LEMMA EnrolledStep ==
  ASSUME Typed, Placed, [Next]_vars, NEW c \in Codes, Enrolled(c)
  PROVE  Enrolled(c)'
<1> USE DEF fileVars, enrollVars
<1>a. \A g \in Savers : go[g] \in GoState /\ go[g].op \in Ops
  BY DEF Typed, GoState
<1>f. Free.at = "none"
  BY FreeIs
<1>1. ASSUME NEW g \in Savers, SaveStep(g) PROVE Enrolled(c)'
  <2>1. CASE Copy(g) \/ Open(g) \/ Write(g)
    <3>1. PICK r : /\ go' = [go EXCEPT ![g] = r] /\ r.op = go[g].op
                   /\ r.at \in {"open", "write", "rename"}
      <4>1. CASE Copy(g)
        <5>1. go' = [go EXCEPT ![g] = [go[g] EXCEPT !.at = "open", !.new = mem]]
          BY <4>1 DEF Copy, Typed
        <5>2. /\ [go[g] EXCEPT !.at = "open", !.new = mem].op = go[g].op
              /\ [go[g] EXCEPT !.at = "open", !.new = mem].at = "open"
          BY <1>a DEF GoState
        <5> QED
          BY <5>1, <5>2
      <4>2. CASE Open(g)
        <5>1. go' = [go EXCEPT ![g] = [go[g] EXCEPT !.at = "write", !.fd = "tmp"]]
          BY <4>2 DEF Open, Typed
        <5>2. /\ [go[g] EXCEPT !.at = "write", !.fd = "tmp"].op = go[g].op
              /\ [go[g] EXCEPT !.at = "write", !.fd = "tmp"].at = "write"
          BY <1>a DEF GoState
        <5> QED
          BY <5>1, <5>2
      <4>3. CASE Write(g)
        <5>1. go' = [go EXCEPT ![g] = [Free EXCEPT !.at = "rename", !.op = go[g].op]]
          BY <4>3 DEF Write
        <5>2. /\ [Free EXCEPT !.at = "rename", !.op = go[g].op].op = go[g].op
              /\ [Free EXCEPT !.at = "rename", !.op = go[g].op].at = "rename"
          BY DEF Free
        <5> QED
          BY <5>1, <5>2
      <4> QED
        BY <2>1, <4>1, <4>2, <4>3
    <3>2. Saving(g) /\ UNCHANGED <<up, pend, dev, mem>>
      BY <2>1 DEF Copy, Open, Write, Saving
    <3>3. (Waits(c)' => Waits(c)) /\ (SavesKey(c)' => SavesKey(c))
      BY <3>1, <3>2, OneMoves
    <3> QED
      BY <3>2, <3>3, EnrolledFrame
  <2>2. CASE WriteFails(g)
    <3>1. /\ go' = [go EXCEPT ![g] = Free] /\ Finish(g, FALSE) /\ Saving(g)
          /\ UNCHANGED <<up, dev, mem>>
      BY <2>2 DEF WriteFails, Saving
    <3>2. (Waits(c)' => Waits(c)) /\ (SavesKey(c)' => SavesKey(c))
      BY <1>f, <3>1, OneMoves
    <3> QED
      BY <3>1, <3>2, FinishEnrolled
  <2>3. CASE Rename(g)
    <3>1. Finish(g, tmp # None) /\ Saving(g) /\ UNCHANGED <<up, dev, mem>>
      BY <2>3 DEF Rename, Saving
    <3>2. (Waits(c)' => Waits(c)) /\ (SavesKey(c)' => SavesKey(c))
      <4>1. CASE tmp = None
        BY <1>f, <2>3, <4>1, OneMoves DEF Rename
      <4>2. CASE tmp # None
        <5>1. \A h \in Savers : MovedOn(h).at = go[h].at /\ MovedOn(h).op = go[h].op
          BY <1>a DEF MovedOn, GoState
        <5>2. \A h \in Savers : go'[h] = IF h = g THEN Free ELSE MovedOn(h)
          BY <2>3, <4>2 DEF Rename
        <5> QED
          BY <1>f, <5>1, <5>2 DEF Waits, SavesKey, Saving, Savers
      <4> QED
        BY <4>1, <4>2
    <3> QED
      BY <3>1, <3>2, FinishEnrolled
  <2>4. CASE SavePassword(g)
    <3> DEFINE r == [go[g] EXCEPT !.at = "copy"]
    <3>1. go' = [go EXCEPT ![g] = r] /\ mem' = With(mem, go[g].op) /\ UNCHANGED <<up, pend, dev>>
      BY <2>4 DEF SavePassword, Typed
    <3>2. r.at = "copy" /\ r.op = go[g].op
      BY <1>a DEF GoState
    <3>3. go[g].op.kind = "pw"
      BY <2>4 DEF SavePassword, Placed, Savers
    <3>4. mem'.keys = mem.keys
      BY <1>a, <3>1, <3>3, WithOp DEF Typed
    <3> HIDE DEF r
    <3>5. (Waits(c)' => Waits(c)) /\ (SavesKey(c)' => SavesKey(c))
      BY <3>1, <3>2, <3>3, OneMoves
    <3> QED
      BY <3>1, <3>4, <3>5, EnrolledFrame
  <2>5. CASE Decide(g)
    BY <2>5, DecideEnrolled
  <2> QED
    BY <1>1, <2>1, <2>2, <2>3, <2>4, <2>5 DEF SaveStep
<1>2. ASSUME NEW g \in Gos, HandleConfig(g) PROVE Enrolled(c)'
  <2> DEFINE r == [Free EXCEPT !.at = "copy", !.op = GitOp]
  <2>1. /\ go' = [go EXCEPT ![g] = r] /\ mem' = With(mem, GitOp) /\ UNCHANGED <<up, pend, dev>>
        /\ g \in Savers
    BY <1>2 DEF HandleConfig, Request, GitOp, Savers
  <2>2. r.at = "copy" /\ r.op.kind = "git"
    BY FreeIs DEF GitOp
  <2>3. mem.keys \subseteq mem'.keys
    <3>1. mem'.keys = IF GitOp.kind = "key" THEN mem.keys \cup {GitOp.val} ELSE mem.keys
      BY <2>1, WithOp, Defaults DEF Typed
    <3> QED
      BY <3>1 DEF GitOp
  <2> HIDE DEF r
  <2>4. (Waits(c)' => Waits(c)) /\ (SavesKey(c)' => SavesKey(c))
    BY <2>1, <2>2, OneMoves
  <2> QED
    BY <2>1, <2>3, <2>4, EnrolledFrame
<1>3. ASSUME NEW g \in Gos, NEW p \in Passwords, SetPassword(g, p) PROVE Enrolled(c)'
  <2> DEFINE r == [Free EXCEPT !.at = "hash", !.op = [kind |-> "pw", val |-> p]]
  <2>1. go' = [go EXCEPT ![g] = r] /\ UNCHANGED <<up, pend, dev, mem>> /\ g \in Savers
    BY <1>3 DEF SetPassword, Request, Savers
  <2>2. r.at = "hash" /\ r.op.kind = "pw"
    BY FreeIs
  <2> HIDE DEF r
  <2>3. (Waits(c)' => Waits(c)) /\ (SavesKey(c)' => SavesKey(c))
    BY <2>1, <2>2, OneMoves
  <2> QED
    BY <2>1, <2>3, EnrolledFrame
<1>4. ASSUME NEW g \in Gos, NEW d \in Codes, NEW kind \in {"key", "deny"}, Approve(g, d, kind)
      PROVE  Enrolled(c)'
  <2> DEFINE r == [Free EXCEPT !.at = "lock", !.op = [kind |-> kind, val |-> d]]
  <2>1. go' = [go EXCEPT ![g] = r] /\ UNCHANGED <<up, pend, dev, mem>> /\ pend[d].known
    BY <1>4 DEF Approve, Request
  <2>2. r.at = "lock" /\ r.op.val = d
    BY FreeIs
  <2> HIDE DEF r
  <2>3. \A h \in Savers : go'[h] = IF h = g THEN r ELSE go[h]
    BY <2>1 DEF Typed
  <2>4. /\ Waits(c)' => Waits(c) \/ pend[c].known
        /\ SavesKey(c)' => SavesKey(c)
    BY <2>1, <2>2, <2>3 DEF Waits, SavesKey, Saving, Savers
  <2> QED
    BY <2>1, <2>4 DEF Enrolled, Waits, SavesKey
<1>5. CASE Serve
  <2>1. /\ UNCHANGED <<up, pend, dev, mem>> /\ go' = [go EXCEPT ![Cli] =
            [Free EXCEPT !.at = "open", !.op = AddrOp, !.new = With(Loaded(cfg), AddrOp)]]
    BY <1>5 DEF Serve, AddrOp
  <2>2. \A g \in Gos : go'[g] = go[g]
    BY <2>1, HostConfigAssumption DEF Typed, Savers
  <2>3. (Waits(c)' => Waits(c)) /\ (SavesKey(c)' => SavesKey(c))
    BY <2>2 DEF Waits, SavesKey, Saving
  <2> QED
    BY <2>1, <2>3, EnrolledFrame
<1>6. CASE Crash
  <2>1. \A g \in Gos : go'[g] = Free
    BY <1>6, HostConfigAssumption DEF Crash, Savers
  <2>2. ~Waits(c)' /\ ~SavesKey(c)'
    BY <1>f, <2>1 DEF Waits, SavesKey, Saving
  <2>3. pend'[c] = NoEnroll /\ ~NoEnroll.known /\ ~NoEnroll.decided /\ ~NoEnroll.approved
        /\ NoEnroll.said = {}
    BY <1>6 DEF Crash, NoEnroll
  <2> QED
    BY <2>2, <2>3 DEF Enrolled, Waits, SavesKey
<1>7. CASE Start
  <2>1. UNCHANGED <<go, pend, dev>> /\ ~up
    BY <1>7 DEF Start
  <2>2. ~Waits(c) /\ ~SavesKey(c)
    BY <2>1 DEF Placed, Waits, SavesKey, Saving
  <2>3. ~Waits(c)' /\ ~SavesKey(c)'
    BY <2>1, <2>2 DEF Waits, SavesKey, Saving
  <2>4. pend'[c] = NoEnroll /\ ~NoEnroll.known /\ ~NoEnroll.decided /\ ~NoEnroll.approved
        /\ NoEnroll.said = {}
    BY <2>1 DEF Enrolled, NoEnroll
  <2> QED
    BY <2>3, <2>4 DEF Enrolled, Waits, SavesKey
<1>8. ASSUME NEW d \in Codes, EnrollStart(d) \/ DeviceStep(d) \/ Expire(d) PROVE Enrolled(c)'
  <2>1. UNCHANGED <<go, up, mem>>
    BY <1>8 DEF EnrollStart, DeviceStep, Poll, Wake, Answer, Expire
  <2>2. Waits(c)' = Waits(c) /\ SavesKey(c)' = SavesKey(c)
    BY <2>1 DEF Waits, SavesKey, Saving
  <2>3. CASE c # d
    <3>1. pend'[c] = pend[c] /\ dev'[c] = dev[c]
      BY <1>8, <2>3 DEF EnrollStart, DeviceStep, Poll, Wake, Answer, Expire, Typed
    <3> QED
      BY <2>1, <2>2, <3>1, EnrolledFrame
  <2>4. CASE c = d /\ EnrollStart(d)
    <3>1. /\ up /\ dev[c] = "new" /\ dev'[c] = "polls"
          /\ pend'[c] = [NoEnroll EXCEPT !.known = TRUE]
      BY <2>4 DEF EnrollStart, Typed
    <3>2. ~pend'[c].decided /\ ~pend'[c].approved /\ pend'[c].said = {}
      BY <3>1 DEF NoEnroll
    <3>3. ~SavesKey(c)
      BY <3>1 DEF Enrolled, SavesKey
    <3> QED
      BY <2>1, <2>2, <3>1, <3>2, <3>3 DEF Enrolled, Waits, SavesKey
  <2>5. CASE c = d /\ DeviceStep(d)
    <3>1. pend' = pend /\ dev[c] # "new" /\ dev'[c] # "new"
      BY <2>5 DEF DeviceStep, Poll, Wake, Answer, Typed
    <3>2. CASE Poll(c) \/ Wake(c)
      <4>1. dev'[c] \notin {"new", "approved", "denied"}
        BY <3>2 DEF Poll, Wake, Typed
      <4> QED
        BY <2>1, <2>2, <3>1, <4>1 DEF Enrolled, Waits, SavesKey
    <3>3. CASE Answer(c)
      <4>1. dev'[c] = CASE ~pend[c].decided -> "polls" [] pend[c].approved -> "approved" [] OTHER -> "denied"
        BY <3>3 DEF Answer, Typed
      <4> QED
        BY <2>1, <2>2, <3>1, <4>1 DEF Enrolled, Waits, SavesKey
    <3> QED
      BY <2>5, <3>2, <3>3 DEF DeviceStep
  <2>6. CASE c = d /\ Expire(d)
    <3>1. dev' = dev /\ pend[c].known /\ pend'[c] = [pend[c] EXCEPT !.known = FALSE] /\ pend[c] \in Enrollment
      BY <2>6 DEF Expire, Typed
    <3>2. /\ ~pend'[c].known /\ pend'[c].decided = pend[c].decided
          /\ pend'[c].approved = pend[c].approved /\ pend'[c].said = pend[c].said
      BY <3>1 DEF Enrollment
    <3>3. up
      BY <3>1 DEF Enrolled, NoEnroll
    <3> QED
      BY <2>1, <2>2, <3>1, <3>2, <3>3 DEF Enrolled, Waits, SavesKey
  <2> QED
    BY <1>8, <2>3, <2>4, <2>5, <2>6
<1>9. CASE UNCHANGED vars
  BY <1>9 DEF vars, Enrolled, Saving
<1> QED
  BY <1>1, <1>2, <1>3, <1>4, <1>5, <1>6, <1>7, <1>8, <1>9 DEF Next

\* Two tabs that approve and deny one enrollment: one of them decides it, the other is told
\* it is decided, and the device hears that verdict (enroll.go handleEnrollApprove,
\* handleEnrollStatus); an approval is in the allowlist of the daemon that gave it.
THEOREM VerdictIsOne == Spec => []OneVerdict
<1> DEFINE EInv == \A c \in Codes : Enrolled(c)
<1>1. Init => EInv
  BY FreeIs DEF Init, Enrolled, NoEnroll, Saving, Savers
<1>2. Typed /\ Placed /\ EInv /\ [Next]_vars => EInv'
  BY EnrolledStep
<1>3. Typed /\ EInv => OneVerdict
  <2> SUFFICES ASSUME Typed, NEW c \in Codes, Enrolled(c)
               PROVE  /\ pend[c].said # {"approve", "deny"}
                      /\ pend[c].decided =>
                           /\ dev[c] = "approved" => c \in mem.keys /\ "deny" \notin pend[c].said
                           /\ dev[c] = "denied" => "approve" \notin pend[c].said
    BY DEF OneVerdict
  <2> QED
    BY DEF Enrolled
<1> HIDE DEF EInv
<1> QED
  BY Safe, <1>1, <1>2, <1>3, PTL DEF Spec

-----------------------------------------------------------------------------
(* What was answered ok stays.                                             *)

LEMMA HoldsIs == \A c : Holds(c) <=> Has(c, acked)
  BY DEF Holds, Has

\* What has a, with the change made, has a with the change.
LEMMA HasWith ==
  ASSUME NEW a \in Config, NEW c \in Config, Has(c, a), NEW op \in Ops
  PROVE  Has(With(c, op), With(a, op))
  BY WithOp DEF Has

\* A change that is no new password takes nothing away, from either.
LEMMA HasMore ==
  ASSUME NEW a \in Config, NEW c \in Config, NEW op \in Ops, op.kind # "pw", Has(c, a)
  PROVE  Has(With(c, op), a)
  BY WithOp DEF Has

LEMMA HasLess ==
  ASSUME NEW a \in Config, NEW c \in Config, NEW op \in Ops, op.kind # "pw", Has(c, With(a, op))
  PROVE  Has(c, a)
  BY WithOp DEF Has

\* A password that may be either of two is not asked for.
LEMMA HasNoPassword ==
  ASSUME NEW a \in Config, NEW c \in Config, NEW op \in Ops,
         Has(c, a) \/ (op.kind = "pw" /\ Has(c, With(a, op)))
  PROVE  Has(c, [a EXCEPT !.pw = None])
<1>1. /\ [a EXCEPT !.pw = None].pw = None /\ [a EXCEPT !.pw = None].git = a.git
      /\ [a EXCEPT !.pw = None].keys = a.keys
  BY DEF Config
<1>2. CASE Has(c, a)
  BY <1>1, <1>2 DEF Has
<1>3. CASE op.kind = "pw" /\ Has(c, With(a, op))
  <2>1. (With(a, op).git <=> (a.git \/ op.kind = "git")) /\ With(a, op).keys = a.keys
    BY <1>3, WithOp
  <2>2. (With(a, op).git => c.git) /\ With(a, op).keys \subseteq c.keys
    BY <1>3, Zenon DEF Has
  <2> HIDE DEF With
  <2>3. (a.git => c.git) /\ a.keys \subseteq c.keys
    BY <2>1, <2>2, Zenon
  <2> QED
    BY <1>1, <2>3, Zenon DEF Has
<1> QED
  BY <1>2, <1>3

\* Nobody saves while another does, or the overlap is noted.
LEMMA NoOverlap ==
  ASSUME Typed, NEW g, Overlaps(g), ~overlap'
  PROVE  ~overlap /\ \A h \in Savers \ {g} : ~Saving(h)
  BY Zenon DEF Overlaps

\* Where at most one request saves, it is enough to look at that one.
LEMMA KeptByOne ==
  ASSUME NEW g \in Savers, \A h \in Savers \ {g} : ~Saving(h)', OnDisk', Own(g)',
         up' /\ ~(g \in Gos /\ Saving(g)') => Has(mem', acked')
  PROVE  Kept'
<1>1. \A h \in Savers \ {g} : Own(h)'
  BY DEF Own, Saving
<1>2. (\A h \in Gos : ~Saving(h)') => ~(g \in Gos /\ Saving(g)')
  OBVIOUS
<1> QED
  BY <1>1, <1>2 DEF Kept, OneSave

\* A step that leaves what saves, and what it needs, as it is.
LEMMA KeptFrame ==
  ASSUME Kept, UNCHANGED <<cfg, tmp, acked, overlap, mem, up>>,
         \A h \in Savers : Saving(h) \/ Saving(h)' => go'[h] = go[h]
  PROVE  Kept'
<1>1. \A h \in Savers : Saving(h)' <=> Saving(h)
  BY DEF Saving
<1>2. ASSUME NEW h \in Savers, Own(h) PROVE Own(h)'
  <2>1. CASE Saving(h)
    BY <1>2, <2>1 DEF Own, Saving, Asked
  <2>2. CASE ~Saving(h)
    BY <1>1, <2>2 DEF Own, Saving
  <2> QED
    BY <2>1, <2>2
<1> QED
  BY <1>1, <1>2 DEF Kept, OneSave, OnDisk, Savers

\* The steps of a save.
LEMMA SaveKept ==
  ASSUME Typed, Placed, Kept, NEW g \in Savers,
         Copy(g) \/ Open(g) \/ Write(g) \/ WriteFails(g) \/ Rename(g)
  PROVE  Kept'
<1> USE DEF fileVars, enrollVars
<1>a. SUFFICES ASSUME ~overlap' PROVE Kept'
  BY DEF Kept
<1>b. /\ OneSave /\ Saving(g) /\ overlap' = overlap
      /\ go[g] \in GoState /\ go[g].op \in Ops /\ mem \in Config /\ acked \in Config
  BY <1>a DEF Kept, Copy, Open, Write, WriteFails, Rename, Saving, Typed, GoState
<1>c. /\ \A h \in Savers \ {g} : ~Saving(h)
      /\ Own(g) /\ OnDisk
      /\ ~(g \in Gos) /\ up => Has(mem, acked)
  BY <1>b DEF OneSave, Savers
<1>d. g = Cli => go[g].op.kind = "addr" /\ go[g].at # "copy"
  BY DEF Placed
<1>f. Free.at = "none"
  BY FreeIs
<1>1. CASE Copy(g)
  <2> DEFINE r == [go[g] EXCEPT !.at = "open", !.new = mem]
  <2>1. go' = [go EXCEPT ![g] = r] /\ UNCHANGED <<cfg, tmp, acked, mem, up>> /\ g \in Gos
    BY <1>1, <1>d DEF Copy, Typed, Savers
  <2>2. r.at = "open" /\ r.new = mem /\ r.op = go[g].op
    BY <1>b DEF GoState
  <2> HIDE DEF r
  <2>3. go'[g] = r /\ \A h \in Savers \ {g} : go'[h] = go[h]
    BY <2>1 DEF Typed
  <2>4. Own(g)' /\ Saving(g)'
    BY <1>b, <1>c, <2>1, <2>2, <2>3 DEF Own, Saving, Asked
  <2> QED
    BY <1>c, <2>1, <2>3, <2>4, KeptByOne DEF Saving, OnDisk
<1>2. CASE Open(g)
  <2> DEFINE r == [go[g] EXCEPT !.at = "write", !.fd = "tmp"]
  <2>1. go' = [go EXCEPT ![g] = r] /\ UNCHANGED <<cfg, acked, mem, up>> /\ tmp' = Empty
    BY <1>2 DEF Open, Typed
  <2>2. r.at = "write" /\ r.new = go[g].new /\ r.op = go[g].op /\ r.fd = "tmp"
    BY <1>b DEF GoState
  <2> HIDE DEF r
  <2>3. go'[g] = r /\ \A h \in Savers \ {g} : go'[h] = go[h]
    BY <2>1 DEF Typed
  <2>4. Own(g)' /\ Saving(g)'
    BY <1>2, <1>b, <1>c, <2>1, <2>2, <2>3 DEF Own, Saving, Asked, Open
  <2> QED
    BY <1>c, <2>1, <2>3, <2>4, KeptByOne DEF Saving, OnDisk
<1>3. CASE Write(g)
  <2> DEFINE r == [Free EXCEPT !.at = "rename", !.op = go[g].op]
  <2>1. go[g].fd = "tmp" /\ tmp = Empty /\ Has(go[g].new, Asked(g)) /\ go[g].new \in Config
    BY <1>3, <1>b, <1>c DEF Own, Write, GoState
  <2>2. go' = [go EXCEPT ![g] = r] /\ UNCHANGED <<cfg, acked, mem, up>> /\ tmp' = go[g].new
    BY <1>3, <2>1 DEF Write, Written
  <2>3. r.at = "rename" /\ r.op = go[g].op
    BY DEF Free
  <2> HIDE DEF r
  <2>4. go'[g] = r /\ \A h \in Savers \ {g} : go'[h] = go[h]
    BY <2>2 DEF Typed
  <2>5. Own(g)' /\ Saving(g)'
    BY <1>b, <1>c, <2>1, <2>2, <2>3, <2>4 DEF Own, Saving, Asked
  <2> QED
    BY <1>c, <2>2, <2>4, <2>5, KeptByOne DEF Saving, OnDisk
<1>4. CASE WriteFails(g)
  <2>1. go[g].fd = "tmp"
    BY <1>4, <1>c DEF Own, WriteFails
  <2>2. go' = [go EXCEPT ![g] = Free] /\ UNCHANGED <<cfg, mem, up>> /\ Finish(g, FALSE)
    BY <1>4, <2>1 DEF WriteFails
  <2>3. go'[g] = Free /\ \A h \in Savers \ {g} : go'[h] = go[h]
    BY <2>2 DEF Typed
  <2>4. acked' = IF go[g].op.kind = "pw" THEN [acked EXCEPT !.pw = None] ELSE acked
    BY <2>2 DEF Finish
  <2>5. OnDisk'
    <3>1. Loaded(cfg) \in Config
      BY LoadedConfig DEF Typed
    <3> QED
      BY <1>b, <1>c, <2>2, <2>4, <3>1, HasNoPassword DEF OnDisk
  <2>6. up => Has(mem, acked')
    <3>1. CASE g \in Gos
      BY <1>b, <1>c, <2>4, <3>1, HasLess, HasNoPassword DEF Own, Asked
    <3>2. CASE g = Cli
      BY <1>c, <1>d, <2>4, <3>2, HostConfigAssumption
    <3> QED
      BY <3>1, <3>2 DEF Savers
  <2>7. ~Saving(g)' /\ Own(g)'
    BY <1>f, <2>3 DEF Saving, Own
  <2> QED
    BY <1>c, <2>2, <2>3, <2>5, <2>6, <2>7, KeptByOne DEF Saving
<1>5. CASE Rename(g)
  <2>1. tmp \in Config /\ Has(tmp, Asked(g)) /\ tmp # None
    BY <1>5, <1>c, ContentsAssumption DEF Own, Rename
  <2>2. /\ cfg' = tmp /\ Finish(g, TRUE) /\ UNCHANGED <<mem, up>>
        /\ go' = [h \in Savers |-> IF h = g THEN Free ELSE MovedOn(h)]
    BY <1>5, <2>1 DEF Rename
  <2>3. go'[g] = Free /\ \A h \in Savers \ {g} : go'[h].at = go[h].at
    BY <2>2 DEF MovedOn, Typed, GoState
  <2>4. acked' = IF g \in Gos THEN Asked(g) ELSE acked
    BY <2>2, HostConfigAssumption DEF Finish, Asked, Savers
  <2>5. OnDisk'
    <3>1. Loaded(cfg') = tmp
      BY <2>1, <2>2, LoadedConfig
    <3>2. Has(tmp, acked')
      <4>1. CASE g \in Gos
        BY <2>1, <2>4, <4>1
      <4>2. CASE g = Cli
        BY <1>b, <1>d, <2>1, <2>4, <4>2, HasLess, HostConfigAssumption DEF Asked
      <4> QED
        BY <4>1, <4>2 DEF Savers
    <3> QED
      BY <2>1, <2>2, <3>1, <3>2 DEF OnDisk
  <2>6. up => Has(mem, acked')
    BY <1>b, <1>c, <2>4 DEF Own
  <2>7. ~Saving(g)' /\ Own(g)'
    BY <1>f, <2>3 DEF Saving, Own
  <2> QED
    BY <1>c, <2>2, <2>3, <2>5, <2>6, <2>7, KeptByOne DEF Saving
<1> QED
  BY <1>1, <1>2, <1>3, <1>4, <1>5

\* A handler changes hostCfg and starts the save of it, alone.
LEMMA StartsSaving ==
  ASSUME Typed, Placed, Kept, NEW g \in Gos, NEW op \in Ops, NEW r, up, ~Saving(g), Overlaps(g),
         go' = [go EXCEPT ![g] = r], r.at = "copy", r.op = op, mem' = With(mem, op),
         UNCHANGED <<cfg, tmp, acked, up>>
  PROVE  Kept'
<1>1. SUFFICES ASSUME ~overlap' PROVE Kept'
  BY DEF Kept
<1>2. ~overlap /\ \A h \in Savers \ {g} : ~Saving(h)
  BY <1>1, NoOverlap
<1>3. OnDisk /\ Has(mem, acked)
  BY <1>2 DEF Kept, OneSave, Savers
<1>4. go'[g] = r /\ \A h \in Savers \ {g} : go'[h] = go[h]
  BY DEF Typed, Savers
<1>5. Has(mem', With(acked, op))
  BY <1>3, HasWith DEF Typed
<1>6. Own(g)' /\ Saving(g)'
  BY <1>4, <1>5 DEF Own, Saving, Asked
<1>7. OnDisk' /\ g \in Savers
  BY <1>3 DEF OnDisk, Savers
<1> QED
  BY <1>2, <1>4, <1>6, <1>7, KeptByOne DEF Saving

LEMMA DecideKept ==
  ASSUME Typed, Placed, Kept, NEW g \in Savers, Decide(g)
  PROVE  Kept'
<1> DEFINE r == [go[g] EXCEPT !.at = "copy"]
<1>1. /\ g \in Gos /\ up /\ ~Saving(g) /\ go[g].op.kind \in {"key", "deny"}
      /\ go[g] \in GoState /\ go[g].op \in Ops /\ go[g].op.val \in Codes
  <2>1. g \in Gos /\ go[g] \in GoState /\ go[g].at = "lock"
    BY DEF Decide, Placed, Savers, Typed
  <2>2. up /\ ~Saving(g) /\ go[g].op.kind \in {"key", "deny"} /\ go[g].op \in Ops
    BY <2>1 DEF Placed, Saving, GoState
  <2> QED
    BY <2>1, <2>2, WithOp DEF Typed
<1>2. r.at = "copy" /\ r.op = go[g].op
  BY <1>1 DEF GoState
<1>f. Free.at = "none"
  BY FreeIs
<1> HIDE DEF r
<1>3. CASE pend[go[g].op.val].decided
  <2>1. go' = [go EXCEPT ![g] = Free] /\ UNCHANGED <<mem, overlap, up, cfg, tmp, acked>>
    BY <1>3, DecideSame
  <2>2. \A h \in Savers : Saving(h) \/ Saving(h)' => go'[h] = go[h]
    BY <1>1, <1>f, <2>1 DEF Typed, Saving
  <2> QED
    BY <2>1, <2>2, KeptFrame
<1>4. CASE ~pend[go[g].op.val].decided /\ go[g].op.kind = "key"
  <2>1. /\ mem' = With(mem, go[g].op) /\ go' = [go EXCEPT ![g] = r] /\ Overlaps(g)
        /\ UNCHANGED <<up, cfg, tmp, acked>>
    BY <1>1, <1>4, DecideNew DEF r
  <2> QED
    BY <1>1, <1>2, <2>1, StartsSaving
<1>5. CASE ~pend[go[g].op.val].decided /\ go[g].op.kind # "key"
  <2>1. /\ mem' = With(mem, go[g].op) /\ go' = [go EXCEPT ![g] = Free]
        /\ UNCHANGED <<up, cfg, tmp, acked, overlap>>
    BY <1>1, <1>5, DecideNew
  <2>2. \A h \in Savers : Saving(h) \/ Saving(h)' => go'[h] = go[h]
    BY <1>1, <1>f, <2>1 DEF Typed, Saving
  <2>3. \A a \in Config : Has(mem, a) => Has(mem', a)
    BY <1>1, <1>5, <2>1, HasMore DEF Typed
  <2>4. \A h \in Savers : Saving(h)' <=> Saving(h)
    BY <2>2 DEF Saving
  <2>5. ASSUME NEW h \in Savers, Own(h) PROVE Own(h)'
    <3>1. CASE Saving(h)
      <4>1. Asked(h)' = Asked(h) /\ Asked(h) \in Config /\ go'[h] = go[h]
        BY <2>1, <2>2, <3>1, WithOp DEF Asked, Typed, GoState
      <4> QED
        BY <2>1, <2>3, <2>5, <3>1, <4>1 DEF Own, Saving
    <3>2. CASE ~Saving(h)
      BY <2>4, <3>2 DEF Own, Saving
    <3> QED
      BY <3>1, <3>2
  <2> QED
    BY <2>1, <2>3, <2>4, <2>5 DEF Kept, OneSave, OnDisk, Savers, Typed
<1> QED
  BY <1>3, <1>4, <1>5

LEMMA KeptStep == Typed /\ Placed /\ Kept /\ [Next]_vars => Kept'
<1> SUFFICES ASSUME Typed, Placed, Kept, [Next]_vars PROVE Kept'
  OBVIOUS
<1> USE DEF fileVars, enrollVars
<1>f. Free.at = "none"
  BY FreeIs
<1>1. ASSUME NEW g \in Savers, SaveStep(g) PROVE Kept'
  <2>1. CASE SavePassword(g)
    <3> DEFINE r == [go[g] EXCEPT !.at = "copy"]
    <3>1. /\ go' = [go EXCEPT ![g] = r] /\ mem' = With(mem, go[g].op) /\ Overlaps(g)
          /\ UNCHANGED <<cfg, tmp, acked, up>>
      BY <2>1 DEF SavePassword, Typed
    <3>2. r.at = "copy" /\ r.op = go[g].op /\ go[g].op \in Ops
      BY DEF Typed, GoState
    <3>3. g \in Gos /\ up /\ ~Saving(g)
      BY <2>1 DEF SavePassword, Placed, Savers, Saving
    <3> HIDE DEF r
    <3> QED
      BY <3>1, <3>2, <3>3, StartsSaving
  <2> QED
    BY <1>1, <2>1, SaveKept, DecideKept DEF SaveStep
<1>2. ASSUME NEW g \in Gos, HandleConfig(g) PROVE Kept'
  <2> DEFINE r == [Free EXCEPT !.at = "copy", !.op = GitOp]
  <2>1. /\ go' = [go EXCEPT ![g] = r] /\ mem' = With(mem, GitOp) /\ Overlaps(g) /\ up /\ ~Saving(g)
        /\ UNCHANGED <<cfg, tmp, acked, up>>
    BY <1>2, <1>f DEF HandleConfig, Request, GitOp, Saving
  <2>2. r.at = "copy" /\ r.op = GitOp
    BY FreeIs
  <2> HIDE DEF r
  <2> QED
    BY <2>1, <2>2, StartsSaving, Defaults
<1>3. ASSUME NEW g \in Gos, NEW at \in {"hash", "lock"}, NEW op, Request(g, at, op),
             UNCHANGED <<cfg, tmp, acked, overlap, mem, up>>
      PROVE  Kept'
  <2> DEFINE r == [Free EXCEPT !.at = at, !.op = op]
  <2>1. go' = [go EXCEPT ![g] = r] /\ r.at = at /\ go[g].at = "none"
    BY <1>3, <1>f, FreeIs DEF Request
  <2> HIDE DEF r
  <2>2. \A h \in Savers : Saving(h) \/ Saving(h)' => go'[h] = go[h]
    BY <2>1 DEF Typed, Saving
  <2> QED
    BY <1>3, <2>2, KeptFrame
<1>4. CASE Serve
  <2> DEFINE r == [Free EXCEPT !.at = "open", !.op = AddrOp, !.new = With(Loaded(cfg), AddrOp)]
  <2> SUFFICES ASSUME ~overlap' PROVE Kept'
    BY DEF Kept
  <2>1. /\ go' = [go EXCEPT ![Cli] = r] /\ UNCHANGED <<up, mem, cfg, tmp, acked>> /\ Overlaps(Cli)
        /\ Cli \in Savers
    BY <1>4 DEF Serve, AddrOp, Savers
  <2>2. r.at = "open" /\ r.op = AddrOp /\ r.new = With(Loaded(cfg), AddrOp)
    BY DEF Free
  <2> HIDE DEF r
  <2>3. go'[Cli] = r /\ \A h \in Savers \ {Cli} : go'[h] = go[h]
    BY <2>1 DEF Typed
  <2>4. ~overlap /\ \A h \in Savers \ {Cli} : ~Saving(h)
    BY <2>1, NoOverlap
  <2>5. OnDisk /\ (up => Has(mem, acked))
    BY <2>4, HostConfigAssumption DEF Kept, OneSave, Savers
  <2>6. Has(With(Loaded(cfg), AddrOp), With(acked, AddrOp))
    BY <2>5, LoadedConfig, HasWith, Defaults DEF OnDisk, Typed
  <2>7. Own(Cli)' /\ OnDisk'
    BY <2>1, <2>2, <2>3, <2>5, <2>6, HostConfigAssumption DEF Own, Asked, OnDisk
  <2> QED
    BY <2>1, <2>3, <2>4, <2>5, <2>7, KeptByOne DEF Saving
<1>5. CASE Crash
  <2>1. /\ \A g \in Savers : go'[g] = IF g = Cli THEN go[g] ELSE Free
        /\ ~up' /\ UNCHANGED <<cfg, tmp, acked, overlap>>
    BY <1>5 DEF Crash
  <2> SUFFICES ASSUME ~overlap PROVE Kept'
    BY <2>1 DEF Kept
  <2>2. OnDisk /\ Own(Cli) /\ Cli \in Savers
    BY DEF Kept, OneSave, Savers
  <2>3. \A h \in Savers \ {Cli} : ~Saving(h)'
    BY <1>f, <2>1 DEF Saving
  <2>4. OnDisk' /\ Own(Cli)'
    BY <2>1, <2>2, HostConfigAssumption DEF OnDisk, Own, Asked
  <2> QED
    BY <2>1, <2>2, <2>3, <2>4, KeptByOne
<1>6. CASE Start
  <2>1. UNCHANGED <<go, cfg, tmp, acked, overlap>> /\ ~up /\ mem' = Loaded(cfg)
    BY <1>6 DEF Start
  <2>2. \A g \in Gos : ~Saving(g)
    BY <2>1 DEF Placed, Saving
  <2>3. \A g \in Savers : Saving(g)' = Saving(g)
    BY <2>1 DEF Saving
  <2>4. ASSUME NEW g \in Savers, Own(g) PROVE Own(g)'
    BY <2>1, <2>2, <2>3, <2>4 DEF Own, Asked
  <2> QED
    BY <2>1, <2>3, <2>4 DEF Kept, OneSave, OnDisk
<1>7. ASSUME NEW c \in Codes, EnrollStart(c) \/ DeviceStep(c) \/ Expire(c) PROVE Kept'
  <2>1. UNCHANGED <<go, cfg, tmp, acked, overlap, mem, up>>
    BY <1>7 DEF EnrollStart, DeviceStep, Poll, Wake, Answer, Expire
  <2> QED
    BY <2>1, KeptFrame
<1>8. CASE UNCHANGED vars
  BY <1>8, KeptFrame DEF vars
<1> QED
  BY <1>1, <1>2, <1>3, <1>4, <1>5, <1>6, <1>7, <1>8 DEF Next, SetPassword, Approve

\* A request that was answered ok outlives the daemon: at every point where it may die, also
\* in the middle of the save of another request or of sr serve's, and after a save that
\* failed, config.toml is whole and has what was answered ok, and so has hostCfg, as long as
\* no two saves overlapped (saveHostConfig and the handlers that call it).
THEOREM WhatIsAckedSurvives == Spec => []AckedSurvives
<1>1. Init => Kept
  <2> SUFFICES ASSUME Init PROVE OneSave
    BY DEF Kept
  <2>1. \A g \in Savers : go[g].at = "none"
    BY FreeIs DEF Init
  <2>2. Loaded(cfg) = NoConfig /\ mem = NoConfig /\ acked = NoConfig /\ cfg = Empty
    BY DEF Init, Loaded
  <2>3. Has(NoConfig, NoConfig)
    BY DEF Has
  <2> QED
    BY <2>1, <2>2, <2>3 DEF OneSave, Own, OnDisk, Saving, Savers
<1>2. Typed /\ Placed /\ Kept => AckedSurvives
  <2> SUFFICES ASSUME Typed, Kept, ~overlap
               PROVE  /\ cfg # Torn /\ Holds(Loaded(cfg))
                      /\ up => Holds([mem EXCEPT !.pw = IF Changing THEN acked.pw ELSE @])
    BY DEF AckedSurvives
  <2> DEFINE m == [mem EXCEPT !.pw = IF Changing THEN acked.pw ELSE @]
  <2>1. OneSave
    BY DEF Kept
  <2>2. cfg # Torn /\ Holds(Loaded(cfg))
    BY <2>1, HoldsIs, ContentsAssumption DEF OneSave, OnDisk
  <2>3. m.git = mem.git /\ m.keys = mem.keys /\ m.pw = IF Changing THEN acked.pw ELSE mem.pw
    BY DEF Typed, Config
  <2>4. ASSUME up, NEW g \in Gos, Saving(g) PROVE Has(m, acked)
    <3>1. Has(mem, Asked(g)) /\ go[g].op \in Ops
      BY <2>1, <2>4 DEF OneSave, Own, Savers, Typed, GoState
    <3>2. CASE go[g].op.kind = "pw"
      <4>1. Changing
        BY <2>4, <3>2 DEF Changing
      <4> QED
        BY <2>3, <3>1, <3>2, <4>1, WithOp DEF Has, Asked, Typed
    <3>3. CASE go[g].op.kind # "pw"
      <4>1. Has(mem, acked)
        BY <3>1, <3>3, HasLess DEF Asked, Typed
      <4> QED
        BY <2>3, <4>1 DEF Has
    <3> QED
      BY <3>2, <3>3
  <2>5. ASSUME up, \A g \in Gos : ~Saving(g) PROVE Has(m, acked)
    <3>1. Has(mem, acked)
      BY <2>1, <2>5 DEF OneSave
    <3> QED
      BY <2>3, <3>1 DEF Has
  <2> HIDE DEF m
  <2>6. up => Holds(m)
    BY <2>4, <2>5, HoldsIs
  <2> QED
    BY <2>2, <2>6 DEF m
<1> QED
  BY Safe, <1>1, <1>2, KeptStep, PTL DEF Spec

-----------------------------------------------------------------------------
(* The sign-in manager (SignIn).                                           *)

\* The logins that have passed the look at the lockout.
Past == {g \in Logins : login[g].at # "none"}

\* Before a lockout the wrong logins are those counted; a lockout is reached
\* by one of them, and only those already past it add to that.
Counted ==
    /\ ~locked => wrong <= fails
    /\ locked => wrong + Cardinality(Past) <= MaxFails + Cardinality(Logins) - 1

SignInInv == SignInTypeOK /\ (Logins # {} => Counted)

-----------------------------------------------------------------------------
LEMMA PastFinite == IsFiniteSet(Past) /\ Cardinality(Past) \in Nat
                    /\ Cardinality(Past) <= Cardinality(Logins)
  BY SignInAssumption, FS_Subset, FS_CardinalityType DEF Past

LEMMA LoginsCounted == Cardinality(Logins) \in Nat
                       /\ (Logins # {} => Cardinality(Logins) >= 1)
  BY SignInAssumption, FS_EmptySet, FS_CardinalityType

LEMMA SignInInvInit == SignInInit => SignInInv
  <1> SUFFICES ASSUME SignInInit PROVE SignInInv
    OBVIOUS
  <1>1. Arrived \in [at : {"none", "check", "record"},
                     pw : Guesses \cup {NoPassword}, ok : BOOLEAN]
    BY DEF Arrived
  <1>2. SignInTypeOK
    <2>1. hash \in Chosen \cup {NoPassword} /\ temp \in {Temp, NoPassword} /\ setting \subseteq Chosen
      BY DEF SignInInit
    <2>2. signedIn \in BOOLEAN /\ locked \in BOOLEAN
      BY Zenon DEF SignInInit
    <2>3. fails \in 0..MaxFails - 1 /\ wrong \in Nat
      BY SignInAssumption DEF SignInInit
    <2>4. login \in [Logins -> [at : {"none", "check", "record"},
                                pw : Guesses \cup {NoPassword}, ok : BOOLEAN]]
      BY <1>1, Zenon DEF SignInInit
    <2> QED BY <2>1, <2>2, <2>3, <2>4, Zenon DEF SignInTypeOK
  <1>3. ~locked /\ wrong <= fails
    BY DEF SignInInit
  <1> QED BY <1>2, <1>3 DEF SignInInv, Counted

LEMMA SignInTypeStep == SignInTypeOK /\ [SignInNext]_signInVars => SignInTypeOK'
  <1> SUFFICES ASSUME SignInTypeOK, [SignInNext]_signInVars PROVE SignInTypeOK'
    OBVIOUS
  <1> USE SignInAssumption DEF SignInTypeOK
  <1>1. ASSUME NEW g \in Logins, NEW p \in Guesses, Login(g, p) PROVE SignInTypeOK'
    BY <1>1 DEF Login
  <1>2. ASSUME NEW g \in Logins, Check(g) PROVE SignInTypeOK'
    <2> DEFINE right == login[g].pw = IF hash # NoPassword THEN hash ELSE temp
               after == [at |-> "record", pw |-> NoPassword, ok |-> right]
    <2>1. login' = [login EXCEPT ![g] = after]
      BY <1>2 DEF Check
    <2>2. right \in BOOLEAN
      OBVIOUS
    <2>3. after \in [at : {"none", "check", "record"},
                     pw : Guesses \cup {NoPassword}, ok : BOOLEAN]
      <3> HIDE DEF right
      <3> QED BY <2>2
    <2> HIDE DEF after
    <2> QED BY <1>2, <2>1, <2>3 DEF Check
  <1>3. ASSUME NEW g \in Logins, Record(g) PROVE SignInTypeOK'
    <2>1. (fails + 1) % MaxFails \in 0..MaxFails - 1
      OBVIOUS
    <2>2. Arrived \in [at : {"none", "check", "record"},
                       pw : Guesses \cup {NoPassword}, ok : BOOLEAN]
      BY DEF Arrived
    <2>3. CASE login[g].ok
      BY <1>3, <2>2, <2>3 DEF Record
    <2>4. CASE ~login[g].ok
      BY <1>3, <2>1, <2>2, <2>4 DEF Record
    <2> QED BY <2>3, <2>4
  <1>4. CASE LockoutEnds
    BY <1>4 DEF LockoutEnds
  <1>5. CASE SessionEnds
    BY <1>5 DEF SessionEnds
  <1>6. ASSUME NEW p \in Chosen, HandleSetPassword(p) PROVE SignInTypeOK'
    BY <1>6 DEF HandleSetPassword
  <1>7. ASSUME NEW p \in Chosen, Replace(p) PROVE SignInTypeOK'
    BY <1>7 DEF Replace
  <1>8. CASE Restart
    <2>1. PICK h \in Chosen \cup {NoPassword} : Manager(h)
      BY <1>8 DEF Restart
    <2>2. Arrived \in [at : {"none", "check", "record"},
                       pw : Guesses \cup {NoPassword}, ok : BOOLEAN]
      BY DEF Arrived
    <2>3. hash' \in Chosen \cup {NoPassword} /\ temp' \in {Temp, NoPassword}
      BY <2>1 DEF Manager
    <2>4. signedIn' \in BOOLEAN /\ locked' \in BOOLEAN
      BY <2>1, Zenon DEF Manager
    <2>5. 0 \in 0..MaxFails - 1 /\ 0 \in Nat
      OBVIOUS
    <2>6. setting' \subseteq Chosen /\ fails' \in 0..MaxFails - 1 /\ wrong' \in Nat
      BY <2>1, <2>5, Zenon DEF Manager
    <2>7. login' \in [Logins -> [at : {"none", "check", "record"},
                                 pw : Guesses \cup {NoPassword}, ok : BOOLEAN]]
      BY <2>1, <2>2, Zenon DEF Manager
    <2> QED BY <2>3, <2>4, <2>6, <2>7, Zenon
  <1>9. CASE UNCHANGED signInVars
    BY <1>9 DEF signInVars
  <1> QED BY <1>1, <1>2, <1>3, <1>4, <1>5, <1>6, <1>7, <1>8, <1>9 DEF SignInNext

\* What a login that ends does to the set of those under way.
LEMMA OneLess ==
  ASSUME SignInTypeOK, NEW g \in Logins, Record(g)
  PROVE  Cardinality(Past') = Cardinality(Past) - 1
  <1>1. g \in Past
    BY DEF Record, Past
  <1>2. Past' = Past \ {g}
    BY DEF Record, Past, SignInTypeOK, Arrived
  <1> QED BY <1>1, <1>2, PastFinite, FS_RemoveElement

LEMMA SignInCountStep == SignInInv /\ [SignInNext]_signInVars /\ Logins # {} => Counted'
  <1> SUFFICES ASSUME SignInTypeOK, Counted, [SignInNext]_signInVars, Logins # {} PROVE Counted'
    BY DEF SignInInv
  <1>0. /\ fails \in Nat /\ wrong \in Nat /\ MaxFails \in Nat /\ fails <= MaxFails - 1
        /\ Cardinality(Logins) \in Nat /\ Cardinality(Logins) >= 1
        /\ Cardinality(Past) \in Nat /\ Cardinality(Past) <= Cardinality(Logins)
    BY SignInAssumption, LoginsCounted, PastFinite DEF SignInTypeOK
  <1>1. ASSUME NEW g \in Logins, NEW p \in Guesses, Login(g, p) PROVE Counted'
    BY <1>1 DEF Login, Counted
  <1>2. ASSUME NEW g \in Logins, Check(g) PROVE Counted'
    <2>1. Past' = Past
      BY <1>2 DEF Check, Past, SignInTypeOK
    <2> QED BY <1>2, <2>1 DEF Check, Counted
  <1>3. ASSUME NEW g \in Logins, Record(g) PROVE Counted'
    <2>1. Cardinality(Past') = Cardinality(Past) - 1
      BY <1>3, OneLess
    <2>2. CASE login[g].ok
      BY <1>0, <1>3, <2>1, <2>2 DEF Record, Counted
    <2>3. CASE ~login[g].ok
      <3>1. wrong' = wrong + 1 /\ fails' = (fails + 1) % MaxFails
            /\ locked' = (locked \/ fails + 1 = MaxFails)
        BY <1>3, <2>3 DEF Record
      <3>2. CASE locked
        <4>1. locked'
          BY <3>1, <3>2
        <4>2. wrong' + Cardinality(Past') <= MaxFails + Cardinality(Logins) - 1
          BY <1>0, <2>1, <3>1, <3>2 DEF Counted
        <4> QED BY <4>1, <4>2 DEF Counted
      <3>3. CASE ~locked /\ fails + 1 = MaxFails
        <4>1. locked'
          BY <3>1, <3>3
        <4>2. wrong' + Cardinality(Past') <= MaxFails + Cardinality(Logins) - 1
          BY <1>0, <2>1, <3>1, <3>3 DEF Counted
        <4> QED BY <4>1, <4>2 DEF Counted
      <3>4. CASE ~locked /\ fails + 1 # MaxFails
        <4>1. (fails + 1) % MaxFails = fails + 1
          BY <1>0, <3>4
        <4>2. ~locked'
          BY <3>1, <3>4
        <4>3. wrong' <= fails'
          BY <1>0, <3>1, <3>4, <4>1 DEF Counted
        <4> QED BY <4>2, <4>3 DEF Counted
      <3> QED BY <3>2, <3>3, <3>4
    <2> QED BY <2>2, <2>3
  <1>4. CASE LockoutEnds
    BY <1>0, <1>4 DEF LockoutEnds, Counted
  <1>5. CASE SessionEnds
    BY <1>5 DEF SessionEnds, Counted, Past
  <1>6. ASSUME NEW p \in Chosen, HandleSetPassword(p) PROVE Counted'
    BY <1>6 DEF HandleSetPassword, Counted, Past
  <1>7. ASSUME NEW p \in Chosen, Replace(p) PROVE Counted'
    BY <1>7 DEF Replace, Counted, Past
  <1>8. CASE Restart
    BY <1>8 DEF Restart, Manager, Counted
  <1>9. CASE UNCHANGED signInVars
    BY <1>9 DEF signInVars, Counted, Past
  <1> QED BY <1>1, <1>2, <1>3, <1>4, <1>5, <1>6, <1>7, <1>8, <1>9 DEF SignInNext

LEMMA SignInInductive == SignInSpec => []SignInInv
  <1>1. SignInInv /\ [SignInNext]_signInVars => SignInInv'
    BY SignInTypeStep, SignInCountStep DEF SignInInv
  <1> QED BY SignInInvInit, <1>1, PTL DEF SignInSpec

(* Every reachable state of the sign-in manager satisfies SignInTypeOK.           *)
THEOREM SignInTypeCorrect == SignInSpec => []SignInTypeOK
  <1>1. SignInInv => SignInTypeOK
    BY DEF SignInInv
  <1> QED BY SignInInductive, <1>1, PTL

(* For every number of logins at once and every MaxFails, the lockout lets  *)
(* through at most those that were past it (auth.go locked, recordAttempt). *)
THEOREM GuessesStayBounded == SignInSpec => []GuessesBounded
  <1>1. SignInInv => GuessesBounded
    BY SignInAssumption, LoginsCounted, PastFinite
       DEF SignInInv, Counted, GuessesBounded, SignInTypeOK
  <1> QED BY SignInInductive, <1>1, PTL
=============================================================================
