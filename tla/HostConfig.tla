----------------------------- MODULE HostConfig -----------------------------
(***************************************************************************)
(* config.toml: the one copy of the host's configuration in memory         *)
(* (hostCfg), the handlers that change it and save it, the enrollment of a *)
(* device, which ends in such a save, and `sr serve`, another process that *)
(* loads, changes and saves the file.  Sign-in itself is module SignIn:    *)
(* that a request needs a session is left out here.                        *)
(*                                                                         *)
(* hostCfg has no lock, and every save goes through one temporary file:    *)
(* open it truncated, write, close, rename it over config.toml.  The model *)
(* keeps which file each open descriptor leads to: a rename by one save    *)
(* moves the file another has open to the name config.toml.                *)
(***************************************************************************)
EXTENDS Naturals

CONSTANTS
    Passwords,  \* passwords the owner may choose
    None,
    Gos,        \* goroutines that serve a request that saves
    Cli,        \* `sr serve`, started beside the daemon or before it
    Codes,      \* enrollments, one per device key
    Empty,      \* the contents of a file just truncated
    Torn,       \* contents that are part of one text and part of another
    MaxEvents   \* bound on requests that save, failing writes and crashes

ASSUME HostConfigAssumption ==
    /\ MaxEvents \in Nat
    /\ Cli \notin Gos
    /\ None \notin Passwords \cup Gos

Config == [pw : Passwords \cup {None}, git : BOOLEAN, keys : SUBSET Codes,
           addr : BOOLEAN]

ASSUME ContentsAssumption ==
    /\ {None, Empty, Torn} \cap Config = {}
    /\ Empty # Torn /\ None \notin {Empty, Torn}

NoConfig == [pw |-> None, git |-> FALSE, keys |-> {}, addr |-> FALSE]

\* The one field a request changes; "deny" changes none.
Ops ==
    [kind : {"pw"}, val : Passwords] \cup [kind : {"key", "deny"}, val : Codes]
    \cup {[kind |-> "git", val |-> None], [kind |-> "addr", val |-> None]}

With(c, op) ==
    [c EXCEPT !.pw   = IF op.kind = "pw" THEN op.val ELSE @,
              !.git  = @ \/ op.kind = "git",
              !.addr = @ \/ op.kind = "addr",
              !.keys = IF op.kind = "key" THEN @ \cup {op.val} ELSE @]

VARIABLES
    up,         \* a daemon runs
    mem,        \* hostCfg
    cfg,        \* contents of config.toml
    tmp,        \* contents of config.toml.tmp, None when there is no such file
    go,         \* what each request that saves is doing
    mu,         \* the goroutine that holds enroll.mu, or None
    pend,       \* the enrollments the daemon knows
    dev,        \* what the device of each enrollment knows
    events,
    overlap,    \* history: two saves, or a save and a change, overlapped
    acked       \* history: what requests that were answered ok have set

fileVars == <<cfg, tmp, overlap, acked>>
enrollVars == <<mu, pend, dev>>
vars == <<fileVars, enrollVars, up, mem, go, events>>

Savers == Gos \cup {Cli}
Free == [at |-> "none", op |-> [kind |-> "addr", val |-> None],
         new |-> NoConfig, fd |-> "none"]
NoEnroll == [known |-> FALSE, decided |-> FALSE, approved |-> FALSE,
             done |-> FALSE, said |-> {}]

\* loadHostConfig: no file or an empty one gives the defaults; so does one
\* that does not parse, for a caller that drops the error.
Loaded(contents) == IF contents \in {Empty, Torn} THEN NoConfig ELSE contents

Init ==
    /\ up = TRUE
    /\ mem = NoConfig
    /\ cfg = Empty
    /\ tmp = None
    /\ go = [g \in Savers |-> Free]
    /\ mu = None
    /\ pend = [c \in Codes |-> NoEnroll]
    /\ dev = [c \in Codes |-> "new"]
    /\ events = 0
    /\ overlap = FALSE
    /\ acked = NoConfig

-----------------------------------------------------------------------------
(* saveHostConfig(dir, hostCfg): the argument is copied at the call.       *)

Saving(g) == go[g].at \in {"copy", "open", "write", "rename"}
Overlaps(g) == overlap' = (overlap \/ \E h \in Savers \ {g} : Saving(h))

\* The files others have open are still theirs after a rename of the
\* temporary file, under another name or under none.
MovedOn(h) ==
    [go[h] EXCEPT !.fd = CASE @ = "tmp" -> "cfg"
                           [] @ = "cfg" -> "gone"
                           [] OTHER -> @]

\* How the request of g ends: an approval gives the lock back, and closes
\* done unless the save failed.
Finish(g, ok) ==
    LET op == go[g].op IN
    /\ mu' = IF mu = g THEN None ELSE mu
    /\ pend' = IF op.kind = "key" /\ ok
                 THEN [pend EXCEPT ![op.val].done = TRUE,
                                   ![op.val].said = @ \cup {"approve"}]
                 ELSE pend
    /\ acked' = CASE ok /\ g # Cli -> With(acked, op)
                  [] ~ok /\ op.kind = "pw" -> [acked EXCEPT !.pw = None]
                  [] OTHER -> acked

Copy(g) ==
    /\ go[g].at = "copy"
    /\ go' = [go EXCEPT ![g].at = "open", ![g].new = mem]
    /\ UNCHANGED <<fileVars, enrollVars, up, mem, events>>

\* O_CREATE|O_TRUNC: a file another save is writing is emptied under it.
Open(g) ==
    /\ go[g].at = "open"
    /\ tmp' = Empty
    /\ go' = [go EXCEPT ![g].at = "write", ![g].fd = "tmp"]
    /\ UNCHANGED <<enrollVars, up, mem, events, cfg, overlap, acked>>

\* Writing at the start of a file that holds a longer text leaves its tail.
Written(old, new) == IF old \in {Empty, new} THEN {new} ELSE {new, Torn}

Write(g) ==
    /\ go[g].at = "write"
    /\ CASE go[g].fd = "tmp" -> tmp' \in Written(tmp, go[g].new)
                                /\ UNCHANGED cfg
         [] go[g].fd = "cfg" -> cfg' \in Written(cfg, go[g].new)
                                /\ UNCHANGED tmp
         [] OTHER -> UNCHANGED <<cfg, tmp>>
    /\ go' = [go EXCEPT ![g] = [Free EXCEPT !.at = "rename", !.op = go[g].op]]
    /\ UNCHANGED <<enrollVars, up, mem, events, overlap, acked>>

\* A mutant: the error of the write is dropped and the rename follows.
WriteFailsUnnoticed(g) ==
    /\ go[g].at = "write"
    /\ go[g].fd = "tmp"
    /\ tmp' = Torn
    /\ go' = [go EXCEPT ![g] = [Free EXCEPT !.at = "rename", !.op = go[g].op]]
    /\ UNCHANGED <<enrollVars, up, mem, events, cfg, overlap, acked>>

\* The disk is full: the handler answers an error, the temporary file stays.
WriteFails(g) ==
    /\ go[g].at = "write"
    /\ events < MaxEvents
    /\ events' = events + 1
    /\ CASE go[g].fd = "tmp" -> tmp' \in {tmp, Torn} /\ UNCHANGED cfg
         [] go[g].fd = "cfg" -> cfg' \in {cfg, Torn} /\ UNCHANGED tmp
         [] OTHER -> UNCHANGED <<cfg, tmp>>
    /\ Finish(g, FALSE)
    /\ go' = [go EXCEPT ![g] = Free]
    /\ UNCHANGED <<up, mem, dev, overlap>>

\* The file another save has renamed already cannot be renamed again.
Rename(g) ==
    /\ go[g].at = "rename"
    /\ Finish(g, tmp # None)
    /\ tmp' = None
    /\ IF tmp # None
         THEN /\ cfg' = tmp
              /\ go' = [h \in Savers |-> IF h = g THEN Free ELSE MovedOn(h)]
         ELSE /\ UNCHANGED cfg
              /\ go' = [go EXCEPT ![g] = Free]
    /\ UNCHANGED <<up, mem, dev, events, overlap>>

-----------------------------------------------------------------------------
(* The requests that save.                                                 *)

Request(g, at, op) ==
    /\ go[g] = Free
    /\ events < MaxEvents
    /\ events' = events + 1
    /\ go' = [go EXCEPT ![g] = [Free EXCEPT !.at = at, !.op = op]]

\* POST /api/config turns a passthrough on.
HandleConfig(g) ==
    /\ up
    /\ Request(g, "copy", [kind |-> "git", val |-> None])
    /\ mem' = With(mem, [kind |-> "git", val |-> None])
    /\ Overlaps(g)
    /\ UNCHANGED <<enrollVars, up, cfg, tmp, acked>>

\* SetPassword has put the hash under m.mu and calls save after the unlock.
SetPassword(g, p) ==
    /\ up
    /\ Request(g, "hash", [kind |-> "pw", val |-> p])
    /\ UNCHANGED <<fileVars, enrollVars, up, mem>>

SavePassword(g) ==
    /\ go[g].at = "hash"
    /\ mem' = With(mem, go[g].op)
    /\ go' = [go EXCEPT ![g].at = "copy"]
    /\ Overlaps(g)
    /\ UNCHANGED <<enrollVars, up, cfg, tmp, acked, events>>

\* handleEnrollApprove looks the code up, and takes the lock again to decide.
Approve(g, c, kind) ==
    /\ up
    /\ pend[c].known
    /\ mu = None
    /\ Request(g, "lock", [kind |-> kind, val |-> c])
    /\ UNCHANGED <<fileVars, enrollVars, up, mem>>

\* A mutant: whether the enrollment is decided already is not looked at.
DecideAgain(g) ==
    LET op == go[g].op
        yes == op.kind = "key"
    IN
    /\ go[g].at = "lock"
    /\ mu = None
    /\ pend' = [pend EXCEPT ![op.val].decided = TRUE, ![op.val].approved = yes,
                            ![op.val].done = ~yes,
                            ![op.val].said = IF yes THEN @ ELSE @ \cup {"deny"}]
    /\ mem' = With(mem, op)
    /\ mu' = IF yes THEN g ELSE None
    /\ go' = [go EXCEPT ![g] = IF yes THEN [@ EXCEPT !.at = "copy"] ELSE Free]
    /\ IF yes THEN Overlaps(g) ELSE UNCHANGED overlap
    /\ UNCHANGED <<up, cfg, tmp, acked, dev, events>>

Decide(g) ==
    LET op == go[g].op
        p  == pend[op.val]
        yes == op.kind = "key"
    IN
    /\ go[g].at = "lock"
    /\ mu = None
    /\ IF p.decided                                     \* 409
         THEN /\ go' = [go EXCEPT ![g] = Free]
              /\ UNCHANGED <<mu, pend, mem, overlap>>
         ELSE /\ pend' = [pend EXCEPT
                    ![op.val].decided = TRUE, ![op.val].approved = yes,
                    ![op.val].done = ~yes,
                    ![op.val].said = IF yes THEN @ ELSE @ \cup {"deny"}]
              /\ mem' = With(mem, op)
              /\ mu' = IF yes THEN g ELSE None
              /\ go' = [go EXCEPT ![g] = IF yes THEN [@ EXCEPT !.at = "copy"]
                                                ELSE Free]
              /\ IF yes THEN Overlaps(g) ELSE UNCHANGED overlap
    /\ UNCHANGED <<up, cfg, tmp, acked, dev, events>>

\* cmdServe drops the error of the load: what does not parse is replaced.
Serve ==
    /\ go[Cli] = Free
    /\ events < MaxEvents
    /\ events' = events + 1
    /\ LET addr == [kind |-> "addr", val |-> None]
       IN  go' = [go EXCEPT ![Cli] = [Free EXCEPT !.at = "open", !.op = addr,
                                                !.new = With(Loaded(cfg), addr)]]
    /\ Overlaps(Cli)
    /\ UNCHANGED <<enrollVars, up, mem, cfg, tmp, acked>>

-----------------------------------------------------------------------------
(* The device: `sr connect` starts an enrollment and polls until the       *)
(* answer is not "pending".  Each poll looks the code up, waits for done   *)
(* or 25 seconds, and reads the decision under the lock.                   *)

EnrollStart(c) ==
    /\ up /\ dev[c] = "new" /\ mu = None
    /\ pend' = [pend EXCEPT ![c] = [NoEnroll EXCEPT !.known = TRUE]]
    /\ dev' = [dev EXCEPT ![c] = "polls"]
    /\ UNCHANGED <<fileVars, mu, up, mem, go, events>>

Poll(c) ==
    /\ up /\ dev[c] = "polls" /\ mu = None
    /\ dev' = [dev EXCEPT ![c] = IF pend[c].known THEN "waits" ELSE "gone"]
    /\ UNCHANGED <<fileVars, mu, pend, up, mem, go, events>>

\* A mutant: the poll waits for done without the 25 seconds.
WakeByDone(c) ==
    /\ dev[c] = "waits"
    /\ pend[c].done
    /\ dev' = [dev EXCEPT ![c] = "reads"]
    /\ UNCHANGED <<fileVars, mu, pend, up, mem, go, events>>

Wake(c) ==
    /\ dev[c] = "waits"
    /\ dev' = [dev EXCEPT ![c] = "reads"]
    /\ UNCHANGED <<fileVars, mu, pend, up, mem, go, events>>

\* handleEnrollStatus holds on to the request: it answers an expired one too.
Answer(c) ==
    /\ dev[c] = "reads" /\ mu = None
    /\ dev' = [dev EXCEPT ![c] = CASE ~pend[c].decided -> "polls"
                                   [] pend[c].approved -> "approved"
                                   [] OTHER -> "denied"]
    /\ UNCHANGED <<fileVars, mu, pend, up, mem, go, events>>

\* enrollTTL is over, for the daemon and for the device's own deadline.
Expire(c) ==
    /\ pend[c].known
    /\ pend' = [pend EXCEPT ![c].known = FALSE]
    /\ UNCHANGED <<fileVars, mu, dev, up, mem, go, events>>

-----------------------------------------------------------------------------
\* The daemon dies between any two steps; the files stay as they are, a poll
\* ends in an error, and `sr serve` is another process.
Crash ==
    /\ up
    /\ events < MaxEvents
    /\ events' = events + 1
    /\ up' = FALSE
    /\ mem' = NoConfig
    /\ go' = [g \in Savers |-> IF g = Cli THEN go[g] ELSE Free]
    /\ mu' = None
    /\ pend' = [c \in Codes |-> NoEnroll]
    /\ dev' = [c \in Codes |-> IF dev[c] \in {"polls", "waits", "reads"}
                                 THEN "gone" ELSE dev[c]]
    /\ UNCHANGED fileVars

\* runDaemon; a file that does not parse is fatal to it.
Start ==
    /\ ~up
    /\ cfg # Torn
    /\ up' = TRUE
    /\ mem' = Loaded(cfg)
    /\ UNCHANGED <<fileVars, enrollVars, go, events>>

SaveStep(g) ==
    \/ Copy(g) \/ Open(g) \/ Write(g) \/ WriteFails(g) \/ Rename(g)
    \/ SavePassword(g) \/ Decide(g)

DeviceStep(c) == Poll(c) \/ Wake(c) \/ Answer(c)

Next ==
    \/ \E g \in Savers : SaveStep(g)
    \/ \E g \in Gos :
        \/ HandleConfig(g)
        \/ \E p \in Passwords : SetPassword(g, p)
        \/ \E c \in Codes, kind \in {"key", "deny"} : Approve(g, c, kind)
    \/ Serve
    \/ \E c \in Codes : EnrollStart(c) \/ DeviceStep(c) \/ Expire(c)
    \/ Crash
    \/ Start

\* Go runs every goroutine, and the 25 seconds of a poll pass.
Fairness ==
    /\ \A g \in Savers : WF_vars(SaveStep(g))
    /\ \A c \in Codes : WF_vars(DeviceStep(c))

Spec == Init /\ [][Next]_vars /\ Fairness

-----------------------------------------------------------------------------
TypeOK ==
    /\ up \in BOOLEAN
    /\ mem \in Config
    /\ cfg \in Config \cup {Empty, Torn}
    /\ tmp \in Config \cup {Empty, Torn, None}
    /\ go \in [Savers -> [at : {"none", "hash", "lock", "copy", "open", "write",
                                "rename"},
                          op : Ops, new : Config,
                          fd : {"none", "tmp", "cfg", "gone"}]]
    /\ mu \in Gos \cup {None}
    /\ pend \in [Codes -> [known : BOOLEAN, decided : BOOLEAN, approved : BOOLEAN,
                           done : BOOLEAN, said : SUBSET {"approve", "deny"}]]
    /\ dev \in [Codes -> {"new", "polls", "waits", "reads", "approved", "denied",
                          "gone"}]
    /\ events \in 0..MaxEvents
    /\ overlap \in BOOLEAN
    /\ acked \in Config

Holds(c) ==
    /\ acked.pw # None => c.pw = acked.pw
    /\ acked.git => c.git
    /\ acked.keys \subseteq c.keys

\* A new password is in memory before its request is answered.
Changing == \E g \in Gos : Saving(g) /\ go[g].op.kind = "pw"

(* What a handler has answered ok is in config.toml, whole, at every point  *)
(* where the daemon may die, and in the memory of a daemon that runs: as    *)
(* long as no two saves overlapped (hostcfg.go saveHostConfig, "atomically",*)
(* and the handlers that call it).                                         *)
AckedSurvives ==
    ~overlap => /\ cfg # Torn
                /\ Holds(Loaded(cfg))
                /\ up => Holds([mem EXCEPT !.pw = IF Changing THEN acked.pw ELSE @])

(* Two tabs may decide one enrollment: only one is told ok, the device gets *)
(* that verdict and no other, and an approved key is in the allowlist of    *)
(* the daemon that approved it (enroll.go handleEnrollApprove and           *)
(* handleEnrollStatus).                                                     *)
OneVerdict ==
    \A c \in Codes :
        /\ pend[c].said # {"approve", "deny"}
        /\ pend[c].decided =>
            /\ dev[c] = "approved" => c \in mem.keys /\ "deny" \notin pend[c].said
            /\ dev[c] = "denied" => "approve" \notin pend[c].said

(* A device that polls is told once its enrollment is decided, also when the*)
(* save of an approval failed and done stays open, unless the daemon dies   *)
(* or the request expires (enroll.go handleEnrollStatus's 25 seconds).      *)
DecisionIsHeard ==
    \A c \in Codes : pend[c].decided ~> dev[c] \in {"approved", "denied", "gone"}
=============================================================================
