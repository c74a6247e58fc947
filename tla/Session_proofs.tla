--------------------------- MODULE Session_proofs ---------------------------
(***************************************************************************)
(* Proofs about Session, for every number of terminals and every capacity  *)
(* of the ring and the channels: its invariants, and that it implements    *)
(* TerminalStream.                                                         *)
(***************************************************************************)
EXTENDS Session, SequenceTheorems, TLAPS

\* How far the two goroutines that write the journal and the state are, and what they
\* have written by then.
Stages ==
    /\ crpc \in {"new", "journal"} => rdpc = "none" /\ jnl = <<>>
    /\ rdpc = "none" => crpc \in {"new", "journal"} /\ jnl = <<>>
    /\ rdpc \in {"read", "deliver", "wait", "journal"} => jnl = <<"start">>
    /\ rdpc \in {"emit", "done"} => jnl = <<"start", "exit">>
    /\ state = "exited" <=> rdpc \in {"journal", "emit", "done"}
    /\ rdpc = "deliver" => written > 0
    /\ mnpc = "emit" => event \in State

\* The last chunk handed to the subscribers.
Delivered == IF rdpc = "deliver" THEN written - 1 ELSE written

Watching(c) == tmpc[c] \in {"subscribed", "stream"}

\* Where a terminal stands: what it has been sent, what its channel holds, and who may
\* still write into the channel.
Attachment(c) ==
    /\ tmpc[c] \in {"new", "got"} => screen[c] = None /\ buf[c] = <<>> /\ c \notin shut
    /\ tmpc[c] = "subscribed" => screen[c] = None
    /\ tmpc[c] \in {"stream", "ended"} => screen[c] # None
    /\ c \in subs => Watching(c) /\ state # "exited"
    /\ Watching(c) /\ c \notin subs => c \in shut
    /\ Watching(c) /\ c \in shut => state = "exited"
    /\ screen[c] # None => screen[c].upto <= written
    /\ \A i \in 1..Len(buf[c]) : buf[c][i] <= written

\* A terminal that keeps up holds, on its screen or in its channel, every chunk handed out.
NoGap(c) ==
    Watching(c) /\ c \notin slow =>
        /\ \A i \in 1..Len(buf[c]) : buf[c][i] = Delivered - Len(buf[c]) + i
        /\ tmpc[c] = "stream" => screen[c].upto >= Delivered - Len(buf[c])

\* Counted output is what makes a session recent.
Counted == (recent => work) /\ (state = "running" => work)


Attached == \A c \in Clients : Attachment(c)
NoGaps == \A c \in Clients : NoGap(c)
IInv == TypeOK /\ Stages /\ Counted /\ Attached /\ NoGaps

-----------------------------------------------------------------------------
(* Type correctness.                                                       *)

\* TypeOK in three parts: the flags, what else the session keeps of itself, and what of
\* its terminals.
Flags ==
    /\ listed \in BOOLEAN
    /\ alive \in BOOLEAN
    /\ recent \in BOOLEAN
    /\ quiet \in BOOLEAN
    /\ work \in BOOLEAN

SessionTypes ==
    /\ crpc \in {"new", "journal", "done"}
    /\ klpc \in {"none", "kill", "done"}
    /\ rdpc \in {"none", "read", "deliver", "wait", "journal", "emit", "done"}
    /\ mnpc \in {"none", "tick", "emit", "done"}
    /\ written \in 0..MaxChunks
    /\ state \in State
    /\ event \in State \cup {None}
    /\ news \in State \cup {None}
    /\ jnl \in Seq({"start", "exit"})

Shown == [from : 1..MaxChunks + 1, upto : 0..MaxChunks]

ClientTypes ==
    /\ tmpc \in [Clients -> {"new", "got", "subscribed", "stream", "gone", "ended"}]
    /\ subs \subseteq Clients
    /\ buf \in [Clients -> Seq(1..MaxChunks)]
    /\ \A c \in Clients : Len(buf[c]) <= SubCap
    /\ shut \subseteq Clients
    /\ screen \in [Clients -> Shown \cup {None}]
    /\ slow \subseteq Clients

LEMMA TypeParts == TypeOK <=> Flags /\ SessionTypes /\ ClientTypes
  BY DEF TypeOK, Flags, SessionTypes, ClientTypes, Shown

LEMMA InitIInv == Init => IInv
  <1> SUFFICES ASSUME Init PROVE IInv
    OBVIOUS
  <1>1. TypeOK
    <2>1. Flags
      BY DEF Init, Flags
    <2>2. SessionTypes
      BY SizeAssumption DEF Init, SessionTypes, State
    <2>3. ClientTypes
      BY SizeAssumption DEF Init, ClientTypes
    <2> QED
      BY <2>1, <2>2, <2>3, TypeParts
  <1>2. Stages
    BY DEF Init, Stages
  <1>3. Counted
    BY DEF Init, Counted
  <1>4. Attached /\ NoGaps
    BY DEF Init, Attached, Attachment, NoGaps, NoGap, Watching
  <1> QED
    BY <1>1, <1>2, <1>3, <1>4 DEF IInv

LEMMA ScrollbackType ==
  ASSUME TypeOK
  PROVE  /\ Scrollback \in Shown
         /\ Scrollback.from \in 1..written + 1
         /\ Scrollback.upto = written
         /\ Scrollback # None
  <1>1. written \in 0..MaxChunks
    BY DEF TypeOK
  <1> QED
    BY <1>1, SizeAssumption DEF Shown, Scrollback

LEMMA FlagsStep == IInv /\ [Next]_vars => Flags'
  <1> SUFFICES ASSUME IInv, [Next]_vars PROVE Flags'
    OBVIOUS
  <1>0. Flags
    BY TypeParts DEF IInv
  <1> USE <1>0 DEF Flags
  <1>1. CASE Create \/ Kill \/ ManagerStep \/ ProcessExits \/ OutputAges \/ QuietEnds
    BY <1>1 DEF Create, Kill, ManagerStep, CreateStarts, KillProcess, ProcessExits, OutputAges,
                QuietEnds, sessionVars, monitorVars
  <1>2. CASE ReadLoop
    BY <1>2 DEF ReadLoop, ReadChunk, Deliver, ReadFails, HandleExit, JournalExit, EmitExit, sessionVars,
                monitorVars
  <1>3. CASE Monitor
    BY <1>3 DEF Monitor, Tick, EmitChange, MonitorReturns, sessionVars
  <1>4. ASSUME NEW c \in Clients, Open(c) \/ Subscribe(c) \/ Writer(c) \/ Leave(c) \/ Resize(c)
        PROVE  Flags'
    BY <1>4 DEF Open, Subscribe, Writer, Snapshot, Forward, StreamEnds, Leave, Resize, sessionVars,
                monitorVars
  <1>5. CASE UNCHANGED vars
    BY <1>5 DEF vars, sessionVars, monitorVars
  <1> QED
    BY <1>1, <1>2, <1>3, <1>4, <1>5 DEF Next

LEMMA SessionTypesStep == IInv /\ [Next]_vars => SessionTypes'
  <1> SUFFICES ASSUME IInv, [Next]_vars PROVE SessionTypes'
    OBVIOUS
  <1>0. SessionTypes /\ Stages
    BY TypeParts DEF IInv
  <1> USE <1>0 DEF SessionTypes, State
  <1>1. CASE Create \/ Kill \/ KillProcess \/ ProcessExits \/ OutputAges \/ QuietEnds
    BY <1>1 DEF Create, Kill, KillProcess, ProcessExits, OutputAges, QuietEnds, sessionVars, monitorVars
  <1>2. CASE ReadChunk \/ Deliver \/ ReadFails \/ HandleExit \/ EmitExit
    BY <1>2, SizeAssumption
    DEF ReadChunk, Deliver, ReadFails, HandleExit, EmitExit, sessionVars, monitorVars
  <1>3. CASE CreateStarts \/ JournalExit
    <2>1. jnl' \in Seq({"start", "exit"})
      BY <1>3 DEF CreateStarts, JournalExit
    <2> QED
      BY <1>3, <2>1 DEF CreateStarts, JournalExit, sessionVars, monitorVars
  <1>4. CASE Monitor
    BY <1>4 DEF Monitor, Tick, EmitChange, MonitorReturns, Stages, sessionVars
  <1>5. ASSUME NEW c \in Clients, Open(c) \/ Subscribe(c) \/ Writer(c) \/ Leave(c) \/ Resize(c)
        PROVE  SessionTypes'
    BY <1>5 DEF Open, Subscribe, Writer, Snapshot, Forward, StreamEnds, Leave, Resize, sessionVars,
                monitorVars
  <1>6. CASE UNCHANGED vars
    BY <1>6 DEF vars, sessionVars, monitorVars
  <1> QED
    BY <1>1, <1>2, <1>3, <1>4, <1>5, <1>6 DEF Next, ManagerStep, ReadLoop

LEMMA ClientTypesStep == IInv /\ [Next]_vars => ClientTypes'
  <1> SUFFICES ASSUME IInv, [Next]_vars PROVE ClientTypes'
    OBVIOUS
  <1>0. ClientTypes /\ written \in 0..MaxChunks
    BY TypeParts DEF IInv, TypeOK
  <1> USE <1>0 DEF ClientTypes
  <1>1. CASE UNCHANGED clientVars
    BY <1>1 DEF clientVars
  <1>2. CASE Deliver
    <2>1. written \in 1..MaxChunks
      BY <1>2 DEF Deliver, IInv, Stages
    <2>2. \A c \in Clients : buf'[c] \in Seq(1..MaxChunks) /\ Len(buf'[c]) <= SubCap
      <3> SUFFICES ASSUME NEW c \in Clients
                   PROVE  buf'[c] \in Seq(1..MaxChunks) /\ Len(buf'[c]) <= SubCap
        OBVIOUS
      <3>1. CASE c \in subs /\ Len(buf[c]) # SubCap
        <4>1. buf'[c] = Append(buf[c], written)
          BY <1>2, <3>1 DEF Deliver
        <4> QED
          BY <2>1, <3>1, <4>1, SizeAssumption
      <3>2. CASE ~(c \in subs /\ Len(buf[c]) # SubCap)
        BY <1>2, <3>2 DEF Deliver
      <3> QED
        BY <3>1, <3>2
    <2>3. buf' \in [Clients -> Seq(1..MaxChunks)]
      BY <1>2, <2>2 DEF Deliver
    <2> QED
      BY <1>2, <2>2, <2>3 DEF Deliver
  <1>3. CASE HandleExit
    BY <1>3 DEF HandleExit
  <1>4. ASSUME NEW c \in Clients, Open(c) \/ Subscribe(c) \/ StreamEnds(c)
        PROVE  ClientTypes'
    BY <1>4 DEF Open, Subscribe, StreamEnds
  <1>5. ASSUME NEW c \in Clients, Leave(c)
        PROVE  ClientTypes'
    <2>1. <<>> \in Seq(1..MaxChunks) /\ Len(<<>>) <= SubCap
      BY SizeAssumption
    <2> QED
      BY <1>5, <2>1 DEF Leave
  <1>6. ASSUME NEW c \in Clients, Snapshot(c)
        PROVE  ClientTypes'
    BY <1>6, ScrollbackType DEF Snapshot, IInv
  <1>7. ASSUME NEW c \in Clients, Forward(c)
        PROVE  ClientTypes'
    <2>1. screen[c] \in Shown
      BY <1>7 DEF Forward, IInv, Attached, Attachment
    <2>2. /\ Head(buf[c]) \in 1..MaxChunks
          /\ Tail(buf[c]) \in Seq(1..MaxChunks)
          /\ Len(Tail(buf[c])) <= SubCap
      BY <1>7, SizeAssumption DEF Forward
    <2>3. screen'[c] \in Shown
      BY <1>7, <2>1, <2>2, SizeAssumption, SMTT(30) DEF Forward, Shown
    <2>4. screen' \in [Clients -> Shown \cup {None}]
      BY <1>7, <2>3 DEF Forward
    <2> QED
      BY <1>7, <2>2, <2>4 DEF Forward
  <1> QED
    <2>1. CASE \/ Create \/ Kill \/ ManagerStep \/ ProcessExits \/ OutputAges \/ QuietEnds \/ Monitor
               \/ ReadChunk \/ ReadFails \/ JournalExit \/ EmitExit \/ UNCHANGED vars
      <3>1. UNCHANGED clientVars
        BY <2>1 DEF Create, Kill, ManagerStep, CreateStarts, KillProcess, ProcessExits, OutputAges,
                    QuietEnds, Monitor, Tick, EmitChange, MonitorReturns, ReadChunk, ReadFails,
                    JournalExit, EmitExit, vars
      <3> QED
        BY <1>1, <3>1
    <2>2. ASSUME NEW c \in Clients, Resize(c)
          PROVE  ClientTypes'
      BY <2>2, <1>1 DEF Resize
    <2> QED
      BY <1>2, <1>3, <1>4, <1>5, <1>6, <1>7, <2>1, <2>2 DEF Next, ReadLoop, Writer

-----------------------------------------------------------------------------
(* The other parts of the invariant.                                       *)

\* A sequence of one element, appended to.
LEMMA AppendToOne ==
  ASSUME NEW S, NEW s \in Seq(S), NEW y \in S, Len(s) = 1
  PROVE  Append(s, y) = <<s[1], y>>
  <1>1. 1 \in 1..Len(s)
    OBVIOUS
  <1>2. s[1] \in S
    BY <1>1, ElementOfSeq
  <1>3. Append(s, y) \in Seq(S) /\ Len(Append(s, y)) = 2
    <2>1. Append(s, y) \in Seq(S) /\ Len(Append(s, y)) = Len(s) + 1
      BY AppendProperties, Zenon
    <2> QED
      BY <2>1
  <1>4. Append(s, y)[1] = s[1]
    BY <1>1, AppendProperties
  <1>5. Append(s, y)[2] = y
    <2>1. Append(s, y)[Len(s) + 1] = y
      BY AppendProperties, Zenon
    <2>2. Len(s) + 1 = 2
      OBVIOUS
    <2> QED
      BY <2>1, <2>2, Zenon
  <1>6. ASSUME NEW t \in Seq(S), NEW x \in S, t[1] = x, t[2] = y, Len(t) = 2
        PROVE  t = <<x, y>>
    BY <1>6
  <1> QED
    BY <1>2, <1>3, <1>4, <1>5, <1>6

LEMMA StagesStep == IInv /\ [Next]_vars => Stages'
  <1> SUFFICES ASSUME IInv, [Next]_vars PROVE Stages'
    OBVIOUS
  <1>0. SessionTypes /\ Stages
    BY TypeParts DEF IInv
  <1> USE <1>0 DEF SessionTypes, State, Stages
  <1>1. CASE Create \/ Kill \/ KillProcess \/ ProcessExits \/ OutputAges \/ QuietEnds
    BY <1>1 DEF Create, Kill, KillProcess, ProcessExits, OutputAges, QuietEnds, sessionVars, monitorVars
  <1>2. CASE CreateStarts
    <2>1. jnl' = <<"start">>
      BY <1>2 DEF CreateStarts
    <2> QED
      BY <1>2, <2>1 DEF CreateStarts
  <1>3. CASE ReadChunk \/ Deliver \/ ReadFails \/ HandleExit \/ EmitExit
    BY <1>3 DEF ReadChunk, Deliver, ReadFails, HandleExit, EmitExit, sessionVars, monitorVars
  <1>4. CASE JournalExit
    <2>1. jnl \in Seq({"start", "exit"}) /\ Len(jnl) = 1 /\ jnl[1] = "start"
      BY <1>4 DEF JournalExit
    <2>2. "exit" \in {"start", "exit"}
      OBVIOUS
    <2>3. Append(jnl, "exit") = <<jnl[1], "exit">>
      BY <2>1, <2>2, AppendToOne, Zenon
    <2>4. jnl' = <<"start", "exit">>
      BY <1>4, <2>1, <2>3 DEF JournalExit
    <2> QED
      BY <1>4, <2>4 DEF JournalExit, sessionVars, monitorVars
  <1>5. CASE Monitor
    BY <1>5 DEF Monitor, Tick, EmitChange, MonitorReturns, sessionVars
  <1>6. ASSUME NEW c \in Clients, Open(c) \/ Subscribe(c) \/ Writer(c) \/ Leave(c) \/ Resize(c)
        PROVE  Stages'
    BY <1>6 DEF Open, Subscribe, Writer, Snapshot, Forward, StreamEnds, Leave, Resize, sessionVars,
                monitorVars
  <1>7. CASE UNCHANGED vars
    BY <1>7 DEF vars, sessionVars, monitorVars
  <1> QED
    BY <1>1, <1>2, <1>3, <1>4, <1>5, <1>6, <1>7 DEF Next, ManagerStep, ReadLoop

LEMMA CountedStep == IInv /\ [Next]_vars => Counted'
  <1> SUFFICES ASSUME IInv, [Next]_vars PROVE Counted'
    OBVIOUS
  <1>0. Counted
    BY DEF IInv
  <1> USE <1>0 DEF Counted
  <1>1. CASE Create \/ Kill \/ ManagerStep \/ ProcessExits \/ OutputAges \/ QuietEnds
    BY <1>1 DEF Create, Kill, ManagerStep, CreateStarts, KillProcess, ProcessExits, OutputAges,
                QuietEnds, monitorVars
  <1>2. CASE ReadLoop
    <2>1. CASE Deliver
      BY <1>2, <2>1, Zenon DEF Deliver
    <2>2. CASE HandleExit
      <3>1. state' # "running"
        BY <2>2 DEF HandleExit
      <3> QED
        BY <2>2, <3>1, Zenon DEF HandleExit
    <2> QED
      BY <1>2, <2>1, <2>2 DEF ReadLoop, ReadChunk, ReadFails, JournalExit, EmitExit, monitorVars
  <1>3. CASE Monitor
    <2>1. CASE Tick
      <3>1. \/ recent /\ (state' = "idle" <=> FALSE)
            \/ ~recent /\ state' # "running" /\ (state' = "idle" <=> TRUE)
        BY <2>1 DEF Tick
      <3> QED
        BY <2>1, <3>1, Zenon DEF Tick
    <2> QED
      BY <1>3, <2>1 DEF Monitor, EmitChange, MonitorReturns
  <1>4. ASSUME NEW c \in Clients, Open(c) \/ Subscribe(c) \/ Writer(c) \/ Leave(c) \/ Resize(c)
        PROVE  Counted'
    BY <1>4 DEF Open, Subscribe, Writer, Snapshot, Forward, StreamEnds, Leave, Resize, monitorVars
  <1>5. CASE UNCHANGED vars
    BY <1>5 DEF vars, monitorVars
  <1> QED
    BY <1>1, <1>2, <1>3, <1>4, <1>5 DEF Next

LEMMA ChunkType ==
  ASSUME ClientTypes, NEW c \in Clients, NEW i \in 1..Len(buf[c])
  PROVE  buf[c][i] \in Nat
  <1>1. buf[c] \in Seq(1..MaxChunks)
    BY DEF ClientTypes
  <1>2. buf[c][i] \in 1..MaxChunks
    BY <1>1, ElementOfSeq
  <1> QED
    BY <1>2

LEMMA AppendLen ==
  ASSUME NEW S, NEW s \in Seq(S), NEW n \in S
  PROVE  Len(Append(s, n)) = Len(s) + 1
  OBVIOUS

LEMMA AppendOld ==
  ASSUME NEW S, NEW s \in Seq(S), NEW n \in S, NEW i \in 1..Len(s)
  PROVE  Append(s, n)[i] = s[i]
  BY AppendProperties

LEMMA AppendNew ==
  ASSUME NEW S, NEW s \in Seq(S), NEW n \in S
  PROVE  Append(s, n)[Len(s) + 1] = n
  BY AppendProperties

\* A step that leaves the terminals, the output and the end of the session alone.
LEMMA AttachedKept ==
  ASSUME Attached, NoGaps, UNCHANGED <<clientVars, written, Delivered>>,
         state' = "exited" <=> state = "exited"
  PROVE  Attached' /\ NoGaps'
  <1>1. Attached'
    BY DEF Attached, Attachment, Watching, clientVars
  <1>2. NoGaps'
    BY DEF NoGaps, NoGap, Watching, clientVars
  <1> QED
    BY <1>1, <1>2

\* A step of one terminal leaves the others as they are.
LEMMA OthersKept ==
  ASSUME Attached, NoGaps, UNCHANGED <<written, rdpc, state, slow>>,
         NEW c \in Clients, NEW d \in Clients,
         tmpc'[d] = tmpc[d], d \in subs' <=> d \in subs, d \in shut' <=> d \in shut,
         buf'[d] = buf[d], screen'[d] = screen[d]
  PROVE  Attachment(d)' /\ NoGap(d)'
  BY DEF Attached, Attachment, NoGaps, NoGap, Watching, Delivered

LEMMA AttachedStep == IInv /\ [Next]_vars => Attached' /\ NoGaps'
  <1> SUFFICES ASSUME IInv, [Next]_vars PROVE Attached' /\ NoGaps'
    OBVIOUS
  <1>0. /\ Attached /\ NoGaps /\ Stages /\ ClientTypes
        /\ written \in Nat
        /\ state # "exited" <=> rdpc \notin {"journal", "emit", "done"}
    BY TypeParts, SizeAssumption DEF IInv, SessionTypes, Stages
  <1>1. CASE Create \/ Kill \/ ManagerStep \/ ProcessExits \/ OutputAges \/ QuietEnds \/ Monitor
             \/ ReadFails \/ JournalExit \/ EmitExit \/ UNCHANGED vars
    <2>1. UNCHANGED <<clientVars, written>>
      BY <1>1 DEF Create, Kill, ManagerStep, CreateStarts, KillProcess, ProcessExits, OutputAges,
                  QuietEnds, Monitor, Tick, EmitChange, MonitorReturns, ReadFails, JournalExit,
                  EmitExit, vars
    <2>2. rdpc' = "deliver" <=> rdpc = "deliver"
      BY <1>0, <1>1
      DEF Create, Kill, ManagerStep, CreateStarts, KillProcess, ProcessExits, OutputAges, QuietEnds,
          Monitor, Tick, EmitChange, MonitorReturns, ReadFails, JournalExit, EmitExit, Stages, vars,
          sessionVars
    <2>3. state' = "exited" <=> state = "exited"
      BY <1>0, <1>1
      DEF Create, Kill, ManagerStep, CreateStarts, KillProcess, ProcessExits, OutputAges, QuietEnds,
          Monitor, Tick, EmitChange, MonitorReturns, ReadFails, JournalExit, EmitExit, Stages, vars,
          sessionVars, monitorVars
    <2> QED
      BY <1>0, <2>1, <2>2, <2>3, AttachedKept DEF Delivered
  <1>2. CASE ReadChunk
    <2>1. UNCHANGED <<clientVars, state>> /\ written' = written + 1 /\ Delivered' = Delivered
      BY <1>0, <1>2 DEF ReadChunk, Delivered, monitorVars
    <2>2. \A c \in Clients : \A i \in 1..Len(buf[c]) : buf[c][i] \in Nat
      BY <1>0, ChunkType
    <2>3. \A c \in Clients : screen[c] # None => screen[c].upto \in Nat
      BY <1>0 DEF ClientTypes, Shown
    <2>4. Attached'
      BY <1>0, <2>1, <2>2, <2>3 DEF Attached, Attachment, Watching, clientVars
    <2>5. NoGaps'
      BY <1>0, <2>1 DEF NoGaps, NoGap, Watching, clientVars
    <2> QED
      BY <2>4, <2>5
  <1>3. CASE HandleExit
    <2>1. UNCHANGED <<written, tmpc, buf, screen, slow>> /\ state' = "exited" /\ state # "exited"
      BY <1>0, <1>3 DEF HandleExit
    <2>2. Delivered' = Delivered
      BY <1>3 DEF HandleExit, Delivered
    <2>3. Attached'
      BY <1>0, <1>3, <2>1 DEF HandleExit, Attached, Attachment, Watching
    <2>4. NoGaps'
      BY <1>0, <2>1, <2>2 DEF NoGaps, NoGap, Watching
    <2> QED
      BY <2>3, <2>4
  <1>4. CASE Deliver
    <2>1. /\ UNCHANGED <<written, state, tmpc, subs, shut, screen>>
          /\ Delivered' = written /\ Delivered = written - 1
          /\ state # "exited"
      BY <1>0, <1>4 DEF Deliver, Delivered
    <2> SUFFICES ASSUME NEW c \in Clients
                 PROVE  Attachment(c)' /\ NoGap(c)'
      BY DEF Attached, NoGaps
    <2>2. Attachment(c) /\ NoGap(c) /\ buf[c] \in Seq(Nat)
      BY <1>0, SizeAssumption DEF Attached, NoGaps, ClientTypes
    <2>3. CASE c \in subs /\ Len(buf[c]) # SubCap
      <3>1. buf'[c] = Append(buf[c], written) /\ (c \in slow' <=> c \in slow)
        BY <1>4, <2>3 DEF Deliver
      <3>2. /\ Len(buf'[c]) = Len(buf[c]) + 1
            /\ \A i \in 1..Len(buf[c]) : buf'[c][i] = buf[c][i]
            /\ buf'[c][Len(buf[c]) + 1] = written
        <4>1. buf[c] \in Seq(Nat) /\ written \in Nat
          BY <1>0, <2>2
        <4>2. Len(Append(buf[c], written)) = Len(buf[c]) + 1
          BY <4>1, AppendLen, ZenonT(60)
        <4>3. Append(buf[c], written)[Len(buf[c]) + 1] = written
          BY <4>1, AppendNew, ZenonT(60)
        <4>4. ASSUME NEW i \in 1..Len(buf[c])
              PROVE  buf'[c][i] = buf[c][i]
          <5>1. Append(buf[c], written)[i] = buf[c][i]
            BY <4>1, AppendOld, ZenonT(60)
          <5> QED
            BY <3>1, <5>1, Zenon
        <4> QED
          BY <3>1, <4>2, <4>3, <4>4, Zenon
      <3>3. Attachment(c)'
        <4>1. ASSUME NEW i \in 1..Len(buf'[c])
              PROVE  buf'[c][i] <= written
          <5>1. Len(buf[c]) \in Nat
            BY <2>2
          <5>2. i \in 1..Len(buf[c]) \/ i = Len(buf[c]) + 1
            BY <3>2, <5>1
          <5>3. \A j \in 1..Len(buf[c]) : buf[c][j] <= written
            BY <2>2 DEF Attachment
          <5>4. CASE i \in 1..Len(buf[c])
            BY <3>2, <5>3, <5>4
          <5>5. CASE i = Len(buf[c]) + 1
            BY <1>0, <3>2, <5>5
          <5> QED
            BY <5>2, <5>4, <5>5
        <4>2. Attachment(c) /\ Watching(c)
          BY <2>2, <2>3 DEF Attachment
        <4> QED
          BY <2>1, <4>1, <4>2 DEF Attachment, Watching
      <3>4. NoGap(c)'
        <4> SUFFICES ASSUME Watching(c), c \notin slow
                     PROVE  /\ \A i \in 1..Len(buf'[c]) : buf'[c][i] = Delivered' - Len(buf'[c]) + i
                            /\ tmpc[c] = "stream" => screen[c].upto >= Delivered' - Len(buf'[c])
          BY <2>1, <3>1 DEF NoGap, Watching
        <4>1. /\ \A i \in 1..Len(buf[c]) : buf[c][i] = Delivered - Len(buf[c]) + i
              /\ tmpc[c] = "stream" => screen[c].upto >= Delivered - Len(buf[c])
          BY <2>2 DEF NoGap
        <4>2. Len(buf[c]) \in Nat /\ written \in Nat
          BY <1>0, <2>2
        <4>3. /\ Delivered' - Len(buf'[c]) = Delivered - Len(buf[c])
              /\ Delivered - Len(buf[c]) \in Int
              /\ Delivered - Len(buf[c]) + (Len(buf[c]) + 1) = written
          BY <2>1, <3>2, <4>2
        <4>4. ASSUME NEW i \in 1..Len(buf'[c])
              PROVE  buf'[c][i] = Delivered' - Len(buf'[c]) + i
          <5>1. CASE i \in 1..Len(buf[c])
            BY <3>2, <4>1, <4>3, <5>1
          <5>2. CASE i = Len(buf[c]) + 1
            BY <3>2, <4>3, <5>2
          <5> QED
            BY <3>2, <4>2, <5>1, <5>2
        <4> QED
          BY <4>1, <4>3, <4>4
      <3> QED
        BY <3>3, <3>4
    <2>4. CASE c \in subs /\ Len(buf[c]) = SubCap
      BY <1>4, <2>1, <2>2, <2>4 DEF Deliver, Attachment, NoGap, Watching
    <2>5. CASE c \notin subs
      BY <1>4, <2>1, <2>2, <2>5 DEF Deliver, Attachment, NoGap, Watching
    <2> QED
      BY <2>3, <2>4, <2>5
  <1>5. ASSUME NEW c \in Clients, NEW d \in Clients \ {c},
               Open(c) \/ Subscribe(c) \/ Writer(c) \/ Leave(c) \/ Resize(c)
        PROVE  Attachment(d)' /\ NoGap(d)'
    <2>1. /\ UNCHANGED <<written, rdpc, state, slow>>
          /\ tmpc'[d] = tmpc[d] /\ buf'[d] = buf[d] /\ screen'[d] = screen[d]
          /\ d \in subs' <=> d \in subs
          /\ d \in shut' <=> d \in shut
      BY <1>0, <1>5 DEF Open, Subscribe, Writer, Snapshot, Forward, StreamEnds, Leave, Resize,
                        ClientTypes, monitorVars, clientVars
    <2> QED
      BY <1>0, <2>1, OthersKept
  <1>6. ASSUME NEW c \in Clients, Open(c) \/ Subscribe(c) \/ Leave(c) \/ Resize(c) \/ StreamEnds(c)
        PROVE  Attachment(c)' /\ NoGap(c)'
    <2>1. Attachment(c) /\ NoGap(c) /\ Delivered \in Int
      BY <1>0 DEF Attached, NoGaps, Delivered
    <2>2. UNCHANGED <<written, rdpc, state, slow, screen, Delivered>>
      BY <1>6 DEF Open, Subscribe, Leave, Resize, StreamEnds, monitorVars, clientVars, Delivered
    <2>3. CASE Open(c) \/ Resize(c) \/ StreamEnds(c)
      BY <1>0, <2>1, <2>2, <2>3
      DEF Open, Resize, StreamEnds, Attachment, NoGap, Watching, ClientTypes, clientVars
    <2>4. CASE Subscribe(c)
      BY <1>0, <2>1, <2>2, <2>4 DEF Subscribe, Attachment, NoGap, Watching, ClientTypes
    <2>5. CASE Leave(c)
      BY <1>0, <2>1, <2>2, <2>5 DEF Leave, Attachment, NoGap, Watching, ClientTypes
    <2> QED
      BY <1>6, <2>3, <2>4, <2>5
  <1>7. ASSUME NEW c \in Clients, Snapshot(c)
        PROVE  Attachment(c)' /\ NoGap(c)'
    <2>1. Attachment(c) /\ NoGap(c)
      BY <1>0 DEF Attached, NoGaps
    <2>2. screen'[c].upto = written /\ screen'[c] # None
      BY <1>0, <1>7, ScrollbackType DEF Snapshot, IInv, ClientTypes
    <2>3. /\ UNCHANGED <<written, state, slow, subs, shut, buf, Delivered>>
          /\ tmpc[c] = "subscribed" /\ tmpc'[c] = "stream"
          /\ Delivered \in Int /\ Delivered <= written
      BY <1>0, <1>7 DEF Snapshot, monitorVars, Delivered, ClientTypes
    <2>4. Len(buf[c]) \in Nat
      BY <1>0 DEF ClientTypes
    <2> QED
      BY <1>0, <2>1, <2>2, <2>3, <2>4 DEF Attachment, NoGap, Watching
  <1>8. ASSUME NEW c \in Clients, Forward(c)
        PROVE  Attachment(c)' /\ NoGap(c)'
    <2>1. /\ Attachment(c) /\ NoGap(c) /\ tmpc[c] = "stream" /\ screen[c] # None
          /\ Delivered \in Int
      BY <1>0, <1>8 DEF Attached, NoGaps, Forward, Attachment, Delivered
    <2>2. UNCHANGED <<written, state, slow, tmpc, subs, shut, Delivered>>
      BY <1>8 DEF Forward, monitorVars, Delivered
    <2>3. buf[c] \in Seq(1..MaxChunks) /\ buf[c] # <<>> /\ buf'[c] = Tail(buf[c])
      BY <1>0, <1>8 DEF Forward, ClientTypes
    <2>4. /\ Len(buf[c]) \in Nat
          /\ Len(buf'[c]) = Len(buf[c]) - 1
          /\ \A i \in 1..Len(buf'[c]) : buf'[c][i] = buf[c][i + 1]
          /\ Head(buf[c]) = buf[c][1] /\ 1 \in 1..Len(buf[c])
      BY <2>3, HeadTailProperties
    <2>5. buf[c][1] \in Nat /\ screen[c] \in Shown
      BY <1>0, <2>1, <2>4, ChunkType DEF ClientTypes
    <2>6. /\ screen'[c] # None
          /\ screen'[c].upto = IF buf[c][1] > screen[c].upto THEN buf[c][1] ELSE screen[c].upto
      <3>1. screen'[c] = [screen[c] EXCEPT !.upto = IF Head(buf[c]) > screen[c].upto
                                                    THEN Head(buf[c]) ELSE screen[c].upto]
        BY <1>0, <1>8 DEF Forward, ClientTypes
      <3>2. \A n \in Nat, r \in Shown : [r EXCEPT !.upto = n].upto = n /\ [r EXCEPT !.upto = n] # None
        BY SizeAssumption DEF Shown
      <3>3. screen[c].upto \in Nat
        BY <2>5 DEF Shown
      <3> QED
        BY <2>4, <2>5, <3>1, <3>2, <3>3, SMTT(30)
    <2>7. screen[c].upto \in Nat
      BY <2>5 DEF Shown
    <2>8. Attachment(c)'
      BY <1>0, <2>1, <2>2, <2>4, <2>5, <2>6, <2>7, SMTT(30) DEF Attachment, Watching
    <2>9. NoGap(c)'
      <3> SUFFICES ASSUME c \notin slow
                   PROVE  /\ \A i \in 1..Len(buf'[c]) : buf'[c][i] = Delivered - Len(buf'[c]) + i
                          /\ screen'[c].upto >= Delivered - Len(buf'[c])
        BY <2>2 DEF NoGap, Watching
      <3>1. \A i \in 1..Len(buf[c]) : buf[c][i] = Delivered - Len(buf[c]) + i
        BY <2>1 DEF NoGap, Watching
      <3>2. ASSUME NEW i \in 1..Len(buf'[c])
            PROVE  buf'[c][i] = Delivered - Len(buf'[c]) + i
        <4>1. i + 1 \in 1..Len(buf[c]) /\ buf'[c][i] = buf[c][i + 1]
          BY <2>4
        <4>2. buf[c][i + 1] = Delivered - Len(buf[c]) + (i + 1)
          BY <3>1, <4>1
        <4>3. Delivered - Len(buf'[c]) + i = Delivered - Len(buf[c]) + (i + 1)
          <5>1. Len(buf[c]) \in Nat /\ Len(buf'[c]) = Len(buf[c]) - 1 /\ i \in Int /\ Delivered \in Int
            BY <2>1, <2>4
          <5> QED
            BY <5>1
        <4> QED
          BY <4>1, <4>2, <4>3
      <3>3. screen'[c].upto >= Delivered - Len(buf'[c])
        <4>1. buf[c][1] = Delivered - Len(buf[c]) + 1
          BY <2>4, <3>1
        <4>2. screen'[c].upto >= buf[c][1]
          BY <2>5, <2>6, <2>7
        <4>3. Delivered - Len(buf'[c]) = Delivered - Len(buf[c]) + 1
          BY <2>1, <2>4
        <4> QED
          BY <4>1, <4>2, <4>3
      <3> QED
        BY <3>2, <3>3
    <2> QED
      BY <2>8, <2>9
  <1> QED
    <2>1. ASSUME NEW c \in Clients,
                 Open(c) \/ Subscribe(c) \/ Writer(c) \/ Leave(c) \/ Resize(c)
          PROVE  Attached' /\ NoGaps'
      BY <2>1, <1>5, <1>6, <1>7, <1>8 DEF Attached, NoGaps, Writer
    <2> QED
      BY <1>1, <1>2, <1>3, <1>4, <2>1 DEF Next, ReadLoop

LEMMA Inductive == IInv /\ [Next]_vars => IInv'
  <1> SUFFICES ASSUME IInv, [Next]_vars PROVE IInv'
    OBVIOUS
  <1>1. TypeOK'
    BY FlagsStep, SessionTypesStep, ClientTypesStep DEF TypeOK, Flags, SessionTypes, ClientTypes, Shown
  <1> QED
    BY <1>1, StagesStep, CountedStep, AttachedStep DEF IInv

THEOREM Invariance == Spec => []IInv
  BY InitIInv, Inductive, PTL DEF Spec

-----------------------------------------------------------------------------
(* The theorems.                                                           *)

\* Whoever sends, drains or hangs up, everything stays in its type; above all, no channel
\* of a terminal ever holds more than SubCap chunks.
THEOREM TypeCorrect == Spec => []TypeOK
  <1>1. IInv => TypeOK
    BY DEF IInv
  <1> QED
    BY <1>1, Invariance, PTL

\* The journal of a session is its start and then its exit, whenever it is killed or exits.
THEOREM JournalIsInOrder == Spec => []JournalInOrder
  <1>1. IInv => JournalInOrder
    <2>1. Stages /\ SessionTypes => JournalInOrder
      BY DEF Stages, SessionTypes, JournalInOrder
    <2> QED
      BY <2>1, TypeParts DEF IInv
  <1> QED
    BY <1>1, Invariance, PTL

\* Only output that counts makes a session run, whatever resizes and ticks overlap it.
THEOREM RunningIsWork == Spec => []RunningMeansWork
  <1>1. IInv => RunningMeansWork
    BY DEF IInv, Counted, RunningMeansWork
  <1> QED
    BY <1>1, Invariance, PTL

\* No tick of the monitor revives a session that exited.
THEOREM ExitStays == Spec => ExitedIsFinal
  <1>1. [Next]_vars => [state = "exited" => state' = "exited"]_vars
    <2> SUFFICES ASSUME Next, state = "exited"
                 PROVE  state' = "exited"
      OBVIOUS
    <2>1. CASE Create \/ Kill \/ ManagerStep \/ ProcessExits \/ OutputAges \/ QuietEnds
      BY <2>1 DEF Create, Kill, ManagerStep, CreateStarts, KillProcess, ProcessExits, OutputAges,
                  QuietEnds, monitorVars
    <2>2. CASE ReadLoop
      BY <2>2 DEF ReadLoop, ReadChunk, Deliver, ReadFails, HandleExit, JournalExit, EmitExit, monitorVars
    <2>3. CASE Monitor
      BY <2>3 DEF Monitor, Tick, EmitChange, MonitorReturns
    <2>4. ASSUME NEW c \in Clients, Open(c) \/ Subscribe(c) \/ Writer(c) \/ Leave(c) \/ Resize(c)
          PROVE  state' = "exited"
      BY <2>4 DEF Open, Subscribe, Writer, Snapshot, Forward, StreamEnds, Leave, Resize, monitorVars
    <2> QED
      BY <2>1, <2>2, <2>3, <2>4 DEF Next
  <1> QED
    BY <1>1, PTL DEF Spec, ExitedIsFinal

-----------------------------------------------------------------------------
(* The events. *)

\* The monitor's next event, and then its last one, tells the state.
Informed ==
    /\ mnpc = "none" <=> rdpc = "none"
    /\ mnpc = "none" => state = "idle" /\ news = None
    /\ mnpc = "emit" => state = event \/ state = "exited"
    /\ mnpc = "done" => state = "exited"
    /\ NewsIsState

LEMMA InformedStep == IInv /\ Informed /\ [Next]_vars => Informed'
  <1> SUFFICES ASSUME IInv, Informed, [Next]_vars PROVE Informed'
    OBVIOUS
  <1>0. Stages /\ SessionTypes
    BY TypeParts DEF IInv
  <1> USE <1>0 DEF Stages, SessionTypes, Informed, NewsIsState
  <1>1. CASE Create \/ Kill \/ ManagerStep \/ ProcessExits \/ OutputAges \/ QuietEnds
    <2>1. CASE CreateStarts
      BY <2>1 DEF CreateStarts
    <2>2. CASE Create \/ Kill \/ KillProcess \/ ProcessExits \/ OutputAges \/ QuietEnds
      <3>1. UNCHANGED <<mnpc, rdpc, state, event, news>>
        BY <2>2 DEF Create, Kill, KillProcess, ProcessExits, OutputAges, QuietEnds, monitorVars
      <3> QED
        BY <3>1
    <2> QED
      BY <1>1, <2>1, <2>2 DEF ManagerStep
  <1>2. CASE ReadLoop
    BY <1>2 DEF ReadLoop, ReadChunk, Deliver, ReadFails, HandleExit, JournalExit, EmitExit, monitorVars
  <1>3. CASE Monitor
    BY <1>3 DEF Monitor, Tick, EmitChange, MonitorReturns, sessionVars
  <1>4. ASSUME NEW c \in Clients, Open(c) \/ Subscribe(c) \/ Writer(c) \/ Leave(c) \/ Resize(c)
        PROVE  Informed'
    BY <1>4 DEF Open, Subscribe, Writer, Snapshot, Forward, StreamEnds, Leave, Resize, monitorVars
  <1>5. CASE UNCHANGED vars
    BY <1>5 DEF vars, sessionVars, monitorVars
  <1> QED
    BY <1>1, <1>2, <1>3, <1>4, <1>5 DEF Next

\* Every state transition of a live session is told: between two ticks of the monitor the last
\* event is the state, whatever the read loop, the resizes and the windows do meanwhile.
THEOREM EventsTellTheState == Spec => []NewsIsState
  <1>1. Init => Informed
    BY DEF Init, Informed, NewsIsState
  <1>2. Informed => NewsIsState
    BY DEF Informed
  <1> QED
    BY InitIInv, Inductive, InformedStep, <1>1, <1>2, PTL DEF Spec

-----------------------------------------------------------------------------
(* Session implements TerminalStream.                                      *)

Ended == {c \in Clients : tmpc[c] = "ended"}

LEMMA StreamInit == Init => Stream!Init
  BY DEF Init, Stream!Init

\* A step that shows no terminal anything, produces nothing and ends nothing.
LEMMA StreamStutters ==
  ASSUME UNCHANGED <<written, screen, slow>>, Ended' = Ended,
         state' = "exited" <=> state = "exited"
  PROVE  UNCHANGED Stream!vars
  BY DEF Stream!vars, Ended

LEMMA StreamStep == IInv /\ [Next]_vars => [Stream!Next]_(Stream!vars)
  <1> SUFFICES ASSUME IInv, [Next]_vars PROVE [Stream!Next]_(Stream!vars)
    OBVIOUS
  <1>0. Attached /\ NoGaps /\ Stages /\ SessionTypes /\ ClientTypes /\ written \in Nat
    BY TypeParts, SizeAssumption DEF IInv, SessionTypes
  <1>1. CASE Create \/ Kill \/ ManagerStep \/ ProcessExits \/ OutputAges \/ QuietEnds \/ Monitor
             \/ ReadFails \/ JournalExit \/ EmitExit \/ UNCHANGED vars
    <2>1. UNCHANGED <<clientVars, written>>
      BY <1>1 DEF Create, Kill, ManagerStep, CreateStarts, KillProcess, ProcessExits, OutputAges,
                  QuietEnds, Monitor, Tick, EmitChange, MonitorReturns, ReadFails, JournalExit,
                  EmitExit, vars
    <2>2. state' = "exited" <=> state = "exited"
      BY <1>0, <1>1
      DEF Create, Kill, ManagerStep, CreateStarts, KillProcess, ProcessExits, OutputAges, QuietEnds,
          Monitor, Tick, EmitChange, MonitorReturns, ReadFails, JournalExit, EmitExit, vars,
          sessionVars, monitorVars
    <2> QED
      BY <2>1, <2>2, StreamStutters DEF clientVars, Ended
  <1>2. CASE ReadChunk
    <2>1. /\ written' = written + 1
          /\ UNCHANGED <<state, screen, slow, tmpc>>
          /\ state # "exited"
      BY <1>0, <1>2 DEF ReadChunk, Stages, monitorVars, clientVars
    <2>2. Stream!Produce
      BY <2>1 DEF Stream!Produce
    <2> QED
      BY <2>2 DEF Stream!Next
  <1>3. CASE HandleExit
    <2>1. Stream!Finish
      BY <1>3 DEF HandleExit, Stream!Finish
    <2> QED
      BY <2>1 DEF Stream!Next
  <1>4. CASE Deliver
    <2>1. /\ UNCHANGED <<written, state, screen, tmpc>>
          /\ slow' = slow \cup {c \in subs : Len(buf[c]) = SubCap}
          /\ {c \in subs : Len(buf[c]) = SubCap} \in SUBSET Clients
      BY <1>0, <1>4 DEF Deliver, ClientTypes
    <2>2. Stream!FallBehind
      BY <2>1 DEF Stream!FallBehind
    <2> QED
      BY <2>2 DEF Stream!Next
  <1>5. ASSUME NEW c \in Clients, Open(c) \/ Subscribe(c) \/ Leave(c) \/ Resize(c)
        PROVE  UNCHANGED Stream!vars
    <2>1. UNCHANGED <<written, state, screen, slow>>
      BY <1>5 DEF Open, Subscribe, Leave, Resize, monitorVars, clientVars
    <2>2. Ended' = Ended
      BY <1>0, <1>5 DEF Open, Subscribe, Leave, Resize, clientVars, ClientTypes, Ended
    <2> QED
      BY <2>1, <2>2, StreamStutters
  <1>6. ASSUME NEW c \in Clients, Snapshot(c)
        PROVE  Stream!Replay(c)
    <2>1. /\ screen[c] = None
          /\ screen' = [screen EXCEPT ![c] = Scrollback]
          /\ UNCHANGED <<written, state, slow>>
      BY <1>0, <1>6 DEF Snapshot, Attached, Attachment, monitorVars
    <2>2. Ended' = Ended
      BY <1>0, <1>6 DEF Snapshot, ClientTypes, Ended
    <2>3. Scrollback = [from |-> Scrollback.from, upto |-> written] /\ Scrollback.from \in 1..written + 1
      BY ScrollbackType DEF IInv, Scrollback
    <2> QED
      BY <2>1, <2>2, <2>3 DEF Stream!Replay, Ended
  <1>7. ASSUME NEW c \in Clients, Forward(c)
        PROVE  Stream!Show(c) \/ UNCHANGED Stream!vars
    <2> DEFINE n == Head(buf[c])
               upto == screen[c].upto
    <2>1. /\ screen' = [screen EXCEPT ![c].upto = IF n > upto THEN n ELSE upto]
          /\ tmpc[c] = "stream" /\ screen[c] # None
          /\ UNCHANGED <<written, state, slow, tmpc>>
      BY <1>0, <1>7 DEF Forward, Attached, Attachment, monitorVars
    <2>2. screen[c] \in Shown /\ screen \in [Clients -> Shown \cup {None}]
      BY <1>0, <2>1 DEF ClientTypes
    <2>3. upto \in Nat
      BY <2>2 DEF Shown
    <2>4. n = buf[c][1] /\ 1 \in 1..Len(buf[c])
      <3>1. buf[c] \in Seq(1..MaxChunks) /\ buf[c] # <<>>
        BY <1>0, <1>7 DEF Forward, ClientTypes
      <3> QED
        BY <3>1
    <2>5. n \in Nat /\ n <= written
      BY <1>0, <2>4, ChunkType DEF Attached, Attachment
    <2>6. c \notin slow => n <= upto + 1
      <3> SUFFICES ASSUME c \notin slow PROVE n <= upto + 1
        OBVIOUS
      <3>1. n = Delivered - Len(buf[c]) + 1 /\ upto >= Delivered - Len(buf[c])
        BY <1>0, <2>1, <2>4 DEF NoGaps, NoGap, Watching
      <3>2. Delivered - Len(buf[c]) \in Int
        <4>1. Len(buf[c]) \in Nat /\ Delivered \in Int
          BY <1>0 DEF ClientTypes, Delivered
        <4> QED
          BY <4>1
      <3> HIDE DEF n, upto
      <3> QED
        BY <2>3, <3>1, <3>2
    <2>7. CASE n > upto
      <3>1. n \in upto + 1..written /\ (c \notin slow => n = upto + 1)
        <4> HIDE DEF n, upto
        <4> QED
          BY <1>0, <2>3, <2>5, <2>6, <2>7
      <3>2. screen' = [screen EXCEPT ![c].upto = n]
        BY <2>1, <2>7
      <3>3. UNCHANGED <<written, slow, state, Ended>>
        BY <2>1 DEF Ended
      <3> QED
        BY <2>1, <3>1, <3>2, <3>3 DEF Stream!Show, Ended
    <2>8. CASE ~(n > upto)
      <3>1. [screen[c] EXCEPT !.upto = upto] = screen[c]
        BY <2>2 DEF Shown
      <3>2. screen' = screen
        BY <2>1, <2>2, <2>8, <3>1
      <3> QED
        BY <2>1, <3>2, StreamStutters DEF Ended
    <2> QED
      BY <2>7, <2>8
  <1>8. ASSUME NEW c \in Clients, StreamEnds(c)
        PROVE  Stream!EndStream(c)
    <2>1. /\ UNCHANGED <<written, state, screen, slow>>
          /\ tmpc[c] = "stream" /\ c \in shut /\ buf[c] = <<>>
      BY <1>8 DEF StreamEnds, monitorVars
    <2>2. Ended' = Ended \cup {c}
      BY <1>0, <1>8 DEF StreamEnds, ClientTypes, Ended
    <2>3. state = "exited" /\ screen[c] # None /\ screen[c].upto <= written
      BY <1>0, <2>1 DEF Attached, Attachment, Watching
    <2>4. c \notin slow => screen[c].upto = written
      <3>1. Delivered = written
        BY <1>0, <2>3 DEF Stages, Delivered
      <3>2. c \notin slow => screen[c].upto >= written
        <4>1. Len(buf[c]) = 0
          BY <2>1
        <4>2. c \notin slow => screen[c].upto >= Delivered - Len(buf[c])
          BY <1>0, <2>1 DEF NoGaps, NoGap, Watching
        <4> QED
          BY <1>0, <3>1, <4>1, <4>2
      <3>3. screen[c].upto \in Nat
        BY <1>0, <2>3 DEF ClientTypes, Shown
      <3> QED
        BY <1>0, <2>3, <3>2, <3>3
    <2> QED
      BY <2>1, <2>2, <2>3, <2>4 DEF Stream!EndStream, Ended
  <1> QED
    BY <1>1, <1>2, <1>3, <1>4, <1>5, <1>6, <1>7, <1>8 DEF Next, ReadLoop, Writer, Stream!Next

\* A terminal that keeps up misses nothing between the scrollback and the stream, and its
\* stream ends only after the last chunk: Session implements TerminalStream.
THEOREM SessionStreams == Spec => StreamSpec
  BY StreamInit, StreamStep, Invariance, PTL DEF Spec, StreamSpec, Stream!Spec
=============================================================================
