-------------------------- MODULE CmdRelay_proofs --------------------------
(***************************************************************************)
(* Theorems about CmdRelay: the type invariant; that op run and op inject  *)
(* use one value for a reference, and only the whole of what a successful  *)
(* read printed; that the caller sees what the tool printed and how it     *)
(* ended, and the tool the end of its input no earlier than it came.       *)
(*                                                                         *)
(* Output and exit code rest on FlowInv: Control says how far each of the  *)
(* ten processes is, Flowing that the pieces between Serve and the shim,   *)
(* taken as one sequence (InFlight), are frames that nothing interrupts,   *)
(* and number each stream's chunks without a gap, and Answered what that   *)
(* made of the caller's output.  A broken connection loses pieces from     *)
(* behind only (Begins), so that what was read stays a prefix.             *)
(***************************************************************************)
EXTENDS CmdRelay, SequenceTheorems, TLAPS

\* A call has been made and its code not been looked at.
InCall == {"dial", "header", "tag", "body", "returned"}

\* What a call reads is a reference that nothing is known of yet.
Reading ==
    /\ spc = "resolve" => kind # "plain"
    /\ spc \in InCall /\ kind # "plain" => cur \in Vars \ left /\ cache[refOf[cur]] = None

\* What a variable holds is what the cache holds for its reference.
Cached == \A v \in Vars : env[v] # None => env[v] = cache[refOf[v]]

\* Unless a call failed, every variable visited is resolved but the one being read.
Resolved ==
    /\ spc = "resolve" /\ ~failed => \A v \in Vars \ left : env[v] # None
    /\ spc \in InCall /\ kind # "plain" /\ ~failed =>
          \A v \in Vars \ left : v # cur => env[v] # None
    /\ ran => \A v \in Vars : env[v] # None

OpInv == Reading /\ Cached /\ Resolved

IInv == TypeOK /\ OpInv

-----------------------------------------------------------------------------
(* Connections. *)

LEMMA Pieces ==
  /\ \A t \in Tags : Whole(t) \in Piece /\ HeadOf(t) \in Piece
  /\ \A t \in Tags, k \in Int : BodyOf(t, k) \in Piece
  BY DEF Whole, HeadOf, BodyOf, Piece

LEMMA HeadPiece ==
  ASSUME NetTypes, NEW p \in Pipes, CanRead(p)
  PROVE  Head(q[p]) \in Piece /\ Tail(q[p]) \in Seq(Piece)
<1>1. q[p] \in Seq(Piece) /\ q[p] # <<>>
  BY DEF NetTypes, CanRead
<1> QED
  BY <1>1, HeadTailProperties

LEMMA PushTypes ==
  ASSUME NetTypes, NEW p \in Pipes, NEW x \in Piece, Push(p, x)
  PROVE  q' \in [Pipes -> Seq(Piece)]
<1>1. q[p] \in Seq(Piece)
  BY DEF NetTypes
<1>2. Append(q[p], x) \in Seq(Piece)
  BY <1>1, AppendProperties
<1> QED
  BY <1>2 DEF NetTypes, Push

LEMMA PopTypes ==
  ASSUME NetTypes, NEW p \in Pipes, CanRead(p), Pop(p)
  PROVE  q' \in [Pipes -> Seq(Piece)]
<1>1. Tail(q[p]) \in Seq(Piece)
  BY HeadPiece
<1> QED
  BY <1>1 DEF NetTypes, Pop

LEMMA CloseTypes ==
  ASSUME NetTypes, NEW ends, Close(ends)
  PROVE  q' \in [Pipes -> Seq(Piece)] /\ open' \subseteq Ends
  BY DEF NetTypes, Close

-----------------------------------------------------------------------------
(* Types: one lemma per process. *)

LEMMA InitTypes == Init => TypeOK
<1> SUFFICES ASSUME Init PROVE TypeOK
  OBVIOUS
<1>1. job \in Invocation /\ job.inputs \in Nat
  BY BoundAssumption DEF Init, Invocation
<1>2. OpTypes
  BY DEF Init, OpTypes
<1>3. ShimTypes
  BY <1>1 DEF Init, ShimTypes, Nothing
<1>4. NetTypes
  BY DEF Init, NetTypes, NoPieces
<1>5. ServeTypes
  <2>1. todo \in Seq({"stderr", "exit"} \X Int)
    BY EmptySeq DEF Init
  <2> QED
    BY <2>1 DEF Init, ServeTypes, Off
<1>6. ToolTypes
  BY DEF Init, ToolTypes, Zero
<1> QED
  BY <1>2, <1>3, <1>4, <1>5, <1>6 DEF Init, TypeOK

\* Groups that a step does not touch keep their types.
LEMMA Kept ==
  ASSUME TypeOK, job' = job
  PROVE  /\ job' \in Jobs
         /\ UNCHANGED opVars => OpTypes'
         /\ UNCHANGED shimVars => ShimTypes'
         /\ UNCHANGED <<netVars, relayVars>> => NetTypes'
         /\ UNCHANGED <<mainVars, gpc, cp, exitSent>> => ServeTypes'
         /\ UNCHANGED <<toolVars, okPrints>> => ToolTypes'
<1>1. job' \in Jobs
  BY DEF TypeOK
<1>2. UNCHANGED opVars => OpTypes'
  BY DEF TypeOK, OpTypes, opVars
<1>3. UNCHANGED shimVars => ShimTypes'
  BY DEF TypeOK, ShimTypes, shimVars
<1>4. UNCHANGED <<netVars, relayVars>> => NetTypes'
  BY DEF TypeOK, NetTypes, netVars, relayVars
<1>5. UNCHANGED <<mainVars, gpc, cp, exitSent>> => ServeTypes'
  BY DEF TypeOK, ServeTypes, mainVars
<1>6. UNCHANGED <<toolVars, okPrints>> => ToolTypes'
  BY DEF TypeOK, ToolTypes, toolVars
<1> QED
  BY <1>1, <1>2, <1>3, <1>4, <1>5, <1>6

\* Shim's return.
LEMMA ReturnsTypes ==
  ASSUME TypeOK, NEW c \in Int, Returns(c), job' = job, sent' = sent,
         srd' \in Tags \cup {None}, rendered' \in [Streams -> Seq(Piece)],
         cut' = cut, UNCHANGED relayVars
  PROVE  ShimTypes' /\ NetTypes'
<1>1. q' \in [Pipes -> Seq(Piece)] /\ open' \subseteq Ends
  BY CloseTypes DEF Returns, TypeOK
<1> QED
  BY <1>1 DEF Returns, TypeOK, ShimTypes, NetTypes, relayVars

LEMMA ContainerTypes == TypeOK /\ (Container \/ ShimKilled) => TypeOK'
<1> SUFFICES ASSUME TypeOK, Container \/ ShimKilled PROVE TypeOK'
  OBVIOUS
<1> USE DEF serveVars
<1>a. NetTypes /\ srd \in Tags \cup {None} /\ rendered \in [Streams -> Seq(Piece)]
  BY DEF TypeOK, ShimTypes
<1>1. ASSUME NEW v \in Vars, FromCache(v) PROVE TypeOK'
  <2>1. refOf \in [Vars -> Refs]
    BY BoundAssumption DEF TypeOK, Invocation, refOf
  <2>2. OpTypes'
    BY <1>1, <2>1 DEF FromCache, TypeOK, OpTypes
  <2> QED
    BY <1>1, <2>2, Kept DEF FromCache, TypeOK
<1>2. ASSUME NEW v \in Vars, ReadsRef(v) PROVE TypeOK'
  <2>1. OpTypes' /\ ShimTypes'
    BY <1>2 DEF ReadsRef, StartsRead, TypeOK, OpTypes, ShimTypes
  <2>2. NetTypes'
    BY <1>2 DEF ReadsRef, StartsRead, TypeOK, NetTypes, NoPieces
  <2>3. todo' \in Seq({"stderr", "exit"} \X Int)
    BY <1>2, EmptySeq DEF ReadsRef, StartsRead
  <2>4. ServeTypes'
    BY <1>2, <2>3 DEF ReadsRef, StartsRead, ServeTypes, Off
  <2>5. ToolTypes'
    BY <1>2 DEF ReadsRef, StartsRead, TypeOK, ToolTypes, Zero
  <2> QED
    BY <1>2, <2>1, <2>2, <2>4, <2>5 DEF ReadsRef, StartsRead, TypeOK
<1>3. CASE ShimDials
  <2>1. ShimTypes' /\ NetTypes'
    BY <1>3 DEF ShimDials, TypeOK, ShimTypes, NetTypes, Ends
  <2> QED
    BY <1>3, <2>1, Kept DEF ShimDials, TypeOK
<1>4. CASE DialFails
  BY <1>4, <1>a, ReturnsTypes, Kept DEF DialFails, TypeOK
<1>5. CASE ShimHeader
  <2>1. CASE Broken("wUp")
    BY <1>5, <1>a, <2>1, ReturnsTypes, Kept DEF ShimHeader, TypeOK
  <2>2. CASE ~Broken("wUp")
    <3>1. q' \in [Pipes -> Seq(Piece)]
      BY <1>5, <1>a, <2>2, Pieces, PushTypes DEF ShimHeader, Pipes, Tags
    <3>2. ShimTypes' /\ NetTypes'
      BY <1>5, <2>2, <3>1 DEF ShimHeader, TypeOK, ShimTypes, NetTypes, relayVars
    <3> QED
      BY <1>5, <3>2, Kept DEF ShimHeader, TypeOK
  <2> QED
    BY <2>1, <2>2
<1>6. CASE ShimReadsTag
  <2>1. q' \in [Pipes -> Seq(Piece)] /\ srd' \in Tags
    BY <1>6, <1>a, PopTypes, HeadPiece DEF ShimReadsTag, Pipes, Piece
  <2>2. ShimTypes' /\ NetTypes'
    BY <1>6, <2>1 DEF ShimReadsTag, TypeOK, ShimTypes, NetTypes, relayVars
  <2> QED
    BY <1>6, <2>2, Kept DEF ShimReadsTag, TypeOK
<1>7. CASE ShimReadsBody
  <2> DEFINE x == Head(q["wDown"])
  <2>1. x \in Piece
    BY <1>7, <1>a, HeadPiece DEF ShimReadsBody, Pipes
  <2>2. CASE srd = "exit"
    <3>1. x.n % 256 \in Int
      BY <2>1 DEF Piece
    <3> QED
      BY <1>7, <1>a, <2>2, <3>1, ReturnsTypes, Kept DEF ShimReadsBody, TypeOK
  <2>3. CASE srd # "exit"
    <3>1. q' \in [Pipes -> Seq(Piece)]
      BY <1>7, <1>a, <2>3, PopTypes DEF ShimReadsBody, Pipes
    <3>2. rendered' \in [Streams -> Seq(Piece)]
      <4>1. rendered' = [rendered EXCEPT ![srd] = Append(@, x)]
        BY <1>7, <2>3 DEF ShimReadsBody
      <4>2. srd \in Streams => Append(rendered[srd], x) \in Seq(Piece)
        BY <1>a, <2>1, AppendProperties
      <4> QED
        BY <1>a, <4>1, <4>2
    <3>3. ShimTypes' /\ NetTypes'
      BY <1>7, <2>3, <3>1, <3>2 DEF ShimReadsBody, TypeOK, ShimTypes, NetTypes, relayVars
    <3> QED
      BY <1>7, <3>3, Kept DEF ShimReadsBody, TypeOK
  <2> QED
    BY <2>2, <2>3
<1>8. CASE LinkClosed
  BY <1>8, <1>a, ReturnsTypes, Kept DEF LinkClosed, TypeOK
<1>9. CASE AfterCall
  <2>1. OpTypes'
    BY <1>9, <1>a DEF AfterCall, TypeOK, OpTypes, Streams
  <2>2. ShimTypes'
    BY <1>9 DEF AfterCall, TypeOK, ShimTypes, Nothing
  <2> QED
    BY <1>9, <2>1, <2>2, Kept DEF AfterCall, TypeOK
<1>10. CASE Completes
  <2>1. OpTypes' /\ ShimTypes'
    BY <1>10 DEF Completes, TypeOK, OpTypes, ShimTypes
  <2> QED
    BY <1>10, <2>1, Kept DEF Completes, TypeOK
<1>11. CASE ShimKilled
  <2>1. q' \in [Pipes -> Seq(Piece)] /\ open' \subseteq Ends
    BY <1>11, <1>a, CloseTypes DEF ShimKilled
  <2>2. ShimTypes' /\ NetTypes'
    BY <1>11, <2>1 DEF ShimKilled, TypeOK, ShimTypes, NetTypes, Nothing, relayVars
  <2> QED
    BY <1>11, <2>2, Kept DEF ShimKilled, TypeOK
<1> QED
  BY <1>1, <1>2, <1>3, <1>4, <1>5, <1>6, <1>7, <1>8, <1>9, <1>10, <1>11 DEF Container

LEMMA LinkTypes ==
  TypeOK /\ (Pump \/ RelayDials \/ RelayCloses
             \/ \E d \in {"up", "down"} : RelayCopies(d) \/ RelayEnds(d)
             \/ \E h \in {"w", "d"} : Cut(h))
     => TypeOK'
<1> SUFFICES ASSUME TypeOK,
                    \/ Pump \/ RelayDials \/ RelayCloses
                    \/ \E d \in {"up", "down"} : RelayCopies(d) \/ RelayEnds(d)
                    \/ \E h \in {"w", "d"} : Cut(h)
             PROVE  TypeOK'
  OBVIOUS
<1> USE DEF serveVars
<1>a. NetTypes
  BY DEF TypeOK
<1>1. CASE Pump
  <2>1. q' \in [Pipes -> Seq(Piece)]
    BY <1>1, <1>a, Pieces, PushTypes DEF Pump, PumpSends, PumpSendsEOF, Pipes, Tags
  <2>2. NetTypes'
    BY <1>1, <1>a, <2>1 DEF Pump, PumpSends, PumpSendsEOF, NetTypes, relayVars
  <2>3. ShimTypes'
    <3>1. job.inputs \in Nat
      BY BoundAssumption DEF TypeOK, Invocation
    <3> QED
      BY <1>1, <3>1 DEF Pump, PumpSends, PumpSendsEOF, TypeOK, ShimTypes
  <2> QED
    BY <1>1, <2>2, <2>3, Kept DEF Pump, PumpSends, PumpSendsEOF, TypeOK
<1>2. CASE RelayDials
  <2>1. q' \in [Pipes -> Seq(Piece)] /\ open' \subseteq Ends
    BY <1>2, <1>a, CloseTypes DEF RelayDials, NetTypes, Ends
  <2>2. NetTypes'
    BY <1>2, <1>a, <2>1 DEF RelayDials, NetTypes
  <2>3. ServeTypes'
    BY <1>2 DEF RelayDials, TypeOK, ServeTypes
  <2> QED
    BY <1>2, <2>2, <2>3, Kept DEF RelayDials, TypeOK
<1>3. CASE RelayCloses
  <2>1. q' \in [Pipes -> Seq(Piece)] /\ open' \subseteq Ends
    BY <1>3, <1>a, CloseTypes DEF RelayCloses
  <2>2. NetTypes'
    BY <1>3, <1>a, <2>1 DEF RelayCloses, NetTypes
  <2> QED
    BY <1>3, <2>2, Kept DEF RelayCloses, TypeOK
<1>4. ASSUME NEW d \in {"up", "down"}, RelayCopies(d) PROVE TypeOK'
  <2>1. From[d] \in Pipes /\ To[d] \in Pipes
    BY DEF From, To, Pipes
  <2>2. Head(q[From[d]]) \in Piece /\ Tail(q[From[d]]) \in Seq(Piece)
    BY <1>4, <1>a, <2>1, HeadPiece DEF RelayCopies
  <2>3. Append(q[To[d]], Head(q[From[d]])) \in Seq(Piece)
    <3>1. q[To[d]] \in Seq(Piece)
      BY <1>a, <2>1 DEF NetTypes
    <3> QED
      BY <2>2, <3>1, AppendProperties
  <2>4. From[d] # To[d]
    BY DEF From, To
  <2>5. q' \in [Pipes -> Seq(Piece)]
    BY <1>4, <1>a, <2>1, <2>2, <2>3, <2>4 DEF RelayCopies, NetTypes
  <2>6. NetTypes'
    BY <1>4, <1>a, <2>5 DEF RelayCopies, NetTypes, relayVars
  <2> QED
    BY <1>4, <2>6, Kept DEF RelayCopies, TypeOK
<1>5. ASSUME NEW d \in {"up", "down"}, RelayEnds(d) PROVE TypeOK'
  <2>1. NetTypes'
    BY <1>5, <1>a DEF RelayEnds, NetTypes, netVars
  <2> QED
    BY <1>5, <2>1, Kept DEF RelayEnds, TypeOK
<1>6. ASSUME NEW h \in {"w", "d"}, Cut(h) PROVE TypeOK'
  <2>1. NetTypes'
    BY <1>6, <1>a DEF Cut, NetTypes, relayVars
  <2> QED
    BY <1>6, <2>1, Kept DEF Cut, TypeOK
<1> QED
  BY <1>1, <1>2, <1>3, <1>4, <1>5, <1>6

\* frameWriter's writes, of a goroutine that may hold its mutex.
LEMMA FrameTypes ==
  ASSUME TypeOK, NEW w \in Streams \cup {"main"}, NEW t \in Tags, NEW k \in Int,
         WriteHead(w, t) \/ WriteBody(w, t, k) \/ WriteFails(w)
  PROVE  q' \in [Pipes -> Seq(Piece)] /\ lock' \in Streams \cup {"main", None}
<1>a. NetTypes /\ "dDown" \in Pipes
  BY DEF TypeOK, Pipes
<1>1. CASE WriteHead(w, t)
  BY <1>1, <1>a, Pieces, PushTypes DEF WriteHead
<1>2. CASE WriteBody(w, t, k)
  BY <1>2, <1>a, Pieces, PushTypes DEF WriteBody
<1>3. CASE WriteFails(w)
  BY <1>3, <1>a DEF WriteFails, NetTypes
<1> QED
  BY <1>1, <1>2, <1>3

LEMMA CodesAreInts == Codes \subseteq Int
  BY BoundAssumption

LEMMA ServeStepTypes == TypeOK /\ Serve => TypeOK'
<1> SUFFICES ASSUME TypeOK, Serve PROVE TypeOK'
  OBVIOUS
<1>a. NetTypes /\ ServeTypes /\ ToolTypes /\ {"dUp", "dDown"} \subseteq Pipes
  BY DEF TypeOK, Pipes
<1>1. ASSUME NEW c \in {126, 127}, ServeRefuses(c) PROVE TypeOK'
  <2>1. q' \in [Pipes -> Seq(Piece)]
    BY <1>1, <1>a, PopTypes DEF ServeRefuses
  <2>2. NetTypes'
    BY <1>1, <1>a, <2>1 DEF ServeRefuses, NetTypes, relayVars
  <2>3. ServeTypes'
    BY <1>1, <1>a DEF ServeRefuses, ServeTypes
  <2> QED
    BY <1>1, <2>2, <2>3, Kept DEF ServeRefuses, TypeOK
<1>2. CASE ServeStarts
  <2>1. q' \in [Pipes -> Seq(Piece)]
    BY <1>2, <1>a, PopTypes DEF ServeStarts
  <2>2. NetTypes'
    BY <1>2, <1>a, <2>1 DEF ServeStarts, NetTypes, relayVars
  <2>3. ServeTypes' /\ ToolTypes'
    BY <1>2, <1>a DEF ServeStarts, ServeTypes, ToolTypes
  <2> QED
    BY <1>2, <2>2, <2>3, Kept DEF ServeStarts, TypeOK
<1>3. CASE ServeNoHeader \/ ServeCloses
  <2>1. q' \in [Pipes -> Seq(Piece)] /\ open' \subseteq Ends
    BY <1>3, <1>a, CloseTypes DEF ServeNoHeader, ServeCloses, ServeReturns
  <2>2. NetTypes'
    BY <1>3, <1>a, <2>1 DEF ServeNoHeader, ServeCloses, NetTypes, relayVars
  <2>3. ServeTypes'
    BY <1>3, <1>a DEF ServeNoHeader, ServeCloses, ServeReturns, ServeTypes
  <2> QED
    BY <1>3, <2>2, <2>3, Kept DEF ServeNoHeader, ServeCloses, TypeOK
<1>4. CASE ServeWaits
  <2> DEFINE c == IF code = 0 /\ \E s \in Streams : cp[s] = "failed" THEN 1 ELSE code
  <2>1. ServeReports(c)
    BY <1>4 DEF ServeWaits
  <2>2. c \in Int
    BY <1>a, <2>1, CodesAreInts DEF ServeReports, ToolTypes
  <2> HIDE DEF c
  <2>3. ServeTypes'
    <3>1. todo' = << <<"exit", c>> >> /\ <<"exit", c>> \in {"stderr", "exit"} \X Int
      BY <2>1, <2>2 DEF ServeReports
    <3>2. todo' \in Seq({"stderr", "exit"} \X Int)
      BY <3>1
    <3> QED
      BY <1>a, <2>1, <3>2 DEF ServeReports, ServeTypes
  <2>4. ToolTypes'
    BY <1>a, <2>1 DEF ServeReports, ToolTypes
  <2> QED
    BY <2>1, <2>3, <2>4, Kept DEF ServeReports, TypeOK
<1>5. CASE ServeFrame
  <2>1. Head(todo) \in {"stderr", "exit"} \X Int /\ Tail(todo) \in Seq({"stderr", "exit"} \X Int)
    BY <1>5, <1>a, HeadTailProperties DEF ServeFrame, ServeTypes
  <2>2. Head(todo)[1] \in Tags /\ Head(todo)[2] \in Int
    BY <2>1 DEF Tags, Streams
  <2>3. q' \in [Pipes -> Seq(Piece)] /\ lock' \in Streams \cup {"main", None}
    <3>1. \/ WriteHead("main", Head(todo)[1]) \/ WriteBody("main", Head(todo)[1], Head(todo)[2])
          \/ WriteFails("main")
      BY <1>5 DEF ServeFrame
    <3> QED
      BY <2>2, <3>1, FrameTypes
  <2>4. NetTypes'
    BY <1>5, <1>a, <2>3 DEF ServeFrame, NetTypes, relayVars
  <2>5. ServeTypes'
    BY <1>5, <1>a, <2>1, <2>3 DEF ServeFrame, ServeTypes
  <2> QED
    BY <1>5, <2>4, <2>5, Kept DEF ServeFrame, TypeOK
<1> QED
  BY <1>1, <1>2, <1>3, <1>4, <1>5 DEF Serve

LEMMA ToolStepTypes ==
  TypeOK /\ (Stdin \/ ToolReads \/ Exits \/ \E s \in Streams : Copier(s) \/ ToolPrints(s))
     => TypeOK'
<1> SUFFICES ASSUME TypeOK,
                    Stdin \/ ToolReads \/ Exits \/ \E s \in Streams : Copier(s) \/ ToolPrints(s)
             PROVE  TypeOK'
  OBVIOUS
<1>a. NetTypes /\ ServeTypes /\ ToolTypes /\ {"dUp", "dDown"} \subseteq Pipes
  BY DEF TypeOK, Pipes
<1>1. CASE Stdin
  <2>1. q' \in [Pipes -> Seq(Piece)]
    BY <1>1, <1>a, PopTypes DEF Stdin, StdinChunk, StdinEnds, NetTypes
  <2>2. NetTypes'
    BY <1>1, <1>a, <2>1 DEF Stdin, StdinChunk, StdinEnds, NetTypes, relayVars
  <2>3. ServeTypes'
    BY <1>1, <1>a DEF Stdin, StdinChunk, StdinEnds, ServeTypes, mainVars
  <2>4. ToolTypes'
    <3>1. CASE StdinChunk
      <4>1. tin' = tin \/ tin' = tin + 1
        BY <3>1 DEF StdinChunk
      <4>2. /\ tinOpen' = tinOpen \/ tinOpen' = FALSE
            /\ UNCHANGED <<tool, code, printed, copied, okPrints>>
        BY <3>1 DEF StdinChunk
      <4>3. tin' \in Nat
        BY <1>a, <4>1 DEF ToolTypes
      <4>4. tinOpen' \in BOOLEAN
        BY <1>a, <4>2 DEF ToolTypes
      <4> QED
        BY <1>a, <4>2, <4>3, <4>4 DEF ToolTypes
    <3>2. CASE StdinEnds
      BY <1>a, <3>2 DEF StdinEnds, ToolTypes
    <3> QED
      BY <1>1, <3>1, <3>2 DEF Stdin
  <2> QED
    BY <1>1, <2>2, <2>3, <2>4, Kept DEF Stdin, StdinChunk, StdinEnds, TypeOK
<1>2. CASE ToolReads
  <2>1. ToolTypes'
    BY <1>2, <1>a DEF ToolReads, ToolTypes
  <2> QED
    BY <1>2, <2>1, Kept DEF ToolReads, TypeOK
<1>3. CASE Exits
  <2>1. PICK c \in Codes : ToolExits(c)
    BY <1>3 DEF Exits
  <2>2. okPrints' \in [Refs -> SUBSET Nat]
    BY <1>a, <2>1 DEF ToolExits, ToolTypes, Streams
  <2>3. ToolTypes'
    BY <1>a, <2>1, <2>2, BoundAssumption DEF ToolExits, ToolTypes
  <2> QED
    BY <2>1, <2>3, Kept DEF ToolExits, TypeOK
<1>4. ASSUME NEW s \in Streams, Copier(s) PROVE TypeOK'
  <2>1. s \in Tags /\ copied[s] + 1 \in Int /\ copied[s] \in Nat
    BY <1>a DEF ToolTypes, Tags
  <2>2. q' \in [Pipes -> Seq(Piece)] /\ lock' \in Streams \cup {"main", None}
    <3>1. CASE UNCHANGED <<copied, q, lock>>
      BY <1>a, <3>1 DEF NetTypes, ServeTypes
    <3>2. CASE WriteHead(s, s) \/ WriteBody(s, s, copied[s] + 1) \/ WriteFails(s)
      BY <2>1, <3>2, FrameTypes
    <3> QED
      BY <1>4, <3>1, <3>2 DEF Copier
  <2>3. NetTypes'
    BY <1>4, <1>a, <2>2 DEF Copier, NetTypes, relayVars
  <2>4. ServeTypes'
    BY <1>4, <1>a, <2>2 DEF Copier, ServeTypes
  <2>5. ToolTypes'
    BY <1>4, <1>a DEF Copier, ToolTypes
  <2> QED
    BY <1>4, <2>3, <2>4, <2>5, Kept DEF Copier, TypeOK
<1>5. ASSUME NEW s \in Streams, ToolPrints(s) PROVE TypeOK'
  <2>1. ToolTypes'
    BY <1>5, <1>a DEF ToolPrints, ToolTypes
  <2> QED
    BY <1>5, <2>1, Kept DEF ToolPrints, TypeOK
<1> QED
  BY <1>1, <1>2, <1>3, <1>4, <1>5

LEMMA NextTypes == TypeOK /\ [Next]_vars => TypeOK'
<1> SUFFICES ASSUME TypeOK, [Next]_vars PROVE TypeOK'
  OBVIOUS
<1>1. CASE UNCHANGED vars
  BY <1>1, Kept DEF vars, TypeOK, serveVars
<1> QED
  BY <1>1, ContainerTypes, LinkTypes, ServeStepTypes, ToolStepTypes DEF Next

\* Every variable stays in its type: what is in flight, Serve's goroutines, the tool
\* and what the shim and op run make of the answers.
THEOREM TypeCorrect == Spec => []TypeOK
  BY InitTypes, NextTypes, PTL DEF Spec

-----------------------------------------------------------------------------
(* One value for a reference. *)

LEMMA InitOp == Init => OpInv
  BY DEF Init, OpInv, Reading, Cached, Resolved, InCall

\* Within a call, and when it is given up, nothing is recorded.
LEMMA OpKept ==
  ASSUME OpInv, job' = job, UNCHANGED opVars,
         spc' = spc \/ (spc \in InCall /\ spc' \in InCall) \/ spc' = "over"
  PROVE  OpInv'
<1> USE DEF opVars, kind, refOf
<1>1. Reading'
  BY DEF OpInv, Reading, InCall
<1>2. Cached'
  BY DEF OpInv, Cached
<1>3. Resolved'
  BY DEF OpInv, Resolved, InCall
<1> QED
  BY <1>1, <1>2, <1>3 DEF OpInv

LEMMA ContainerOp == IInv /\ (Container \/ ShimKilled) => OpInv'
<1> SUFFICES ASSUME IInv, Container \/ ShimKilled PROVE OpInv'
  OBVIOUS
<1>a. /\ OpInv /\ OpTypes /\ rendered["stdout"] \in Seq(Piece) /\ refOf \in [Vars -> Refs]
      /\ failed \in BOOLEAN
  BY BoundAssumption DEF IInv, TypeOK, ShimTypes, OpTypes, Streams, Invocation, refOf
<1>b. rendered["stdout"] # None
  BY <1>a, BoundAssumption
<1>1. ASSUME NEW v \in Vars, FromCache(v) PROVE OpInv'
  <2> USE DEF kind, refOf
  <2>1. Reading'
    BY <1>1, <1>a DEF FromCache, OpInv, Reading, InCall, shimVars
  <2>2. Cached'
    BY <1>1, <1>a DEF FromCache, OpInv, Cached, OpTypes
  <2>3. Resolved'
    BY <1>1, <1>a DEF FromCache, OpInv, Resolved, OpTypes, InCall, shimVars
  <2> QED
    BY <2>1, <2>2, <2>3 DEF OpInv
<1>2. ASSUME NEW v \in Vars, ReadsRef(v) PROVE OpInv'
  <2> USE DEF kind, refOf
  <2>1. Reading'
    BY <1>2, <1>a DEF ReadsRef, StartsRead, OpInv, Reading, InCall
  <2>2. Cached'
    BY <1>2, <1>a DEF ReadsRef, StartsRead, OpInv, Cached
  <2>3. Resolved'
    BY <1>2, <1>a DEF ReadsRef, StartsRead, OpInv, Resolved, InCall
  <2> QED
    BY <2>1, <2>2, <2>3 DEF OpInv
<1>3. CASE \/ ShimDials \/ DialFails \/ ShimHeader \/ ShimReadsTag \/ ShimReadsBody
           \/ LinkClosed \/ ShimKilled
  BY <1>3, <1>a, OpKept
     DEF ShimDials, DialFails, ShimHeader, ShimReadsTag, ShimReadsBody, LinkClosed, ShimKilled,
         Returns, InCall, opVars
<1>4. CASE AfterCall
  <2> USE DEF kind, refOf
  <2>1. CASE kind # "plain" /\ status = 0
    <3>1. cur \in Vars /\ cur \notin left /\ cache[refOf[cur]] = None
      BY <1>4, <1>a, <2>1 DEF AfterCall, OpInv, Reading, InCall
    <3>2. /\ env' = [env EXCEPT ![cur] = rendered["stdout"]]
          /\ cache' = [cache EXCEPT ![refOf[cur]] = rendered["stdout"]]
          /\ left' = left /\ job' = job /\ ran' = ran /\ spc' = "resolve" /\ failed' = failed
      BY <1>4, <1>a, <2>1 DEF AfterCall
    <3>3. \A v \in Vars : env'[v] = IF v = cur THEN rendered["stdout"] ELSE env[v]
      BY <1>a, <3>2 DEF OpTypes
    <3>4. \A v \in Vars : cache'[refOf[v]] = IF refOf[v] = refOf[cur] THEN rendered["stdout"]
                                                                     ELSE cache[refOf[v]]
      BY <1>a, <3>1, <3>2 DEF OpTypes
    <3>5. Reading'
      BY <2>1, <3>2 DEF Reading, InCall
    <3>6. Cached'
      BY <1>a, <3>1, <3>2, <3>3, <3>4 DEF OpInv, Cached
    <3>7. Resolved'
      BY <1>4, <1>a, <1>b, <2>1, <3>2, <3>3 DEF AfterCall, OpInv, Resolved, InCall
    <3> QED
      BY <3>5, <3>6, <3>7 DEF OpInv
  <2>2. CASE ~(kind # "plain" /\ status = 0)
    <3>1. /\ UNCHANGED <<env, cache, left, job, ran>>
          /\ spc' = "over" \/ (spc' = "resolve" /\ kind # "plain" /\ failed')
      BY <1>4, <2>2, BoundAssumption DEF AfterCall, IInv, TypeOK, Invocation
    <3>2. Reading' /\ Cached' /\ Resolved'
      BY <1>a, <3>1 DEF OpInv, Reading, Cached, Resolved, InCall
    <3> QED
      BY <3>2 DEF OpInv
  <2> QED
    BY <2>1, <2>2
<1>5. CASE Completes
  <2> USE DEF kind, refOf
  <2>1. Reading' /\ Cached'
    BY <1>5, <1>a DEF Completes, OpInv, Reading, Cached, InCall
  <2>2. Resolved'
    BY <1>5, <1>a DEF Completes, OpInv, Resolved, InCall
  <2> QED
    BY <2>1, <2>2 DEF OpInv
<1> QED
  BY <1>1, <1>2, <1>3, <1>4, <1>5 DEF Container

LEMMA NextOp == IInv /\ [Next]_vars => OpInv'
<1> SUFFICES ASSUME IInv, [Next]_vars, ~(Container \/ ShimKilled) PROVE OpInv'
  BY ContainerOp
<1>1. job' = job /\ UNCHANGED opVars /\ spc' = spc
  <2>1. CASE Pump
    BY <2>1 DEF Pump, PumpSends, PumpSendsEOF
  <2>2. CASE \/ RelayDials \/ RelayCloses
             \/ \E d \in {"up", "down"} : RelayCopies(d) \/ RelayEnds(d)
             \/ \E h \in {"w", "d"} : Cut(h)
    BY <2>2 DEF RelayDials, RelayCloses, RelayCopies, RelayEnds, Cut, shimVars
  <2>3. CASE Serve
    BY <2>3 DEF Serve, ServeRefuses, ServeStarts, ServeNoHeader, ServeWaits, ServeReports,
                ServeFrame, ServeCloses, shimVars
  <2>4. CASE Stdin \/ ToolReads \/ Exits \/ \E s \in Streams : Copier(s) \/ ToolPrints(s)
    BY <2>4 DEF Stdin, StdinChunk, StdinEnds, ToolReads, Exits, ToolExits, Copier, ToolPrints,
                shimVars
  <2>5. CASE UNCHANGED vars
    BY <2>5 DEF vars, shimVars
  <2> QED
    BY <2>1, <2>2, <2>3, <2>4, <2>5 DEF Next
<1> QED
  BY <1>1, OpKept DEF IInv

LEMMA Inductive == Spec => []IInv
<1>1. Init => IInv
  BY InitTypes, InitOp DEF IInv
<1>2. IInv /\ [Next]_vars => IInv'
  BY NextTypes, NextOp DEF IInv
<1> QED
  BY <1>1, <1>2, PTL DEF Spec

\* opRun and opInject never put two values in for one reference: what was read once is
\* cached before the next is looked at, and a read that failed leads to no run.
THEOREM ReferencesHaveOneValue == Spec => []OneValuePerReference
<1>1. IInv => OneValuePerReference
  BY DEF IInv, OpInv, Cached, Resolved, OneValuePerReference
<1> QED
  BY <1>1, Inductive, PTL

Awaited(I, d, i) ==
    IF i = 0 THEN d ELSE IF I[i].part = "head" THEN I[i].tag ELSE None

Framed(I, d) ==
    \A i \in 1..Len(I) :
       IF Awaited(I, d, i - 1) = None
       THEN I[i].part = "head" /\ I[i].tag \in Streams \cup {"exit"}
       ELSE I[i].part = "body" /\ I[i].tag = Awaited(I, d, i - 1)

Counts(I, s, f) ==
    \A i \in 1..Len(I) :
       IF I[i].part = "body" /\ I[i].tag = s
       THEN f[i] = f[i - 1] + 1 /\ I[i].n = f[i]
       ELSE f[i] = f[i - 1]

\* Chunks of s come in order to a reader that has m of c, the last of them if all; those an
\* exit code follows are e.
Numbered(I, s, m, c, e, all) ==
    \E f \in [0..Len(I) -> 0..c] :
       /\ Counts(I, s, f) /\ f[0] = m
       /\ all => f[Len(I)] = c
       /\ \A i \in 1..Len(I) : I[i].tag = "exit" => f[i] = e

\* J is how I begins.
Begins(J, I) == Len(J) <= Len(I) /\ \A i \in 1..Len(J) : J[i] = I[i]

LEMMA BeginsFramed ==
  ASSUME NEW I \in Seq(Piece), NEW J \in Seq(Piece), Begins(J, I), NEW d, Framed(I, d)
  PROVE  Framed(J, d) /\ \A i \in 0..Len(J) : Awaited(J, d, i) = Awaited(I, d, i)
<1>1. Len(I) \in Nat /\ Len(J) \in Nat
  OBVIOUS
<1>2. \A i \in 0..Len(J) : Awaited(J, d, i) = Awaited(I, d, i)
  BY <1>1 DEF Awaited, Begins
<1>3. \A i \in 1..Len(J) : i - 1 \in 0..Len(J) /\ i \in 1..Len(I)
  BY <1>1 DEF Begins
<1> QED
  BY <1>1, <1>2, <1>3 DEF Framed, Begins

LEMMA BeginsNumbered ==
  ASSUME NEW I \in Seq(Piece), NEW J \in Seq(Piece), Begins(J, I),
         NEW s \in Streams, NEW m, NEW c \in Nat, NEW e, NEW all, NEW allJ \in BOOLEAN,
         Numbered(I, s, m, c, e, all), allJ => all /\ Len(J) = Len(I)
  PROVE  Numbered(J, s, m, c, e, allJ)
<1>1. Len(I) \in Nat /\ Len(J) \in Nat /\ Len(J) <= Len(I)
  BY DEF Begins
<1>2. PICK f \in [0..Len(I) -> 0..c] :
         /\ Counts(I, s, f) /\ f[0] = m
         /\ all => f[Len(I)] = c
         /\ \A i \in 1..Len(I) : I[i].tag = "exit" => f[i] = e
  BY DEF Numbered
<1> DEFINE g == [i \in 0..Len(J) |-> f[i]]
<1>3. g \in [0..Len(J) -> 0..c] /\ \A i \in 0..Len(J) : g[i] = f[i]
  BY <1>1
<1> HIDE DEF g
<1>4. Counts(J, s, g)
  <2>1. ASSUME NEW i \in 1..Len(J)
        PROVE  i \in 1..Len(I) /\ J[i] = I[i] /\ g[i] = f[i] /\ g[i - 1] = f[i - 1]
    BY <1>1, <1>3 DEF Begins
  <2> QED
    BY <1>2, <2>1 DEF Counts
<1>5. g[0] = m /\ (allJ => g[Len(J)] = c)
  BY <1>1, <1>2, <1>3
<1>6. \A i \in 1..Len(J) : J[i].tag = "exit" => g[i] = e
  BY <1>1, <1>2, <1>3 DEF Begins
<1> QED
  BY <1>3, <1>4, <1>5, <1>6 DEF Numbered

\* The reader takes the first piece.
LEMMA TailFramed ==
  ASSUME NEW I \in Seq(Piece), I # <<>>, NEW d, Framed(I, d)
  PROVE  /\ Framed(Tail(I), Awaited(I, d, 1))
         /\ \A i \in 0..Len(Tail(I)) : Awaited(Tail(I), Awaited(I, d, 1), i) = Awaited(I, d, i + 1)
<1>1. /\ Len(I) \in Nat \ {0} /\ Len(Tail(I)) = Len(I) - 1
      /\ \A i \in 1..Len(Tail(I)) : Tail(I)[i] = I[i + 1]
  BY HeadTailProperties, EmptySeq
<1>2. \A i \in 0..Len(Tail(I)) : Awaited(Tail(I), Awaited(I, d, 1), i) = Awaited(I, d, i + 1)
  BY <1>1 DEF Awaited
<1>3. ASSUME NEW i \in 1..Len(Tail(I))
      PROVE  /\ i - 1 \in 0..Len(Tail(I)) /\ i + 1 \in 1..Len(I) /\ (i - 1) + 1 = (i + 1) - 1
             /\ Tail(I)[i] = I[i + 1]
  BY <1>1
<1>4. Framed(Tail(I), Awaited(I, d, 1))
  BY <1>2, <1>3 DEF Framed
<1> QED
  BY <1>2, <1>4

LEMMA TailNumbered ==
  ASSUME NEW I \in Seq(Piece), I # <<>>, NEW s \in Streams, NEW m, NEW c \in Nat, NEW e,
         NEW all, Numbered(I, s, m, c, e, all)
  PROVE  /\ m \in 0..c
         /\ Head(I).part = "body" /\ Head(I).tag = s =>
              Numbered(Tail(I), s, m + 1, c, e, all) /\ Head(I).n = m + 1
         /\ ~(Head(I).part = "body" /\ Head(I).tag = s) =>
              Numbered(Tail(I), s, m, c, e, all) /\ (Head(I).tag = "exit" => m = e)
<1>1. /\ Len(I) \in Nat \ {0} /\ Len(Tail(I)) = Len(I) - 1 /\ Head(I) = I[1]
      /\ \A i \in 1..Len(Tail(I)) : Tail(I)[i] = I[i + 1]
  BY HeadTailProperties, EmptySeq
<1>2. PICK f \in [0..Len(I) -> 0..c] :
         /\ Counts(I, s, f) /\ f[0] = m
         /\ all => f[Len(I)] = c
         /\ \A i \in 1..Len(I) : I[i].tag = "exit" => f[i] = e
  BY DEF Numbered
<1> DEFINE g == [i \in 0..Len(Tail(I)) |-> f[i + 1]]
<1>3. g \in [0..Len(Tail(I)) -> 0..c] /\ \A i \in 0..Len(Tail(I)) : g[i] = f[i + 1]
  BY <1>1
<1> HIDE DEF g
<1>4. Counts(Tail(I), s, g)
  <2>1. ASSUME NEW i \in 1..Len(Tail(I))
        PROVE  /\ i + 1 \in 1..Len(I) /\ Tail(I)[i] = I[i + 1]
               /\ g[i] = f[i + 1] /\ g[i - 1] = f[(i + 1) - 1]
    BY <1>1, <1>3
  <2> QED
    BY <1>2, <2>1 DEF Counts
<1>5. all => g[Len(Tail(I))] = c
  BY <1>1, <1>2, <1>3
<1>6. \A i \in 1..Len(Tail(I)) : Tail(I)[i].tag = "exit" => g[i] = e
  BY <1>1, <1>2, <1>3
<1>7. g[0] = f[1] /\ f[0] = m /\ f[0] \in 0..c /\ f[1] \in 0..c
  BY <1>1, <1>2, <1>3
<1>8. /\ IF Head(I).part = "body" /\ Head(I).tag = s
         THEN f[1] = m + 1 /\ Head(I).n = f[1] ELSE f[1] = m
      /\ Head(I).tag = "exit" => f[1] = e
  BY <1>1, <1>2 DEF Counts
<1> QED
  BY <1>3, <1>4, <1>5, <1>6, <1>7, <1>8 DEF Numbered

\* The writer adds a piece.
LEMMA AppendFramed ==
  ASSUME NEW I \in Seq(Piece), NEW x \in Piece, NEW d, Framed(I, d),
         IF Awaited(I, d, Len(I)) = None THEN x.part = "head" /\ x.tag \in Streams \cup {"exit"}
         ELSE x.part = "body" /\ x.tag = Awaited(I, d, Len(I))
  PROVE  /\ Framed(Append(I, x), d)
         /\ Awaited(Append(I, x), d, Len(Append(I, x))) = IF x.part = "head" THEN x.tag ELSE None
<1>1. /\ Len(I) \in Nat /\ Len(Append(I, x)) = Len(I) + 1
      /\ \A i \in 1..Len(I) : Append(I, x)[i] = I[i]
      /\ Append(I, x)[Len(I) + 1] = x
  BY AppendProperties
<1>2. \A i \in 0..Len(I) : Awaited(Append(I, x), d, i) = Awaited(I, d, i)
  BY <1>1 DEF Awaited
<1>3. ASSUME NEW i \in 1..Len(I) + 1
      PROVE  i - 1 \in 0..Len(I) /\ (i \in 1..Len(I) \/ (i = Len(I) + 1 /\ i - 1 = Len(I)))
  BY <1>1
<1>4. Framed(Append(I, x), d)
  BY <1>1, <1>2, <1>3 DEF Framed
<1> QED
  BY <1>1, <1>4 DEF Awaited

LEMMA AppendNumbered ==
  ASSUME NEW I \in Seq(Piece), NEW x \in Piece, NEW s \in Streams, NEW m, NEW c \in Nat, NEW e,
         Numbered(I, s, m, c, e, TRUE), NEW k \in {c, c + 1}, NEW all,
         IF x.part = "body" /\ x.tag = s THEN k = c + 1 /\ x.n = k ELSE k = c,
         x.tag = "exit" => k = e
  PROVE  Numbered(Append(I, x), s, m, k, e, all)
<1>1. /\ Len(I) \in Nat /\ Len(Append(I, x)) = Len(I) + 1
      /\ \A i \in 1..Len(I) : Append(I, x)[i] = I[i]
      /\ Append(I, x)[Len(I) + 1] = x
  BY AppendProperties
<1>2. PICK f \in [0..Len(I) -> 0..c] :
         /\ Counts(I, s, f) /\ f[0] = m
         /\ f[Len(I)] = c
         /\ \A i \in 1..Len(I) : I[i].tag = "exit" => f[i] = e
  BY DEF Numbered
<1> DEFINE g == [i \in 0..Len(I) + 1 |-> IF i = Len(I) + 1 THEN k ELSE f[i]]
<1>3. /\ g \in [0..Len(I) + 1 -> 0..k] /\ g[Len(I) + 1] = k
      /\ \A i \in 0..Len(I) : g[i] = f[i]
  BY <1>1
<1> HIDE DEF g
<1>4. Counts(Append(I, x), s, g)
  <2>1. ASSUME NEW i \in 1..Len(I) + 1
        PROVE  \/ i \in 1..Len(I) /\ i - 1 \in 0..Len(I) /\ i \in 0..Len(I)
               \/ i = Len(I) + 1 /\ i - 1 = Len(I) /\ i - 1 \in 0..Len(I)
    BY <1>1
  <2>2. ASSUME NEW i \in 1..Len(I)
        PROVE  IF Append(I, x)[i].part = "body" /\ Append(I, x)[i].tag = s
               THEN g[i] = g[i - 1] + 1 /\ Append(I, x)[i].n = g[i] ELSE g[i] = g[i - 1]
    <3>1. Append(I, x)[i] = I[i] /\ g[i] = f[i] /\ g[i - 1] = f[i - 1]
      BY <1>1, <1>3
    <3> QED
      BY <1>2, <3>1 DEF Counts
  <2>3. IF x.part = "body" /\ x.tag = s
        THEN g[Len(I) + 1] = g[Len(I)] + 1 /\ x.n = g[Len(I) + 1] ELSE g[Len(I) + 1] = g[Len(I)]
    BY <1>1, <1>2, <1>3
  <2> QED
    BY <1>1, <2>1, <2>2, <2>3 DEF Counts
<1>5. g[0] = m
  BY <1>1, <1>2, <1>3
<1>6. \A i \in 1..Len(I) + 1 : Append(I, x)[i].tag = "exit" => g[i] = e
  BY <1>1, <1>2, <1>3
<1> QED
  BY <1>1, <1>3, <1>4, <1>5, <1>6 DEF Numbered

\* Two connections, one after the other.
LEMMA Joined ==
  ASSUME NEW a \in Seq(Piece), NEW b \in Seq(Piece)
  PROVE  /\ a \o b \in Seq(Piece) /\ Begins(a, a \o b)
         /\ b = <<>> => a \o b = a
         /\ a # <<>> => a \o b # <<>> /\ Head(a \o b) = Head(a) /\ Tail(a \o b) = Tail(a) \o b
         /\ b # <<>> => Append(a, Head(b)) \o Tail(b) = a \o b
<1>1. /\ a \o b \in Seq(Piece) /\ Len(a \o b) = Len(a) + Len(b) /\ Len(a) \in Nat /\ Len(b) \in Nat
      /\ \A i \in 1..Len(a) + Len(b) : (a \o b)[i] = IF i <= Len(a) THEN a[i] ELSE b[i - Len(a)]
  BY ConcatProperties
<1>2. Begins(a, a \o b)
  BY <1>1 DEF Begins
<1>3. b = <<>> => a \o b = a
  BY ConcatEmptySeq
<1>4. ASSUME a # <<>>
      PROVE  a \o b # <<>> /\ Head(a \o b) = Head(a) /\ Tail(a \o b) = Tail(a) \o b
  <2>1. Len(a) > 0 /\ a \o b # <<>>
    BY <1>1, <1>4, EmptySeq, ConcatSimplifications
  <2>2. /\ Tail(a) \in Seq(Piece) /\ Len(Tail(a)) = Len(a) - 1
        /\ \A i \in 1..Len(a) - 1 : Tail(a)[i] = a[i + 1]
    BY <1>4, HeadTailProperties
  <2>3. /\ Tail(a \o b) \in Seq(Piece) /\ Len(Tail(a \o b)) = Len(a) + Len(b) - 1
        /\ \A i \in 1..Len(a) + Len(b) - 1 : Tail(a \o b)[i] = (a \o b)[i + 1]
    BY <1>1, <2>1, HeadTailProperties
  <2>4. /\ Tail(a) \o b \in Seq(Piece) /\ Len(Tail(a) \o b) = Len(a) - 1 + Len(b)
        /\ \A i \in 1..Len(a) - 1 + Len(b) :
             (Tail(a) \o b)[i] = IF i <= Len(a) - 1 THEN Tail(a)[i] ELSE b[i - (Len(a) - 1)]
    BY <2>2, ConcatProperties
  <2>5. \A i \in 1..Len(a) + Len(b) - 1 : Tail(a \o b)[i] = (Tail(a) \o b)[i]
    BY <1>1, <2>1, <2>2, <2>3, <2>4
  <2>6. Tail(a \o b) = Tail(a) \o b
    BY <1>1, <2>3, <2>4, <2>5, SeqEqual
  <2>7. Head(a \o b) = Head(a)
    BY <1>1, <2>1
  <2> QED
    BY <2>1, <2>6, <2>7
<1>5. ASSUME b # <<>>
      PROVE  Append(a, Head(b)) \o Tail(b) = a \o b
  <2> DEFINE c == Append(a, Head(b))
  <2>1. /\ Head(b) = b[1] /\ Head(b) \in Piece /\ Tail(b) \in Seq(Piece) /\ Len(b) > 0
        /\ Len(Tail(b)) = Len(b) - 1
        /\ \A i \in 1..Len(b) - 1 : Tail(b)[i] = b[i + 1]
    BY <1>1, <1>5, HeadTailProperties, EmptySeq
  <2>2. /\ c \in Seq(Piece) /\ Len(c) = Len(a) + 1 /\ \A i \in 1..Len(a) : c[i] = a[i]
        /\ c[Len(a) + 1] = b[1]
    BY <2>1, AppendProperties
  <2> HIDE DEF c
  <2>3. /\ c \o Tail(b) \in Seq(Piece) /\ Len(c \o Tail(b)) = Len(a) + Len(b)
        /\ \A i \in 1..Len(a) + Len(b) :
             (c \o Tail(b))[i] = IF i <= Len(a) + 1 THEN c[i] ELSE Tail(b)[i - (Len(a) + 1)]
    <3>1. /\ c \o Tail(b) \in Seq(Piece) /\ Len(c \o Tail(b)) = Len(c) + Len(Tail(b))
          /\ \A i \in 1..Len(c) + Len(Tail(b)) :
               (c \o Tail(b))[i] = IF i <= Len(c) THEN c[i] ELSE Tail(b)[i - Len(c)]
      BY <2>1, <2>2, ConcatProperties
    <3>2. Len(c) + Len(Tail(b)) = Len(a) + Len(b)
      BY <1>1, <2>1, <2>2
    <3> QED
      BY <2>2, <3>1, <3>2
  <2>4. \A i \in 1..Len(a) + Len(b) : (c \o Tail(b))[i] = (a \o b)[i]
    <3>1. ASSUME NEW i \in 1..Len(a) + Len(b) PROVE (c \o Tail(b))[i] = (a \o b)[i]
      <4>1. CASE i <= Len(a)
        BY <1>1, <2>2, <2>3, <4>1
      <4>2. CASE i = Len(a) + 1
        BY <1>1, <2>1, <2>2, <2>3, <4>2
      <4>3. CASE i > Len(a) + 1
        <5>1. i - (Len(a) + 1) \in 1..Len(b) - 1 /\ (i - (Len(a) + 1)) + 1 = i - Len(a)
          BY <1>1, <4>3
        <5> QED
          BY <1>1, <2>1, <2>3, <4>3, <5>1
      <4>4. i <= Len(a) \/ i = Len(a) + 1 \/ i > Len(a) + 1
        BY <1>1
      <4> QED
        BY <4>1, <4>2, <4>3, <4>4
    <3> QED
      BY <3>1
  <2> QED
    BY <1>1, <2>3, <2>4, SeqEqual DEF c
<1> QED
  BY <1>1, <1>2, <1>3, <1>4, <1>5

LEMMA JoinedAppend ==
  ASSUME NEW a \in Seq(Piece), NEW b \in Seq(Piece), NEW x \in Piece
  PROVE  a \o Append(b, x) = Append(a \o b, x)
<1>0. /\ a \o b \in Seq(Piece) /\ Len(a \o b) = Len(a) + Len(b) /\ Len(a) \in Nat /\ Len(b) \in Nat
      /\ \A i \in 1..Len(a) + Len(b) : (a \o b)[i] = IF i <= Len(a) THEN a[i] ELSE b[i - Len(a)]
  BY ConcatProperties
<1>1. /\ Append(b, x) \in Seq(Piece) /\ Len(Append(b, x)) = Len(b) + 1
      /\ \A i \in 1..Len(b) : Append(b, x)[i] = b[i]
      /\ Append(b, x)[Len(b) + 1] = x
  BY AppendProperties
<1>2. /\ Append(a \o b, x) \in Seq(Piece) /\ Len(Append(a \o b, x)) = Len(a) + Len(b) + 1
      /\ \A i \in 1..Len(a) + Len(b) : Append(a \o b, x)[i] = (a \o b)[i]
      /\ Append(a \o b, x)[Len(a) + Len(b) + 1] = x
  BY <1>0, AppendProperties
<1>3. /\ a \o Append(b, x) \in Seq(Piece) /\ Len(a \o Append(b, x)) = Len(a) + Len(b) + 1
      /\ \A i \in 1..Len(a) + Len(b) + 1 : (a \o Append(b, x))[i] =
            IF i <= Len(a) THEN a[i] ELSE Append(b, x)[i - Len(a)]
  BY <1>0, <1>1, ConcatProperties
<1>4. \A i \in 1..Len(a) + Len(b) + 1 : (a \o Append(b, x))[i] = Append(a \o b, x)[i]
  <2>1. ASSUME NEW i \in 1..Len(a) + Len(b) + 1
        PROVE  (a \o Append(b, x))[i] = Append(a \o b, x)[i]
    <3>1. CASE i <= Len(a)
      BY <1>0, <1>2, <1>3, <3>1
    <3>2. CASE i > Len(a) /\ i <= Len(a) + Len(b)
      <4>1. i - Len(a) \in 1..Len(b)
        BY <1>0, <3>2
      <4> QED
        BY <1>0, <1>1, <1>2, <1>3, <3>2, <4>1
    <3>3. CASE i = Len(a) + Len(b) + 1
      <4>1. i - Len(a) = Len(b) + 1 /\ ~(i <= Len(a))
        BY <1>0, <3>3
      <4> QED
        BY <1>0, <1>1, <1>2, <1>3, <3>3, <4>1
    <3> QED
      BY <1>0, <3>1, <3>2, <3>3
  <2> QED
    BY <2>1
<1> QED
  BY <1>0, <1>2, <1>3, <1>4, SeqEqual

-----------------------------------------------------------------------------
(* How far everybody is, and what that says of the connections. *)

\* An end is open while its owner is at it; with an end goes what it has not read.
EndsOpen ==
    /\ "shim" \in open <=> spc \in {"header", "tag", "body"}
    /\ "relayW" \in open <=> rpc \in {"dial", "copy"}
    /\ "relayD" \in open <=> rpc = "copy"
    /\ "serve" \in open <=> mpc \in {"header", "wait", "write"}

Emptied == \A p \in Pipes : Reader[p] \notin open => q[p] = <<>>

\* A call begins with the shim, then comes the relay, then Serve.
Stages ==
    /\ spc = "resolve" => rendered = Nothing
    /\ spc = "dial" => rpc = "off"
    /\ rpc \in {"off", "dial"} => mpc = "off"
    /\ rpc = "copy" => mpc # "off"
    /\ rdone # {} => rpc = "copy"
    /\ spc = "body" => srd \in Streams \cup {"exit"}
    /\ spc # "body" => srd = None \/ (spc = "returned" /\ srd = "exit")

\* Nothing comes back before Serve has read the header.
Fresh ==
    mpc \in {"off", "header"} =>
      /\ tool = "none" /\ lock = None /\ todo = <<>> /\ srd = None
      /\ copied = Zero /\ printed = Zero /\ rendered = Nothing
      /\ q["wDown"] = <<>> /\ q["dDown"] = <<>>

\* Serve reports an exit once the tool and both copying goroutines are done.
Serving ==
    /\ tool = "none" => mpc # "wait" /\ cp = Off
    /\ tool = "running" => mpc = "wait"
    /\ tool # "none" => \A s \in Streams : cp[s] # "off"
    /\ mpc = "wait" => todo = <<>>
    /\ mpc \in {"write", "over"} /\ tool # "none" => CopiersReturned
    /\ lock = "main" => mpc = "write" /\ todo # <<>>

\* How far a copying goroutine is.  One that failed found the connection broken.
Copying ==
    \A s \in Streams :
       /\ lock = s <=> cp[s] = "body"
       /\ copied[s] <= printed[s]
       /\ cp[s] = "body" => copied[s] < printed[s]
       /\ cp[s] = "done" => copied[s] = printed[s] /\ tool = "exited"
       /\ cp[s] = "failed" => Broken("dDown")

\* What Serve has yet to report is the tool's exit code, or a refusal.
Reports ==
    \A i \in 1..Len(todo) :
       /\ tool # "none" => todo[i][1] = "exit"
       /\ todo[i][1] = "exit" =>
            IF tool = "none" THEN todo[i][2] \in {126, 127}
            ELSE todo[i][2] = code \/ Broken("dDown")

Control == EndsOpen /\ Emptied /\ Stages /\ Fresh /\ Serving /\ Copying /\ Reports

LEMMA WhenBroken ==
  /\ Broken("wUp") <=> "shim" \notin open \/ "relayW" \notin open \/ "w" \in cut
  /\ Broken("wDown") <=> "shim" \notin open \/ "relayW" \notin open \/ "w" \in cut
  /\ Broken("dUp") <=> "serve" \notin open \/ "relayD" \notin open \/ "d" \in cut
  /\ Broken("dDown") <=> "serve" \notin open \/ "relayD" \notin open \/ "d" \in cut
  /\ Broken("wDown")' <=> "shim" \notin open' \/ "relayW" \notin open' \/ "w" \in cut'
  /\ Broken("dDown")' <=> "serve" \notin open' \/ "relayD" \notin open' \/ "d" \in cut'
  BY DEF Broken, Writer, Reader, Hop

LEMMA NoneIsNothing == None \notin Tags \cup {"main"} /\ Streams \subseteq Tags
  BY BoundAssumption DEF Tags

LEMMA InitControl == Init => Control
<1> SUFFICES ASSUME Init PROVE Control
  OBVIOUS
<1>1. EndsOpen /\ Stages /\ Fresh
  BY DEF Init, EndsOpen, Stages, Fresh, NoPieces, Pipes
<1>2. Emptied /\ Serving /\ Reports
  BY NoneIsNothing DEF Init, Emptied, NoPieces, Serving, Reports, CopiersReturned
<1>3. Copying
  BY NoneIsNothing DEF Init, Copying, Off, Zero, Tags
<1> QED
  BY <1>1, <1>2, <1>3 DEF Control

\* What Close leaves.
LEMMA CloseEmpties ==
  ASSUME NetTypes, Emptied, NEW ends, Close(ends)
  PROVE  /\ Emptied'
         /\ \A p \in Pipes : q'[p] = IF Reader[p] \in ends THEN <<>> ELSE q[p]
  BY DEF NetTypes, Emptied, Close

\* A write goes to a connection whose reader is there.
LEMMA PushKeeps ==
  ASSUME NetTypes, Emptied, NEW p \in Pipes, ~Broken(p), NEW x, Push(p, x), open' = open
  PROVE  /\ Emptied'
         /\ \A r \in Pipes : q'[r] = IF r = p THEN Append(q[p], x) ELSE q[r]
  BY DEF NetTypes, Emptied, Push, Broken

LEMMA PopKeeps ==
  ASSUME NetTypes, Emptied, NEW p \in Pipes, CanRead(p), Pop(p), open' = open
  PROVE  /\ Emptied'
         /\ \A r \in Pipes : q'[r] = IF r = p THEN Tail(q[p]) ELSE q[r]
  BY DEF NetTypes, Emptied, Pop, CanRead

\* A step that leaves Serve, the tool and the open ends alone.
LEMMA ControlKept ==
  ASSUME Control, Emptied',
         UNCHANGED <<spc, srd, rendered, rpc, rdone, open, mainVars, cp, exitSent>>,
         UNCHANGED <<tool, code, printed, copied>>, cut \subseteq cut',
         \A p \in {"wDown", "dDown"} : q[p] = <<>> => q'[p] = <<>>
  PROVE  Control'
<1> USE DEF mainVars
<1>1. EndsOpen' /\ Stages'
  BY DEF Control, EndsOpen, Stages
<1>2. Fresh'
  BY DEF Control, Fresh
<1>3. Serving'
  BY DEF Control, Serving, CopiersReturned
<1>4. Broken("dDown") => Broken("dDown")'
  BY WhenBroken
<1>5. Copying' /\ Reports'
  BY <1>4 DEF Control, Copying, Reports
<1> QED
  BY <1>1, <1>2, <1>3, <1>5 DEF Control

LEMMA ContainerControl == TypeOK /\ Control /\ Framed(q["wDown"], srd) /\ (Container \/ ShimKilled) => Control'
<1> SUFFICES ASSUME TypeOK, Control, Framed(q["wDown"], srd), Container \/ ShimKilled PROVE Control'
  OBVIOUS
<1>a. /\ NetTypes /\ Emptied /\ EndsOpen /\ Stages /\ Fresh /\ Serving /\ Copying /\ Reports
      /\ {"wUp", "wDown", "dUp", "dDown"} = Pipes /\ None \notin Tags
  BY NoneIsNothing DEF TypeOK, Control, Pipes
<1> USE DEF serveVars, mainVars, toolVars, relayVars, netVars, shimVars
<1>1. ASSUME NEW v \in Vars, FromCache(v) PROVE Control'
  <2>1. Emptied'
    BY <1>1, <1>a DEF FromCache, Emptied
  <2> QED
    BY <1>1, <2>1, ControlKept DEF FromCache
<1>2. ASSUME NEW v \in Vars, ReadsRef(v) PROVE Control'
  <2>1. EndsOpen' /\ Stages' /\ Emptied'
    BY <1>2, <1>a DEF ReadsRef, StartsRead, EndsOpen, Stages, Emptied, NoPieces
  <2>2. Serving' /\ Reports'
    BY <1>2, <1>a, NoneIsNothing DEF ReadsRef, StartsRead, Serving, Reports
  <2>4. Copying'
    <3>1. lock' = None /\ cp' = Off /\ copied' = Zero /\ printed' = Zero
      BY <1>2 DEF ReadsRef, StartsRead
    <3>2. \A s \in Streams : Off[s] = "off" /\ Zero[s] = 0 /\ s # None
      BY <1>a, NoneIsNothing DEF Off, Zero
    <3> QED
      BY <3>1, <3>2 DEF Copying
  <2>3. Fresh'
    BY <1>2, <1>a DEF ReadsRef, StartsRead, Fresh, NoPieces, Stages
  <2> QED
    BY <2>1, <2>2, <2>3, <2>4 DEF Control
<1>3. CASE ShimDials
  <2>1. EndsOpen' /\ Stages'
    BY <1>3, <1>a DEF ShimDials, EndsOpen, Stages
  <2>2. Emptied'
    BY <1>3, <1>a DEF ShimDials, EndsOpen, Stages, Emptied, Fresh, Reader
  <2>3. Serving' /\ Fresh'
    BY <1>3, <1>a DEF ShimDials, Serving, Fresh, CopiersReturned
  <2>4. Copying' /\ Reports'
    BY <1>3, <1>a, WhenBroken DEF ShimDials, Copying, Reports, EndsOpen, Stages
  <2> QED
    BY <2>1, <2>2, <2>3, <2>4 DEF Control
<1>4. ASSUME NEW c, Returns(c), spc \in {"dial", "header", "tag", "body"},
             srd' = None \/ (spc = "body" /\ srd = "exit" /\ srd' = srd),
             UNCHANGED <<rendered, cut, relayVars, serveVars>>
      PROVE  Control'
  <2>1. /\ Emptied' /\ open' = open \ {"shim"}
        /\ \A p \in Pipes : q'[p] = IF Reader[p] \in {"shim"} THEN <<>> ELSE q[p]
    BY <1>4, <1>a, CloseEmpties DEF Returns, Close
  <2>2. EndsOpen' /\ Stages'
    BY <1>4, <1>a, <2>1 DEF Returns, EndsOpen, Stages
  <2>3. Serving' /\ Fresh'
    BY <1>4, <1>a, <2>1 DEF Serving, Fresh, CopiersReturned
  <2>4. Copying' /\ Reports'
    BY <1>4, <1>a, <2>1, WhenBroken DEF Copying, Reports
  <2> QED
    BY <2>1, <2>2, <2>3, <2>4 DEF Control
<1>5. CASE DialFails
  BY <1>5, <1>4, <1>a DEF DialFails, Stages
<1>6. CASE ShimHeader
  <2>1. CASE Broken("wUp")
    BY <1>4, <1>6, <1>a, <2>1 DEF ShimHeader, Stages
  <2>2. CASE ~Broken("wUp")
    <3>1. Emptied' /\ \A r \in Pipes : q'[r] = IF r = "wUp" THEN Append(q["wUp"], Whole("header")) ELSE q[r]
      BY <1>6, <1>a, <2>2, PushKeeps DEF ShimHeader
    <3>2. EndsOpen' /\ Stages'
      BY <1>6, <1>a, <2>2 DEF ShimHeader, EndsOpen, Stages
    <3>3. Serving' /\ Fresh'
      BY <1>6, <1>a, <2>2, <3>1 DEF ShimHeader, Serving, Fresh, CopiersReturned
    <3>4. Copying' /\ Reports'
      BY <1>6, <1>a, <2>2, <3>1, WhenBroken DEF ShimHeader, Copying, Reports
    <3> QED
      BY <3>1, <3>2, <3>3, <3>4 DEF Control
  <2> QED
    BY <2>1, <2>2
<1>7. CASE LinkClosed
  BY <1>4, <1>7, <1>a DEF LinkClosed
<1>8. CASE ShimReadsTag
  <2>1. Emptied' /\ \A r \in Pipes : q'[r] = IF r = "wDown" THEN Tail(q["wDown"]) ELSE q[r]
    BY <1>8, <1>a, PopKeeps DEF ShimReadsTag
  <2>2. srd' \in Streams \cup {"exit"}
    <3>1. q["wDown"] \in Seq(Piece) /\ q["wDown"] # <<>> /\ srd = None
      BY <1>8, <1>a DEF ShimReadsTag, CanRead, NetTypes, Stages
    <3>2. 1 \in 1..Len(q["wDown"]) /\ Head(q["wDown"]) = q["wDown"][1]
      BY <3>1, EmptySeq
    <3> QED
      BY <1>8, <1>a, <3>1, <3>2 DEF ShimReadsTag, Framed, Awaited
  <2>3. EndsOpen' /\ Stages'
    BY <1>8, <1>a, <2>2 DEF ShimReadsTag, EndsOpen, Stages
  <2>4. Serving' /\ Fresh'
    BY <1>8, <1>a DEF ShimReadsTag, Serving, Fresh, CopiersReturned, CanRead
  <2>5. Copying' /\ Reports'
    BY <1>8, <1>a, WhenBroken DEF ShimReadsTag, Copying, Reports
  <2> QED
    BY <2>1, <2>3, <2>4, <2>5 DEF Control
<1>9. CASE ShimReadsBody
  <2>1. CASE srd = "exit"
    BY <1>4, <1>9, <1>a, <2>1 DEF ShimReadsBody
  <2>2. CASE srd # "exit"
    <3>1. Emptied' /\ \A r \in Pipes : q'[r] = IF r = "wDown" THEN Tail(q["wDown"]) ELSE q[r]
      BY <1>9, <1>a, <2>2, PopKeeps DEF ShimReadsBody
    <3>2. EndsOpen' /\ Stages'
      BY <1>9, <1>a, <2>2 DEF ShimReadsBody, EndsOpen, Stages
    <3>3. Serving' /\ Fresh'
      BY <1>9, <1>a, <2>2 DEF ShimReadsBody, Serving, Fresh, CopiersReturned, CanRead
    <3>4. Copying' /\ Reports'
      BY <1>9, <1>a, <2>2, WhenBroken DEF ShimReadsBody, Copying, Reports
    <3> QED
      BY <3>1, <3>2, <3>3, <3>4 DEF Control
  <2> QED
    BY <2>1, <2>2
<1>10. CASE AfterCall
  <2>1. EndsOpen' /\ Stages' /\ Emptied'
    BY <1>10, <1>a DEF AfterCall, EndsOpen, Stages, Emptied
  <2>2. Serving' /\ Fresh'
    BY <1>10, <1>a DEF AfterCall, Serving, Fresh, CopiersReturned
  <2>3. Copying' /\ Reports'
    BY <1>10, <1>a, WhenBroken DEF AfterCall, Copying, Reports
  <2> QED
    BY <2>1, <2>2, <2>3 DEF Control
<1>11. CASE Completes
  <2>1. EndsOpen' /\ Stages' /\ Emptied'
    BY <1>11, <1>a DEF Completes, EndsOpen, Stages, Emptied
  <2>2. Serving' /\ Fresh'
    BY <1>11, <1>a DEF Completes, Serving, Fresh, CopiersReturned
  <2>3. Copying' /\ Reports'
    BY <1>11, <1>a, WhenBroken DEF Completes, Copying, Reports
  <2> QED
    BY <2>1, <2>2, <2>3 DEF Control
<1>12. CASE ShimKilled
  <2>1. /\ Emptied' /\ open' = open \ {"shim"}
        /\ \A p \in Pipes : q'[p] = IF Reader[p] \in {"shim"} THEN <<>> ELSE q[p]
    BY <1>12, <1>a, CloseEmpties DEF ShimKilled, Close
  <2>2. EndsOpen' /\ Stages'
    BY <1>12, <1>a, <2>1 DEF ShimKilled, EndsOpen, Stages
  <2>3. Serving' /\ Fresh'
    BY <1>12, <1>a, <2>1 DEF ShimKilled, Serving, Fresh, CopiersReturned
  <2>4. Copying' /\ Reports'
    BY <1>12, <1>a, <2>1, WhenBroken DEF ShimKilled, Copying, Reports
  <2> QED
    BY <2>1, <2>2, <2>3, <2>4 DEF Control
<1> QED
  BY <1>1, <1>2, <1>3, <1>5, <1>6, <1>7, <1>8, <1>9, <1>10, <1>11, <1>12 DEF Container

LEMMA LinkControl ==
  TypeOK /\ Control
    /\ (Pump \/ RelayDials \/ RelayCloses
        \/ (\E d \in {"up", "down"} : RelayCopies(d) \/ RelayEnds(d))
        \/ \E h \in {"w", "d"} : Cut(h))
  => Control'
<1> SUFFICES ASSUME TypeOK, Control,
                    \/ Pump \/ RelayDials \/ RelayCloses
                    \/ \E d \in {"up", "down"} : RelayCopies(d) \/ RelayEnds(d)
                    \/ \E h \in {"w", "d"} : Cut(h)
             PROVE  Control'
  OBVIOUS
<1>a. /\ NetTypes /\ Emptied /\ EndsOpen /\ Stages /\ Fresh /\ Serving /\ Copying /\ Reports
      /\ {"wUp", "wDown", "dUp", "dDown"} = Pipes
  BY DEF TypeOK, Control, Pipes
<1> USE DEF serveVars, mainVars, toolVars, relayVars, netVars, shimVars
<1>1. CASE Pump
  <2>1. PICK x : Push("wUp", x) /\ CanWrite("wUp") /\ open' = open
    BY <1>1 DEF Pump, PumpSends, PumpSendsEOF
  <2>2. Emptied' /\ \A r \in Pipes : q'[r] = IF r = "wUp" THEN Append(q["wUp"], x) ELSE q[r]
    BY <1>a, <2>1, PushKeeps DEF CanWrite
  <2> QED
    BY <1>1, <1>a, <2>2, ControlKept DEF Pump, PumpSends, PumpSendsEOF
<1>2. CASE RelayDials
  <2>1. /\ Emptied' /\ rpc' \in {"copy", "over"} /\ \A p \in {"wDown", "dDown"} : q'[p] = <<>>
    <3>1. CASE rpc' = "copy" /\ q' = q /\ open' = open \cup {"relayD", "serve"}
      BY <1>2, <1>a, <3>1 DEF RelayDials, Emptied, Stages, Fresh
    <3>2. CASE rpc' = "over" /\ Close({"relayW"})
      BY <1>2, <1>a, <3>2, CloseEmpties DEF RelayDials, Stages, Fresh
    <3> QED
      BY <1>2, <3>1, <3>2 DEF RelayDials
  <2>2. EndsOpen' /\ Stages'
    BY <1>2, <1>a DEF RelayDials, EndsOpen, Stages, Close
  <2>3. Serving' /\ Fresh'
    BY <1>2, <1>a, <2>1 DEF RelayDials, Serving, Fresh, Stages, CopiersReturned
  <2>4. Copying' /\ Reports'
    BY <1>2, <1>a DEF RelayDials, Copying, Reports, Stages, Serving, Fresh, Off
  <2> QED
    BY <2>1, <2>2, <2>3, <2>4 DEF Control
<1>3. CASE RelayCloses
  <2>1. /\ Emptied' /\ open' = open \ {"relayW", "relayD"}
        /\ \A p \in Pipes : q'[p] = IF Reader[p] \in {"relayW", "relayD"} THEN <<>> ELSE q[p]
    BY <1>3, <1>a, CloseEmpties DEF RelayCloses, Close
  <2>2. EndsOpen' /\ Stages'
    BY <1>3, <1>a, <2>1 DEF RelayCloses, EndsOpen, Stages
  <2>3. Serving' /\ Fresh'
    BY <1>3, <1>a, <2>1 DEF RelayCloses, Serving, Fresh, CopiersReturned, mainVars
  <2>4. Copying' /\ Reports'
    BY <1>3, <1>a, <2>1, WhenBroken DEF RelayCloses, Copying, Reports, mainVars
  <2> QED
    BY <2>1, <2>2, <2>3, <2>4 DEF Control
<1>4. ASSUME NEW d \in {"up", "down"}, RelayCopies(d) PROVE Control'
  <2>1. /\ From[d] \in Pipes /\ To[d] \in Pipes /\ From[d] # To[d]
        /\ d = "down" => From[d] = "dDown" /\ To[d] = "wDown"
        /\ d = "up" => From[d] = "wUp" /\ To[d] = "dUp"
    BY DEF From, To, Pipes
  <2>2. \A p \in Pipes : q'[p] = IF p = From[d] THEN Tail(q[p])
                                 ELSE IF p = To[d] THEN Append(q[p], Head(q[From[d]])) ELSE q[p]
    BY <1>4, <1>a, <2>1 DEF RelayCopies, NetTypes
  <2>3. Reader[To[d]] \in open /\ q[From[d]] # <<>> /\ UNCHANGED <<open, cut>>
    BY <1>4 DEF RelayCopies, CanRead, CanWrite, Broken
  <2>4. Emptied'
    BY <1>a, <2>2, <2>3 DEF Emptied
  <2>5. mpc \notin {"off", "header"} \/ d = "up"
    BY <1>a, <2>1, <2>3 DEF Fresh
  <2>6. CASE d = "up"
    BY <1>4, <1>a, <2>1, <2>2, <2>4, <2>6, ControlKept DEF RelayCopies
  <2>7. CASE d = "down"
    <3>1. EndsOpen' /\ Stages' /\ Fresh'
      BY <1>4, <1>a, <2>5, <2>7 DEF RelayCopies, EndsOpen, Stages, Fresh, mainVars
    <3>2. Serving' /\ Copying' /\ Reports'
      BY <1>4, <1>a, <2>3, WhenBroken DEF RelayCopies, Serving, Copying, Reports, CopiersReturned, mainVars
    <3> QED
      BY <2>4, <3>1, <3>2 DEF Control
  <2> QED
    BY <2>6, <2>7
<1>5. ASSUME NEW d \in {"up", "down"}, RelayEnds(d) PROVE Control'
  <2>1. EndsOpen' /\ Stages' /\ Fresh' /\ Emptied'
    BY <1>5, <1>a DEF RelayEnds, EndsOpen, Stages, Fresh, Emptied, mainVars
  <2>2. Serving' /\ Copying' /\ Reports'
    BY <1>5, <1>a, WhenBroken DEF RelayEnds, Serving, Copying, Reports, CopiersReturned, mainVars
  <2> QED
    BY <2>1, <2>2 DEF Control
<1>6. ASSUME NEW h \in {"w", "d"}, Cut(h) PROVE Control'
  <2>1. \A p \in Pipes : q'[p] = q[p] \/ q'[p] = <<>>
    BY <1>6, <1>a DEF Cut
  <2>2. Emptied' /\ cut \subseteq cut'
    BY <1>6, <1>a, <2>1 DEF Cut, Emptied
  <2> QED
    BY <1>6, <1>a, <2>1, <2>2, ControlKept DEF Cut
<1> QED
  BY <1>1, <1>2, <1>3, <1>4, <1>5, <1>6

\* What a frame's writer does to the connection, its mutex and the shim's connection.
LEMMA FrameKeeps ==
  ASSUME TypeOK, Control, NEW w \in Streams \cup {"main"}, NEW t \in Tags, NEW k \in Int,
         WriteHead(w, t) \/ WriteBody(w, t, k) \/ WriteFails(w), UNCHANGED <<open, cut>>,
         mpc \notin {"off", "header"}
  PROVE  /\ Emptied' /\ q'["wDown"] = q["wDown"]
         /\ Broken("dDown")' <=> Broken("dDown")
         /\ \/ WriteHead(w, t) /\ lock = None /\ lock' = w
            \/ WriteBody(w, t, k) /\ lock = w /\ lock' = None
            \/ WriteFails(w) /\ lock \in {None, w} /\ lock' = None /\ Broken("dDown")
<1>a. NetTypes /\ Emptied /\ {"wDown", "dDown"} \subseteq Pipes
  BY DEF TypeOK, Control, Pipes
<1>1. CASE WriteHead(w, t)
  <2>1. Emptied' /\ q'["wDown"] = q["wDown"]
    BY <1>1, <1>a, PushKeeps DEF WriteHead, CanWrite
  <2> QED
    BY <1>1, <2>1, WhenBroken DEF WriteHead
<1>2. CASE WriteBody(w, t, k)
  <2>1. Emptied' /\ q'["wDown"] = q["wDown"]
    BY <1>2, <1>a, PushKeeps DEF WriteBody, CanWrite
  <2> QED
    BY <1>2, <2>1, WhenBroken DEF WriteBody
<1>3. CASE WriteFails(w)
  <2>1. Emptied' /\ q'["wDown"] = q["wDown"]
    BY <1>3, <1>a DEF WriteFails, Emptied
  <2> QED
    BY <1>3, <2>1, WhenBroken DEF WriteFails
<1> QED
  BY <1>1, <1>2, <1>3

LEMMA ServeControl == TypeOK /\ Control /\ Serve => Control'
<1> SUFFICES ASSUME TypeOK, Control, Serve PROVE Control'
  OBVIOUS
<1>a. /\ NetTypes /\ ServeTypes /\ ToolTypes
      /\ Emptied /\ EndsOpen /\ Stages /\ Fresh /\ Serving /\ Copying /\ Reports
      /\ {"wUp", "wDown", "dUp", "dDown"} = Pipes /\ None \notin Tags \cup {"main"}
      /\ Streams \subseteq Tags
  BY NoneIsNothing DEF TypeOK, Control, Pipes
<1> USE DEF toolVars, relayVars, netVars, shimVars
<1>1. ASSUME NEW c \in {126, 127}, ServeRefuses(c) PROVE Control'
  <2>1. Emptied'
    BY <1>1, <1>a, PopKeeps DEF ServeRefuses
  <2>2. EndsOpen' /\ Stages' /\ Fresh' /\ Serving'
    BY <1>1, <1>a DEF ServeRefuses, EndsOpen, Stages, Fresh, Serving
  <2>3. Copying'
    BY <1>1, <1>a, WhenBroken DEF ServeRefuses, Copying
  <2>4. Reports'
    BY <1>1, <1>a DEF ServeRefuses, Reports, Fresh
  <2> QED
    BY <2>1, <2>2, <2>3, <2>4 DEF Control
<1>2. CASE ServeStarts
  <2>1. Emptied'
    BY <1>2, <1>a, PopKeeps DEF ServeStarts
  <2>2. EndsOpen' /\ Stages' /\ Fresh' /\ Serving'
    BY <1>2, <1>a DEF ServeStarts, EndsOpen, Stages, Fresh, Serving
  <2>3. Copying'
    <3>1. lock' = None /\ cp' = [s \in Streams |-> "read"] /\ UNCHANGED <<copied, printed>>
      BY <1>2, <1>a DEF ServeStarts, Fresh
    <3>2. \A s \in Streams : cp'[s] = "read" /\ s # None
      BY <1>a, <3>1
    <3> QED
      BY <1>a, <3>1, <3>2 DEF Copying
  <2>4. Reports'
    BY <1>2, <1>a DEF ServeStarts, Reports, Fresh
  <2> QED
    BY <2>1, <2>2, <2>3, <2>4 DEF Control
<1>3. CASE ServeNoHeader \/ ServeCloses
  <2>1. /\ Emptied' /\ open' = open \ {"serve"} /\ mpc' = "over"
        /\ \A p \in Pipes : q'[p] = IF Reader[p] \in {"serve"} THEN <<>> ELSE q[p]
    BY <1>3, <1>a, CloseEmpties DEF ServeNoHeader, ServeCloses, ServeReturns, Close
  <2>2. EndsOpen' /\ Stages'
    BY <1>3, <1>a, <2>1 DEF ServeNoHeader, ServeCloses, EndsOpen, Stages
  <2>3. Serving' /\ Fresh'
    BY <1>3, <1>a, <2>1 DEF ServeNoHeader, ServeCloses, Serving, Fresh, CopiersReturned
  <2>4. Copying' /\ Reports'
    BY <1>3, <1>a, <2>1, WhenBroken DEF ServeNoHeader, ServeCloses, Copying, Reports
  <2> QED
    BY <2>1, <2>2, <2>3, <2>4 DEF Control
<1>4. CASE ServeWaits
  <2> DEFINE c == IF code = 0 /\ \E s \in Streams : cp[s] = "failed" THEN 1 ELSE code
  <2>1. ServeReports(c) /\ CopiersReturned
    BY <1>4 DEF ServeWaits
  <2>2. c = code \/ Broken("dDown")
    BY <1>a DEF Copying
  <2> HIDE DEF c
  <2>3. EndsOpen' /\ Stages' /\ Fresh' /\ Emptied'
    BY <1>a, <2>1 DEF ServeReports, EndsOpen, Stages, Fresh, Emptied
  <2>4. Serving'
    BY <1>a, <2>1 DEF ServeReports, Serving, CopiersReturned
  <2>5. Copying'
    BY <1>a, <2>1, WhenBroken DEF ServeReports, Copying
  <2>6. Reports'
    <3>1. todo' = << <<"exit", c>> >> /\ tool' = "exited" /\ code' = code
      BY <2>1 DEF ServeReports
    <3>2. c = code \/ Broken("dDown")'
      BY <2>1, <2>2, WhenBroken DEF ServeReports
    <3> QED
      BY <3>1, <3>2 DEF Reports
  <2> QED
    BY <2>3, <2>4, <2>5, <2>6 DEF Control
<1>5. CASE ServeFrame
  <2>1. /\ todo \in Seq({"stderr", "exit"} \X Int) /\ todo # <<>>
        /\ Head(todo)[1] \in Tags /\ Head(todo)[2] \in Int
    <3>1. Head(todo) \in {"stderr", "exit"} \X Int
      BY <1>5, <1>a, HeadTailProperties DEF ServeFrame, ServeTypes
    <3> QED
      BY <1>5, <1>a, <3>1 DEF ServeFrame, ServeTypes, Tags, Streams
  <2>2. /\ \/ WriteHead("main", Head(todo)[1]) /\ todo' = todo
           \/ WriteBody("main", Head(todo)[1], Head(todo)[2]) /\ todo' = Tail(todo)
           \/ WriteFails("main") /\ todo' = Tail(todo)
        /\ UNCHANGED <<open, cut, mpc>> /\ mpc = "write"
    BY <1>5 DEF ServeFrame
  <2>3. /\ Emptied' /\ q'["wDown"] = q["wDown"]
        /\ Broken("dDown")' <=> Broken("dDown")
        /\ \/ lock = None /\ lock' = "main" /\ todo' = todo
           \/ lock \in {None, "main"} /\ lock' = None /\ todo' = Tail(todo)
    BY <2>1, <2>2, FrameKeeps DEF WriteHead, WriteBody, WriteFails
  <2>4. EndsOpen' /\ Stages' /\ Fresh'
    BY <1>5, <1>a, <2>2 DEF ServeFrame, EndsOpen, Stages, Fresh
  <2>5. Serving'
    BY <1>5, <1>a, <2>1, <2>2, <2>3 DEF ServeFrame, Serving, CopiersReturned
  <2>6. Copying'
    <3>1. \A s \in Streams : s # None /\ s # "main"
      BY <1>a DEF Streams
    <3> QED
      BY <1>5, <1>a, <2>2, <2>3, <3>1 DEF ServeFrame, Copying
  <2>7. Reports'
    <3>1. todo' = todo \/ todo' = Tail(todo)
      BY <2>3
    <3>2. \A i \in 1..Len(todo') : \E j \in 1..Len(todo) : todo'[i] = todo[j]
      <4>1. CASE todo' = Tail(todo)
        <5>1. /\ Len(todo) \in Nat /\ Len(Tail(todo)) = Len(todo) - 1
              /\ \A i \in 1..Len(todo) - 1 : Tail(todo)[i] = todo[i + 1]
          BY <2>1, HeadTailProperties
        <5>2. \A i \in 1..Len(todo) - 1 : i + 1 \in 1..Len(todo)
          BY <5>1
        <5> QED
          BY <4>1, <5>1, <5>2
      <4> QED
        BY <3>1, <4>1
    <3> QED
      BY <1>5, <1>a, <2>3, <3>2 DEF ServeFrame, Reports
  <2> QED
    BY <2>3, <2>4, <2>5, <2>6, <2>7 DEF Control
<1> QED
  BY <1>1, <1>2, <1>3, <1>4, <1>5 DEF Serve

LEMMA ToolControl ==
  TypeOK /\ Control
    /\ (Stdin \/ ToolReads \/ Exits \/ \E s \in Streams : Copier(s) \/ ToolPrints(s))
  => Control'
<1> SUFFICES ASSUME TypeOK, Control,
                    Stdin \/ ToolReads \/ Exits \/ \E s \in Streams : Copier(s) \/ ToolPrints(s)
             PROVE  Control'
  OBVIOUS
<1>a. /\ NetTypes /\ ServeTypes /\ ToolTypes
      /\ Emptied /\ EndsOpen /\ Stages /\ Fresh /\ Serving /\ Copying /\ Reports
      /\ {"wUp", "wDown", "dUp", "dDown"} = Pipes /\ None \notin Tags \cup {"main"}
      /\ Streams \subseteq Tags
  BY NoneIsNothing DEF TypeOK, Control, Pipes
<1> USE DEF relayVars, netVars, shimVars
<1>1. CASE Stdin
  <2>1. UNCHANGED open /\ (q' = q \/ (CanRead("dUp") /\ Pop("dUp")))
    BY <1>1 DEF Stdin, StdinChunk, StdinEnds
  <2>2. Emptied' /\ \A r \in Pipes : r # "dUp" => q'[r] = q[r]
    BY <1>a, <2>1, PopKeeps DEF Emptied
  <2> QED
    BY <1>1, <1>a, <2>2, ControlKept DEF Stdin, StdinChunk, StdinEnds
<1>2. CASE ToolReads
  <2>1. Emptied'
    BY <1>2, <1>a DEF ToolReads, Emptied
  <2> QED
    BY <1>2, <2>1, ControlKept DEF ToolReads
<1>3. CASE Exits
  <2>1. PICK c \in Codes : ToolExits(c)
    BY <1>3 DEF Exits
  <2>2. EndsOpen' /\ Stages' /\ Fresh' /\ Emptied'
    BY <1>a, <2>1 DEF ToolExits, EndsOpen, Stages, Fresh, Emptied, mainVars
  <2>3. Serving' /\ Copying'
    BY <1>a, <2>1, WhenBroken DEF ToolExits, Serving, Copying, CopiersReturned, mainVars
  <2>4. Reports'
    BY <1>a, <2>1 DEF ToolExits, Serving, Reports, mainVars
  <2> QED
    BY <2>2, <2>3, <2>4 DEF Control
<1>4. ASSUME NEW s \in Streams, Copier(s) PROVE Control'
  <2>1. /\ s \in Tags /\ copied[s] + 1 \in Int /\ copied[s] \in Nat /\ printed[s] \in Nat
    BY <1>4, <1>a DEF ToolTypes
  <2>2. mpc = "wait" /\ tool # "none"
    BY <1>4, <1>a, <2>1 DEF Copier, Serving, CopiersReturned, Off, Fresh, ServeTypes
  <2>3. /\ Emptied' /\ q'["wDown"] = q["wDown"]
        /\ Broken("dDown")' <=> Broken("dDown")
    <3>1. CASE q' = q
      BY <1>4, <1>a, <3>1, WhenBroken DEF Copier, Emptied
    <3>2. CASE WriteHead(s, s) \/ WriteBody(s, s, copied[s] + 1) \/ WriteFails(s)
      BY <1>4, <2>1, <2>2, <3>2, FrameKeeps DEF Copier
    <3> QED
      BY <1>4, <3>1, <3>2 DEF Copier
  <2>4. EndsOpen' /\ Stages' /\ Fresh'
    BY <1>4, <1>a, <2>2 DEF Copier, EndsOpen, Stages, Fresh
  <2>5. Serving' /\ Reports'
    BY <1>4, <1>a, <2>2, <2>3 DEF Copier, Serving, Reports, ServeTypes, WriteHead, WriteBody, WriteFails, Streams
  <2>6. Copying'
    <3>1. ASSUME NEW r \in Streams, r # s
          PROVE  cp'[r] = cp[r] /\ copied'[r] = copied[r] /\ (lock' = r <=> lock = r)
      BY <1>4, <1>a, <3>1 DEF Copier, ToolTypes, ServeTypes, WriteHead, WriteBody, WriteFails
    <3>2. /\ lock' = s <=> cp'[s] = "body"
          /\ copied'[s] <= printed[s]
          /\ cp'[s] = "body" => copied'[s] < printed[s]
          /\ cp'[s] = "done" => copied'[s] = printed[s] /\ tool = "exited"
          /\ cp'[s] = "failed" => Broken("dDown")
      BY <1>4, <1>a, <2>1 DEF Copier, Copying, ToolTypes, ServeTypes, WriteHead, WriteBody, WriteFails
    <3>3. UNCHANGED <<tool, printed>>
      BY <1>4 DEF Copier
    <3> QED
      BY <1>a, <2>3, <3>1, <3>2, <3>3 DEF Copying
  <2> QED
    BY <2>3, <2>4, <2>5, <2>6 DEF Control
<1>5. ASSUME NEW s \in Streams, ToolPrints(s) PROVE Control'
  <2>1. EndsOpen' /\ Stages' /\ Emptied' /\ Fresh'
    BY <1>5, <1>a DEF ToolPrints, EndsOpen, Stages, Fresh, Emptied, mainVars
  <2>2. Serving' /\ Reports'
    BY <1>5, <1>a, WhenBroken DEF ToolPrints, Serving, Reports, CopiersReturned, mainVars
  <2>3. Copying'
    BY <1>5, <1>a, WhenBroken DEF ToolPrints, Copying, ToolTypes, mainVars
  <2> QED
    BY <2>1, <2>2, <2>3 DEF Control
<1> QED
  BY <1>1, <1>2, <1>3, <1>4, <1>5

-----------------------------------------------------------------------------
(* What is on its way to the shim. *)

InFlight == IF Broken("wDown") THEN q["wDown"] ELSE q["wDown"] \o q["dDown"]

\* What Serve writes still comes to the shim.
Linked == ~Broken("wDown") /\ ~Broken("dDown")

\* The tag whose head was written and whose payload was not.
Pending == IF lock = "main" THEN Head(todo)[1] ELSE lock

\* An exit code in flight is the tool's, or that of a refusal, and Serve's last word.
ExitPieces ==
    \A i \in 1..Len(InFlight) : InFlight[i].tag = "exit" =>
       /\ mpc \in {"write", "over"}
       /\ InFlight[i].part = "body" =>
            IF tool = "none" THEN InFlight[i].n \in {126, 127} ELSE InFlight[i].n = code

Flowing ==
    /\ Framed(InFlight, srd)
    /\ Linked => Awaited(InFlight, srd, Len(InFlight)) = Pending
    /\ ExitPieces
    /\ tool # "none" => \A s \in Streams :
         Numbered(InFlight, s, Len(rendered[s]), copied[s], printed[s], Linked)

LEMMA InFlightIsSeq ==
  NetTypes => /\ InFlight \in Seq(Piece) /\ q["wDown"] \in Seq(Piece) /\ q["dDown"] \in Seq(Piece)
              /\ Begins(q["wDown"], InFlight)
<1> SUFFICES ASSUME NetTypes
             PROVE  /\ InFlight \in Seq(Piece)
                    /\ q["wDown"] \in Seq(Piece) /\ q["dDown"] \in Seq(Piece)
                    /\ Begins(q["wDown"], InFlight)
  OBVIOUS
<1>1. q["wDown"] \in Seq(Piece) /\ q["dDown"] \in Seq(Piece)
  BY DEF NetTypes, Pipes
<1>2. Begins(q["wDown"], q["wDown"])
  BY <1>1 DEF Begins
<1> QED
  BY <1>1, <1>2, Joined DEF InFlight

LEMMA InFlightStaysSeq == NetTypes' => InFlight' \in Seq(Piece)
  BY Joined DEF NetTypes, Pipes, InFlight

LEMMA LinkedIsBoolean == Linked \in BOOLEAN /\ Linked' \in BOOLEAN
  BY DEF Linked

LEMMA ShimsIsFramed == NetTypes /\ Flowing => Framed(q["wDown"], srd)
  BY InFlightIsSeq, BeginsFramed DEF Flowing

LEMMA NumberedEmpty ==
  ASSUME NEW s \in Streams, NEW c \in Nat, NEW m \in 0..c, NEW e, NEW all, all => m = c
  PROVE  Numbered(<<>>, s, m, c, e, all)
<1> DEFINE f == [i \in 0..0 |-> m]
<1>1. f \in [0..Len(<<>>) -> 0..c] /\ f[0] = m
  OBVIOUS
<1> HIDE DEF f
<1>2. Counts(<<>>, s, f) /\ \A i \in 1..Len(<<>>) : FALSE
  BY DEF Counts
<1> QED
  BY <1>1, <1>2 DEF Numbered

\* The reader has no more than was copied, and no less.
LEMMA ReadIsCopied ==
  ASSUME TypeOK, Flowing, tool # "none", NEW s \in Streams
  PROVE  Len(rendered[s]) \in 0..copied[s] /\ copied[s] \in Nat
<1>1. copied[s] \in Nat /\ InFlight \in Seq(Piece)
  BY InFlightIsSeq DEF TypeOK, ToolTypes
<1>2. Numbered(InFlight, s, Len(rendered[s]), copied[s], printed[s], Linked)
  BY DEF Flowing
<1> QED
  BY <1>1, <1>2 DEF Numbered

\* What is in flight stays or is lost from behind.
LEMMA FlowKept ==
  ASSUME TypeOK, NetTypes', Flowing, Begins(InFlight', InFlight),
         UNCHANGED <<srd, copied, rendered>>,
         Linked' => Linked /\ InFlight' = InFlight /\ Pending' = Pending,
         mpc' = mpc \/ mpc' \in {"write", "over"},
         \/ UNCHANGED <<tool, code, printed>>
         \/ mpc = "wait" /\ tool # "none" /\ tool' # "none"
  PROVE  Flowing'
<1>a. InFlight \in Seq(Piece) /\ InFlight' \in Seq(Piece)
  BY InFlightIsSeq, InFlightStaysSeq DEF TypeOK
<1>1. /\ Framed(InFlight', srd')
      /\ \A i \in 0..Len(InFlight') : Awaited(InFlight', srd', i) = Awaited(InFlight, srd, i)
  BY <1>a, BeginsFramed DEF Flowing
<1>2. Linked' => Awaited(InFlight', srd', Len(InFlight')) = Pending'
  BY <1>a, <1>1 DEF Flowing
<1>3. \A i \in 1..Len(InFlight') : i \in 1..Len(InFlight) /\ InFlight'[i] = InFlight[i]
  BY <1>a DEF Begins
<1>4. ExitPieces'
  BY <1>3 DEF Flowing, ExitPieces
<1>5. ASSUME tool' # "none", NEW s \in Streams
      PROVE  Numbered(InFlight', s, Len(rendered'[s]), copied'[s], printed'[s], Linked')
  <2>1. copied[s] \in Nat /\ tool # "none"
    BY <1>5 DEF TypeOK, ToolTypes
  <2>2. Numbered(InFlight, s, Len(rendered[s]), copied[s], printed[s], Linked)
    BY <2>1 DEF Flowing
  <2>3. Linked' => Linked /\ Len(InFlight') = Len(InFlight)
    OBVIOUS
  <2>4. Numbered(InFlight', s, Len(rendered[s]), copied[s], printed[s], Linked')
    BY <1>a, <2>1, <2>2, <2>3, BeginsNumbered, LinkedIsBoolean
  <2>5. CASE printed' = printed
    BY <2>4, <2>5
  <2>6. CASE mpc = "wait"
    <3>1. \A i \in 1..Len(InFlight') : InFlight'[i].tag # "exit"
      BY <1>3, <2>6 DEF Flowing, ExitPieces
    <3> QED
      BY <2>4, <3>1 DEF Numbered
  <2> QED
    BY <2>5, <2>6
<1> QED
  BY <1>1, <1>2, <1>4, <1>5 DEF Flowing

\* The shim is gone, and what was in flight with it.
LEMMA FlowGone ==
  ASSUME TypeOK, Flowing, InFlight' = <<>>, ~Linked', UNCHANGED <<tool, copied, printed>>,
         rendered' = rendered \/ rendered' = Nothing
  PROVE  Flowing'
<1>1. Framed(InFlight', srd') /\ ExitPieces'
  BY DEF Framed, ExitPieces
<1>2. ASSUME tool' # "none", NEW s \in Streams
      PROVE  Numbered(InFlight', s, Len(rendered'[s]), copied'[s], printed'[s], Linked')
  <2>1. Len(rendered[s]) \in 0..copied[s] /\ copied[s] \in Nat
    BY <1>2, ReadIsCopied
  <2>2. Len(rendered'[s]) \in 0..copied[s]
    BY <2>1 DEF Nothing
  <2> QED
    BY <2>1, <2>2, NumberedEmpty
<1> QED
  BY <1>1, <1>2 DEF Flowing

\* A call that has got no answer yet.
LEMMA FlowNew ==
  ASSUME InFlight' = <<>>, tool' = "none", srd' = None, Linked' => lock' = None
  PROVE  Flowing'
<1>1. Framed(InFlight', srd') /\ ExitPieces'
  BY DEF Framed, ExitPieces
<1>2. Len(<<>>) = 0 /\ None # "main"
  BY NoneIsNothing
<1> QED
  BY <1>1, <1>2 DEF Flowing, Awaited, Pending

-----------------------------------------------------------------------------
(* What has come to the shim. *)

\* The caller saw the chunks from the first on, and all of them before an exit code.
Rendered ==
    /\ tool # "none" => \A s \in Streams :
         \A i \in 1..Len(rendered[s]) : rendered[s][i] = BodyOf(s, i)
    /\ srd = "exit" =>
         /\ mpc \in {"write", "over"}
         /\ tool # "none" => \A s \in Streams : Len(rendered[s]) = printed[s]

\* A code that came back, or one of the shim's own.
Told ==
    spc = "returned" =>
      IF srd # "exit" THEN status \in {1, 127}
      ELSE IF tool = "none" THEN status \in {126, 127}
      ELSE tool = "exited" /\ status = code % 256

Answered == Rendered /\ Told

LEMMA AnsweredKept ==
  ASSUME Answered, UNCHANGED <<spc, srd, status, rendered>>,
         mpc' = mpc \/ mpc' \in {"write", "over"},
         \/ UNCHANGED <<tool, code, printed>>
         \/ mpc = "wait" /\ tool # "none" /\ tool' # "none"
  PROVE  Answered'
<1>1. Rendered'
  BY DEF Answered, Rendered
<1>2. Told'
  BY DEF Answered, Rendered, Told
<1> QED
  BY <1>1, <1>2 DEF Answered

LEMMA InitFlow == Init => Flowing /\ Answered
<1> SUFFICES ASSUME Init PROVE Flowing /\ Answered
  OBVIOUS
<1>1. q["wDown"] = <<>> /\ Broken("wDown") /\ tool = "none" /\ srd = None /\ spc # "returned"
  BY WhenBroken DEF Init, NoPieces, Pipes
<1>2. InFlight = <<>> /\ ~Linked
  BY <1>1 DEF InFlight, Linked
<1>3. Flowing
  BY <1>1, <1>2 DEF Flowing, Framed, ExitPieces
<1>4. Answered
  BY <1>1, NoneIsNothing DEF Answered, Rendered, Told, Tags
<1> QED
  BY <1>3, <1>4

LEMMA ShimGone ==
  ASSUME NetTypes, Close({"shim"})
  PROVE  InFlight' = <<>> /\ ~Linked'
<1>1. "shim" \notin open' /\ q'["wDown"] = <<>>
  BY DEF NetTypes, Close, Reader, Pipes
<1>2. Broken("wDown")'
  BY <1>1, WhenBroken
<1> QED
  BY <1>1, <1>2 DEF InFlight, Linked

\* A step that leaves the connections to the shim alone.
LEMMA FlightKept ==
  ASSUME UNCHANGED <<open, cut, lock, todo>>, q'["wDown"] = q["wDown"], q'["dDown"] = q["dDown"]
  PROVE  InFlight' = InFlight /\ Linked' = Linked /\ Pending' = Pending
<1>1. Broken("wDown")' = Broken("wDown") /\ Broken("dDown")' = Broken("dDown")
  BY DEF Broken
<1> QED
  BY <1>1 DEF InFlight, Linked, Pending

LEMMA BeginsItself == \A I \in Seq(Piece) : Begins(I, I) /\ Begins(<<>>, I)
  BY DEF Begins

\* The shim takes a piece from its connection.
LEMMA ShimTakes ==
  ASSUME TypeOK, Flowing, CanRead("wDown"), Pop("wDown"),
         UNCHANGED <<open, cut, lock, todo, mpc, tool, code, printed, copied>>,
         srd' = Awaited(InFlight, srd, 1),
         tool # "none" => \A s \in Streams :
            IF Head(InFlight).part = "body" /\ Head(InFlight).tag = s
            THEN Len(rendered'[s]) = Len(rendered[s]) + 1 ELSE rendered'[s] = rendered[s]
  PROVE  Flowing'
<1>1. /\ q["wDown"] \in Seq(Piece) /\ q["wDown"] # <<>> /\ q["dDown"] \in Seq(Piece)
      /\ q'["wDown"] = Tail(q["wDown"]) /\ q'["dDown"] = q["dDown"]
  BY DEF TypeOK, NetTypes, CanRead, Pop, Pipes
<1>2. (Broken("wDown")' <=> Broken("wDown")) /\ Linked' = Linked /\ Pending' = Pending
  BY DEF Broken, Linked, Pending
<1>3. InFlight \in Seq(Piece) /\ InFlight # <<>> /\ InFlight' = Tail(InFlight)
  <2>1. CASE Broken("wDown")
    BY <1>1, <1>2, <2>1 DEF InFlight
  <2>2. CASE ~Broken("wDown")
    <3>1. InFlight = q["wDown"] \o q["dDown"] /\ InFlight' = Tail(q["wDown"]) \o q["dDown"]
      BY <1>1, <1>2, <2>2 DEF InFlight
    <3> QED
      BY <1>1, <3>1, Joined
  <2> QED
    BY <2>1, <2>2
<1>4. /\ Framed(InFlight', srd')
      /\ \A i \in 0..Len(InFlight') : Awaited(InFlight', srd', i) = Awaited(InFlight, srd, i + 1)
  BY <1>3, TailFramed DEF Flowing
<1>5. /\ Len(InFlight) \in Nat /\ Len(InFlight') = Len(InFlight) - 1 /\ Len(InFlight') \in Nat
      /\ \A i \in 1..Len(InFlight') : InFlight'[i] = InFlight[i + 1] /\ i + 1 \in 1..Len(InFlight)
  BY <1>3, HeadTailProperties, EmptySeq
<1>6. Linked' => Awaited(InFlight', srd', Len(InFlight')) = Pending'
  <2>1. Len(InFlight') \in 0..Len(InFlight') /\ Len(InFlight') + 1 = Len(InFlight)
    BY <1>5
  <2> QED
    BY <1>2, <1>4, <2>1 DEF Flowing
<1>7. ExitPieces'
  BY <1>5 DEF Flowing, ExitPieces
<1>8. ASSUME tool # "none", NEW s \in Streams
      PROVE  Numbered(InFlight', s, Len(rendered'[s]), copied[s], printed[s], Linked)
  <2>1. /\ Numbered(InFlight, s, Len(rendered[s]), copied[s], printed[s], Linked)
        /\ Len(rendered[s]) \in 0..copied[s] /\ copied[s] \in Nat
    BY <1>8, ReadIsCopied DEF Flowing
  <2>2. CASE Head(InFlight).part = "body" /\ Head(InFlight).tag = s
    <3>1. Numbered(Tail(InFlight), s, Len(rendered[s]) + 1, copied[s], printed[s], Linked)
      BY <1>3, <2>1, <2>2, TailNumbered
    <3>2. Len(rendered'[s]) = Len(rendered[s]) + 1
      BY <1>8, <2>2
    <3> QED
      BY <1>3, <3>1, <3>2
  <2>3. CASE ~(Head(InFlight).part = "body" /\ Head(InFlight).tag = s)
    <3>1. Numbered(Tail(InFlight), s, Len(rendered[s]), copied[s], printed[s], Linked)
      BY <1>3, <2>1, <2>3, TailNumbered
    <3>2. rendered'[s] = rendered[s]
      BY <1>8, <2>3
    <3> QED
      BY <1>3, <3>1, <3>2
  <2> QED
    BY <2>2, <2>3
<1> QED
  BY <1>2, <1>4, <1>6, <1>7, <1>8 DEF Flowing

\* What the first piece in flight is.
LEMMA FirstPiece ==
  ASSUME TypeOK, Flowing, CanRead("wDown")
  PROVE  LET x == Head(q["wDown"]) IN
         /\ x \in Piece /\ Head(InFlight) = x
         /\ srd = None => x.part = "head" /\ x.tag \in Streams \cup {"exit"} /\ Awaited(InFlight, srd, 1) = x.tag
         /\ srd # None => x.part = "body" /\ x.tag = srd /\ Awaited(InFlight, srd, 1) = None
         /\ x.tag = "exit" => /\ mpc \in {"write", "over"}
                              /\ tool # "none" /\ x.part = "head" => \A s \in Streams : Len(rendered[s]) = printed[s]
                              /\ x.part = "body" => IF tool = "none" THEN x.n \in {126, 127} ELSE x.n = code
         /\ x.part = "body" /\ tool # "none" => \A s \in Streams : x.tag = s => x.n = Len(rendered[s]) + 1
<1> DEFINE x == Head(q["wDown"])
<1>1. /\ q["wDown"] \in Seq(Piece) /\ q["wDown"] # <<>> /\ q["dDown"] \in Seq(Piece) /\ InFlight \in Seq(Piece)
  BY InFlightIsSeq DEF TypeOK, CanRead
<1>2. InFlight # <<>> /\ Head(InFlight) = x
  BY <1>1, Joined DEF InFlight
<1>3. x = InFlight[1] /\ 1 \in 1..Len(InFlight) /\ x \in Piece
  BY <1>1, <1>2, HeadTailProperties, EmptySeq
<1> HIDE DEF x
<1>4. /\ srd = None => x.part = "head" /\ x.tag \in Streams \cup {"exit"}
      /\ srd # None => x.part = "body" /\ x.tag = srd
  BY <1>3 DEF Flowing, Framed, Awaited
<1>5. Awaited(InFlight, srd, 1) = IF x.part = "head" THEN x.tag ELSE None
  BY <1>3 DEF Awaited
<1>6. ASSUME tool # "none", NEW s \in Streams
      PROVE  /\ x.tag = "exit" /\ x.part = "head" => Len(rendered[s]) = printed[s]
             /\ x.part = "body" /\ x.tag = s => x.n = Len(rendered[s]) + 1
  <2>1. /\ Numbered(InFlight, s, Len(rendered[s]), copied[s], printed[s], Linked)
        /\ Len(rendered[s]) \in 0..copied[s] /\ copied[s] \in Nat
    BY <1>6, ReadIsCopied DEF Flowing
  <2>2. CASE x.part = "body" /\ x.tag = s
    BY <1>1, <1>2, <2>1, <2>2, TailNumbered
  <2>3. CASE ~(x.part = "body" /\ x.tag = s)
    BY <1>1, <1>2, <2>1, <2>3, TailNumbered
  <2> QED
    BY <2>2, <2>3
<1>7. x.tag = "exit" => /\ mpc \in {"write", "over"}
                        /\ x.part = "body" => IF tool = "none" THEN x.n \in {126, 127} ELSE x.n = code
  BY <1>3 DEF Flowing, ExitPieces
<1> QED
  BY <1>2, <1>3, <1>4, <1>5, <1>6, <1>7 DEF x

-----------------------------------------------------------------------------
(* What is in flight, step by step. *)

FlowInv == TypeOK /\ Control /\ Flowing /\ Answered

LEMMA ContainerFlow == FlowInv /\ NetTypes' /\ (Container \/ ShimKilled) => Flowing' /\ Answered'
<1> SUFFICES ASSUME FlowInv, NetTypes', Container \/ ShimKilled PROVE Flowing' /\ Answered'
  OBVIOUS
<1>a. /\ TypeOK /\ NetTypes /\ Flowing /\ Answered /\ Rendered /\ Told /\ InFlight \in Seq(Piece)
      /\ EndsOpen /\ Emptied /\ Stages /\ Fresh /\ Serving
      /\ {"wUp", "wDown", "dUp", "dDown"} = Pipes
      /\ None \notin Tags \cup {"main"} /\ Streams \subseteq Tags /\ "exit" \in Tags
  BY InFlightIsSeq, NoneIsNothing DEF FlowInv, TypeOK, Control, Answered, Pipes, Tags
<1> USE DEF serveVars, mainVars, toolVars, relayVars, netVars, shimVars
\* The pieces in flight, Serve and the tool are left alone.
<1>0. ASSUME UNCHANGED <<open, cut, lock, todo, mpc, tool, code, printed, copied, srd, rendered>>,
             q'["wDown"] = q["wDown"], q'["dDown"] = q["dDown"]
      PROVE  Flowing'
  BY <1>0, <1>a, FlightKept, BeginsItself, FlowKept
<1>1. ASSUME NEW v \in Vars, FromCache(v) PROVE Flowing' /\ Answered'
  <2>1. Answered'
    BY <1>1, <1>a, AnsweredKept DEF FromCache
  <2> QED
    BY <1>0, <1>1, <2>1 DEF FromCache
<1>2. ASSUME NEW v \in Vars, ReadsRef(v) PROVE Flowing' /\ Answered'
  <2>1. /\ q'["wDown"] = <<>> /\ open' = {} /\ tool' = "none" /\ srd' = None /\ srd = None
        /\ spc' = "dial"
    BY <1>2, <1>a DEF ReadsRef, StartsRead, NoPieces, Stages
  <2>2. InFlight' = <<>> /\ ~Linked'
    BY <2>1, WhenBroken DEF InFlight, Linked
  <2>3. Answered'
    BY <1>a, <2>1 DEF Answered, Rendered, Told
  <2> QED
    BY <2>1, <2>2, <2>3, FlowNew
<1>3. CASE ShimDials
  <2>1. /\ q' = q /\ q["wDown"] = <<>> /\ q["dDown"] = <<>> /\ tool' = "none" /\ srd' = None /\ lock' = None
        /\ tool = "none" /\ spc' = "header" /\ UNCHANGED <<rendered, mpc>> /\ srd = None
    BY <1>3, <1>a DEF ShimDials, Stages, Fresh
  <2>2. InFlight' = <<>>
    BY <2>1, ConcatEmptySeq DEF InFlight
  <2>3. Answered'
    BY <1>a, <2>1 DEF Answered, Rendered, Told
  <2> QED
    BY <2>1, <2>2, <2>3, FlowNew
\* The shim gives the call up.
<1>4. ASSUME NEW c \in {1, 127}, Returns(c), srd' = None, UNCHANGED <<rendered, serveVars>>
      PROVE  Flowing' /\ Answered'
  <2>1. InFlight' = <<>> /\ ~Linked'
    BY <1>4, <1>a, ShimGone DEF Returns
  <2>2. Answered'
    BY <1>4, <1>a DEF Answered, Rendered, Told, Returns
  <2> QED
    BY <1>4, <1>a, <2>1, <2>2, FlowGone
<1>5. CASE DialFails
  <2>1. srd' = None
    BY <1>5, <1>a DEF DialFails, Stages
  <2> QED
    BY <1>4, <1>5, <2>1 DEF DialFails
<1>6. CASE ShimHeader
  <2>1. CASE Broken("wUp")
    <3>1. srd' = None
      BY <1>6, <1>a DEF ShimHeader, Stages
    <3> QED
      BY <1>4, <1>6, <2>1, <3>1 DEF ShimHeader
  <2>2. CASE ~Broken("wUp")
    <3>1. /\ UNCHANGED <<open, cut, lock, todo, mpc, tool, code, printed, copied, srd, rendered>>
          /\ q'["wDown"] = q["wDown"] /\ q'["dDown"] = q["dDown"]
      BY <1>6, <1>a, <2>2, PushKeeps DEF ShimHeader
    <3>2. Answered'
      BY <1>6, <1>a, <2>2 DEF ShimHeader, Answered, Rendered, Told
    <3> QED
      BY <1>0, <3>1, <3>2
  <2> QED
    BY <2>1, <2>2
<1>7. CASE LinkClosed
  BY <1>4, <1>7 DEF LinkClosed
<1>8. CASE ShimReadsTag
  <2> DEFINE x == Head(q["wDown"])
  <2>1. srd = None /\ CanRead("wDown")
    BY <1>8, <1>a DEF ShimReadsTag, Stages
  <2>2. /\ x.part = "head" /\ Head(InFlight) = x /\ Awaited(InFlight, srd, 1) = x.tag
        /\ x.tag = "exit" => /\ mpc \in {"write", "over"}
                             /\ tool # "none" => \A s \in Streams : Len(rendered[s]) = printed[s]
    BY <1>a, <2>1, FirstPiece
  <2>3. Flowing'
    BY <1>8, <1>a, <2>2, ShimTakes DEF ShimReadsTag
  <2>4. Answered'
    BY <1>8, <1>a, <2>2 DEF ShimReadsTag, Answered, Rendered, Told
  <2> QED
    BY <2>3, <2>4
<1>9. CASE ShimReadsBody
  <2> DEFINE x == Head(q["wDown"])
  <2>1. srd \in Streams \cup {"exit"} /\ srd # None /\ CanRead("wDown")
    BY <1>9, <1>a DEF ShimReadsBody, Stages
  <2>2. /\ x \in Piece /\ x.part = "body" /\ x.tag = srd /\ Head(InFlight) = x
        /\ Awaited(InFlight, srd, 1) = None
        /\ x.tag = "exit" => IF tool = "none" THEN x.n \in {126, 127} ELSE x.n = code
        /\ tool # "none" => \A s \in Streams : x.tag = s => x.n = Len(rendered[s]) + 1
    BY <1>a, <2>1, FirstPiece
  <2>3. CASE srd = "exit"
    <3>1. Returns(x.n % 256) /\ UNCHANGED <<srd, rendered, serveVars>>
      BY <1>9, <2>3 DEF ShimReadsBody
    <3>2. InFlight' = <<>> /\ ~Linked'
      BY <1>a, <3>1, ShimGone DEF Returns
    <3>3. tool # "none" => tool = "exited"
      BY <1>a, <2>3 DEF Rendered, Serving, TypeOK, ToolTypes
    <3>4. Answered'
      BY <1>a, <2>2, <2>3, <3>1, <3>3 DEF Answered, Rendered, Told, Returns
    <3> QED
      BY <1>a, <3>1, <3>2, <3>4, FlowGone
  <2>4. CASE srd # "exit"
    <3>1. /\ rendered' = [rendered EXCEPT ![srd] = Append(@, x)] /\ srd \in Streams
          /\ Pop("wDown") /\ spc' = "tag" /\ srd' = None
          /\ UNCHANGED <<open, cut, lock, todo, mpc, tool, code, printed, copied>>
      BY <1>9, <2>1, <2>4 DEF ShimReadsBody
    <3>2. /\ rendered \in [Streams -> Seq(Piece)] /\ rendered[srd] \in Seq(Piece)
      BY <1>a, <3>1 DEF TypeOK, ShimTypes
    <3>3. /\ Len(rendered'[srd]) = Len(rendered[srd]) + 1 /\ rendered'[srd][Len(rendered[srd]) + 1] = x
          /\ \A i \in 1..Len(rendered[srd]) : rendered'[srd][i] = rendered[srd][i]
          /\ \A s \in Streams \ {srd} : rendered'[s] = rendered[s]
          /\ Len(rendered[srd]) \in Nat
      BY <2>2, <3>1, <3>2, AppendProperties
    <3>4. Flowing'
      BY <1>a, <2>1, <2>2, <3>1, <3>3, ShimTakes
    <3>5. ASSUME tool # "none" PROVE x = BodyOf(srd, Len(rendered[srd]) + 1)
      BY <2>2, <3>1, <3>5 DEF Piece, BodyOf
    <3>6. Rendered'
      BY <1>a, <3>1, <3>3, <3>5 DEF Rendered
    <3>7. Told'
      BY <3>1 DEF Told
    <3> QED
      BY <3>4, <3>6, <3>7 DEF Answered
  <2> QED
    BY <2>3, <2>4
<1>10. CASE AfterCall
  <2>1. /\ rendered' = Nothing /\ srd' = None /\ spc' # "returned" /\ "shim" \notin open
        /\ UNCHANGED <<q, open, cut, tool, copied, printed>>
    BY <1>10, <1>a DEF AfterCall, EndsOpen
  <2>2. q["wDown"] = <<>>
    BY <1>a, <2>1 DEF Emptied, Reader
  <2>3. InFlight' = <<>> /\ ~Linked'
    BY <2>1, <2>2, WhenBroken DEF InFlight, Linked
  <2>4. Answered'
    BY <1>a, <2>1 DEF Answered, Rendered, Told, Nothing
  <2> QED
    BY <1>a, <2>1, <2>3, <2>4, FlowGone
<1>11. CASE Completes
  <2>1. Answered'
    BY <1>11, <1>a DEF Completes, Answered, Rendered, Told
  <2> QED
    BY <1>0, <1>11, <2>1 DEF Completes
<1>12. CASE ShimKilled
  <2>1. InFlight' = <<>> /\ ~Linked'
    BY <1>12, <1>a, ShimGone DEF ShimKilled
  <2>2. Answered'
    BY <1>12, <1>a DEF ShimKilled, Answered, Rendered, Told, Nothing
  <2>3. rendered' = Nothing /\ UNCHANGED <<tool, copied, printed>>
    BY <1>12 DEF ShimKilled
  <2> QED
    BY <1>a, <2>1, <2>2, <2>3, FlowGone
<1> QED
  BY <1>1, <1>2, <1>3, <1>5, <1>6, <1>7, <1>8, <1>9, <1>10, <1>11, <1>12 DEF Container

LEMMA LinkFlow ==
  FlowInv /\ NetTypes'
    /\ (Pump \/ RelayDials \/ RelayCloses
        \/ (\E d \in {"up", "down"} : RelayCopies(d) \/ RelayEnds(d))
        \/ \E h \in {"w", "d"} : Cut(h))
  => Flowing' /\ Answered'
<1> SUFFICES ASSUME FlowInv, NetTypes',
                    \/ Pump \/ RelayDials \/ RelayCloses
                    \/ \E d \in {"up", "down"} : RelayCopies(d) \/ RelayEnds(d)
                    \/ \E h \in {"w", "d"} : Cut(h)
             PROVE  Flowing' /\ Answered'
  OBVIOUS
<1>a. /\ TypeOK /\ NetTypes /\ Flowing /\ Answered
      /\ EndsOpen /\ Emptied /\ Stages /\ Fresh /\ Serving
      /\ {"wUp", "wDown", "dUp", "dDown"} = Pipes
      /\ InFlight \in Seq(Piece) /\ q["wDown"] \in Seq(Piece) /\ q["dDown"] \in Seq(Piece)
      /\ Begins(q["wDown"], InFlight)
  BY InFlightIsSeq DEF FlowInv, TypeOK, Control, Pipes
<1> USE DEF serveVars, mainVars, toolVars, relayVars, netVars, shimVars
<1>b. UNCHANGED <<spc, srd, status, rendered, tool, code, printed, copied, lock, todo>>
  BY DEF Pump, PumpSends, PumpSendsEOF, RelayDials, RelayCloses, RelayCopies, RelayEnds, Cut
<1>c. mpc' = mpc \/ RelayDials
  BY DEF Pump, PumpSends, PumpSendsEOF, RelayCloses, RelayCopies, RelayEnds, Cut
<1>1. CASE RelayDials
  <2>1. /\ q["wDown"] = <<>> /\ q["dDown"] = <<>> /\ tool = "none" /\ srd = None /\ lock = None
        /\ mpc = "off"
    BY <1>1, <1>a DEF RelayDials, Stages, Fresh
  <2>2. q'["wDown"] = <<>> /\ q'["dDown"] = <<>>
    BY <1>1, <1>a, <2>1, CloseEmpties DEF RelayDials
  <2>3. InFlight' = <<>>
    BY <2>2, ConcatEmptySeq DEF InFlight
  <2>4. Answered'
    BY <1>a, <1>b, <2>1, NoneIsNothing DEF Answered, Rendered, Told, Tags
  <2> QED
    BY <1>b, <2>1, <2>3, <2>4, FlowNew
<1>2. CASE ~RelayDials
  <2>1. Answered'
    BY <1>2, <1>a, <1>b, <1>c, AnsweredKept
  <2>2. Begins(InFlight', InFlight) /\ (Linked' => Linked /\ InFlight' = InFlight)
    <3>1. CASE Pump \/ \E d \in {"up", "down"} : RelayEnds(d)
      <4>1. UNCHANGED <<open, cut>> /\ q'["wDown"] = q["wDown"] /\ q'["dDown"] = q["dDown"]
        BY <3>1, <1>a DEF Pump, PumpSends, PumpSendsEOF, Push, RelayEnds, NetTypes
      <4> QED
        BY <4>1, <1>a, <1>b, FlightKept, BeginsItself
    <3>2. ASSUME RelayCopies("up")
          PROVE  UNCHANGED <<open, cut>> /\ q'["wDown"] = q["wDown"] /\ q'["dDown"] = q["dDown"]
      BY <3>2, <1>a DEF RelayCopies, From, To, NetTypes
    <3>3. CASE RelayCopies("down")
      <4>1. /\ UNCHANGED <<open, cut>> /\ q["dDown"] # <<>> /\ ~Broken("wDown")
            /\ q'["dDown"] = Tail(q["dDown"])
            /\ q'["wDown"] = Append(q["wDown"], Head(q["dDown"]))
        BY <3>3, <1>a DEF RelayCopies, From, To, NetTypes, CanRead, CanWrite
      <4>2. ~Broken("wDown")' /\ (Linked' <=> Linked)
        BY <4>1 DEF Broken, Linked
      <4>3. /\ InFlight = q["wDown"] \o q["dDown"]
            /\ InFlight' = Append(q["wDown"], Head(q["dDown"])) \o Tail(q["dDown"])
        BY <4>1, <4>2 DEF InFlight
      <4>4. InFlight' = InFlight
        BY <1>a, <4>1, <4>3, Joined
      <4> QED
        BY <1>a, <4>2, <4>4, BeginsItself
    <3>4. CASE RelayCloses
      <4>1. /\ "relayW" \notin open' /\ q'["wDown"] = q["wDown"]
        BY <3>4, <1>a, CloseEmpties DEF RelayCloses, Close, Reader
      <4>2. InFlight' = q["wDown"] /\ ~Linked'
        BY <4>1, WhenBroken DEF InFlight, Linked
      <4> QED
        BY <1>a, <4>2
    <3>5. ASSUME NEW h \in {"w", "d"}, Cut(h)
          PROVE  Begins(InFlight', InFlight) /\ ~Linked'
      <4>1. open' = open /\ h \in cut' /\ cut \subseteq cut'
        BY <3>5 DEF Cut
      <4>2. ~Linked'
        BY <3>5, <4>1, WhenBroken DEF Linked
      <4>3. CASE h = "w"
        <5>1. q'["wDown"] = <<>> /\ Broken("wDown")'
          BY <3>5, <1>a, <4>1, <4>3, WhenBroken DEF Cut, Hop
        <5> QED
          BY <1>a, <4>2, <5>1, BeginsItself DEF InFlight
      <4>4. CASE h = "d"
        <5>1. q'["wDown"] = q["wDown"] /\ q'["dDown"] = <<>>
          BY <3>5, <1>a, <4>4 DEF Cut, Hop
        <5>2. InFlight' = q["wDown"]
          BY <1>a, <5>1, ConcatEmptySeq DEF InFlight
        <5> QED
          BY <1>a, <4>2, <5>2
      <4> QED
        BY <4>3, <4>4
    <3>6. ASSUME NEW d \in {"up", "down"}, RelayCopies(d) PROVE RelayCopies("up") \/ RelayCopies("down")
      BY <3>6
    <3>7. RelayCopies("up") => Begins(InFlight', InFlight) /\ (Linked' => Linked /\ InFlight' = InFlight)
      BY <3>2, <1>a, <1>b, FlightKept, BeginsItself
    <3> QED
      BY <1>2, <3>1, <3>3, <3>4, <3>5, <3>6, <3>7
  <2>3. Pending' = Pending
    BY <1>b DEF Pending
  <2> QED
    BY <1>2, <1>a, <1>b, <1>c, <2>1, <2>2, <2>3, FlowKept
<1> QED
  BY <1>1, <1>2

\* A chunk was copied into a connection nobody reads any more.
LEMMA NumberedGrows ==
  ASSUME NEW I \in Seq(Piece), NEW s \in Streams, NEW m, NEW c \in Nat, NEW k \in {c, c + 1}, NEW e,
         NEW all, Numbered(I, s, m, c, e, all)
  PROVE  Numbered(I, s, m, k, e, FALSE)
<1>1. PICK f \in [0..Len(I) -> 0..c] :
         /\ Counts(I, s, f) /\ f[0] = m
         /\ \A i \in 1..Len(I) : I[i].tag = "exit" => f[i] = e
  BY DEF Numbered
<1>2. 0..c \subseteq 0..k
  OBVIOUS
<1>3. f \in [0..Len(I) -> 0..k]
  BY <1>2
<1> QED
  BY <1>1, <1>3 DEF Numbered

\* Serve writes a piece to its connection.
LEMMA ServeWrites ==
  ASSUME FlowInv, NetTypes', NEW x \in Piece, CanWrite("dDown"), Push("dDown", x),
         UNCHANGED <<open, cut, srd, rendered, mpc, tool, code, printed>>,
         IF Pending = None THEN x.part = "head" /\ x.tag \in Streams \cup {"exit"}
                           ELSE x.part = "body" /\ x.tag = Pending,
         Pending' = IF x.part = "head" THEN x.tag ELSE None,
         tool # "none" => \A s \in Streams :
            IF x.part = "body" /\ x.tag = s
            THEN copied'[s] = copied[s] + 1 /\ x.n = copied'[s]
            ELSE copied'[s] = copied[s],
         x.tag = "exit" =>
            /\ mpc \in {"write", "over"}
            /\ tool # "none" => \A s \in Streams : copied[s] = printed[s]
            /\ x.part = "body" => IF tool = "none" THEN x.n \in {126, 127} ELSE x.n = code
  PROVE  Flowing'
<1>1. /\ NetTypes /\ Flowing /\ InFlight \in Seq(Piece)
      /\ q["wDown"] \in Seq(Piece) /\ q["dDown"] \in Seq(Piece)
      /\ q'["dDown"] = Append(q["dDown"], x) /\ q'["wDown"] = q["wDown"]
      /\ ~Broken("dDown")
  BY InFlightIsSeq DEF FlowInv, TypeOK, NetTypes, Push, Pipes, CanWrite
<1>2. (Broken("wDown")' <=> Broken("wDown")) /\ (Linked' <=> ~Broken("wDown"))
      /\ (Linked <=> ~Broken("wDown"))
  BY <1>1 DEF Broken, Linked
<1>3. ASSUME tool # "none", NEW s \in Streams
      PROVE  /\ Numbered(InFlight, s, Len(rendered[s]), copied[s], printed[s], Linked)
             /\ copied[s] \in Nat
  BY <1>1, <1>3 DEF Flowing, FlowInv, TypeOK, ToolTypes
<1>4. CASE Broken("wDown")
  <2>1. InFlight' = InFlight /\ ~Linked'
    BY <1>1, <1>2, <1>4 DEF InFlight
  <2>2. Framed(InFlight', srd') /\ ExitPieces'
    BY <1>1, <2>1 DEF Flowing, ExitPieces
  <2>3. ASSUME tool # "none", NEW s \in Streams
        PROVE  Numbered(InFlight', s, Len(rendered'[s]), copied'[s], printed'[s], Linked')
    <3>1. copied'[s] \in {copied[s], copied[s] + 1}
      BY <2>3
    <3>2. Numbered(InFlight, s, Len(rendered[s]), copied'[s], printed[s], FALSE)
      BY <1>1, <1>3, <2>3, <3>1, NumberedGrows
    <3>3. Linked' = FALSE
      BY <2>1, LinkedIsBoolean
    <3> QED
      BY <2>1, <3>2, <3>3
  <2> QED
    BY <2>1, <2>2, <2>3 DEF Flowing
<1>5. CASE ~Broken("wDown")
  <2>1. InFlight' = Append(InFlight, x)
    <3>1. InFlight = q["wDown"] \o q["dDown"] /\ InFlight' = q["wDown"] \o Append(q["dDown"], x)
      BY <1>1, <1>2, <1>5 DEF InFlight
    <3>2. q["wDown"] \o Append(q["dDown"], x) = Append(q["wDown"] \o q["dDown"], x)
      BY <1>1, JoinedAppend
    <3> QED
      BY <3>1, <3>2
  <2>2. Awaited(InFlight, srd, Len(InFlight)) = Pending /\ Framed(InFlight, srd)
    BY <1>1, <1>2, <1>5 DEF Flowing
  <2>3. Framed(InFlight', srd') /\ Awaited(InFlight', srd', Len(InFlight')) = Pending'
    BY <1>1, <2>1, <2>2, AppendFramed
  <2>4. ExitPieces'
    <3>1. \A i \in 1..Len(InFlight') :
             (i \in 1..Len(InFlight) /\ InFlight'[i] = InFlight[i]) \/ InFlight'[i] = x
      BY <1>1, <2>1, AppendProperties
    <3> QED
      BY <1>1, <3>1 DEF Flowing, ExitPieces
  <2>5. ASSUME tool # "none", NEW s \in Streams
        PROVE  Numbered(InFlight', s, Len(rendered'[s]), copied'[s], printed'[s], Linked')
    <3>1. Numbered(InFlight, s, Len(rendered[s]), copied[s], printed[s], TRUE)
      <4>1. Linked = TRUE
        BY <1>2, <1>5, LinkedIsBoolean
      <4> QED
        BY <1>3, <2>5, <4>1
    <3>2. /\ copied'[s] \in {copied[s], copied[s] + 1}
          /\ IF x.part = "body" /\ x.tag = s THEN copied'[s] = copied[s] + 1 /\ x.n = copied'[s]
                                             ELSE copied'[s] = copied[s]
      BY <2>5
    <3>3. x.tag = "exit" => copied'[s] = printed[s]
      BY <2>5, <3>2 DEF Streams
    <3> HIDE DEF FlowInv
    <3>4. Numbered(Append(InFlight, x), s, Len(rendered[s]), copied'[s], printed[s], Linked')
      BY <1>1, <1>3, <2>5, <3>1, <3>2, <3>3, AppendNumbered
    <3> QED
      BY <2>1, <3>4
  <2> QED
    BY <2>3, <2>4, <2>5 DEF Flowing
<1> QED
  BY <1>4, <1>5

LEMMA ServeFlow == FlowInv /\ NetTypes' /\ Serve => Flowing' /\ Answered'
<1> SUFFICES ASSUME FlowInv, NetTypes', Serve PROVE Flowing' /\ Answered'
  OBVIOUS
<1>a. /\ TypeOK /\ NetTypes /\ ServeTypes /\ ToolTypes /\ Flowing /\ Answered
      /\ EndsOpen /\ Emptied /\ Stages /\ Fresh /\ Serving /\ Copying /\ Reports
      /\ {"wUp", "wDown", "dUp", "dDown"} = Pipes
      /\ InFlight \in Seq(Piece) /\ q["wDown"] \in Seq(Piece) /\ q["dDown"] \in Seq(Piece)
  BY InFlightIsSeq DEF FlowInv, TypeOK, Control, Pipes
<1> USE DEF toolVars, relayVars, netVars, shimVars
<1>1. ASSUME NEW c \in {126, 127}, ServeRefuses(c) PROVE Flowing' /\ Answered'
  <2>1. /\ UNCHANGED <<open, cut, lock>> /\ q'["wDown"] = q["wDown"] /\ q'["dDown"] = q["dDown"]
        /\ lock = None
    BY <1>1, <1>a, PopKeeps DEF ServeRefuses, Fresh
  <2>2. InFlight' = InFlight /\ (Linked' <=> Linked) /\ Pending' = Pending
    BY <2>1, NoneIsNothing DEF InFlight, Linked, Pending, Broken
  <2>3. Flowing'
    BY <1>1, <1>a, <2>2, BeginsItself, FlowKept DEF ServeRefuses
  <2>4. Answered'
    BY <1>1, <1>a, AnsweredKept DEF ServeRefuses
  <2> QED
    BY <2>3, <2>4
<1>2. CASE ServeStarts
  <2>1. /\ UNCHANGED <<open, cut, lock, todo>> /\ q'["wDown"] = q["wDown"] /\ q'["dDown"] = q["dDown"]
        /\ q["wDown"] = <<>> /\ q["dDown"] = <<>> /\ srd = None /\ lock = None
        /\ copied = Zero /\ printed = Zero /\ rendered = Nothing
        /\ UNCHANGED <<srd, copied, printed, rendered, spc, status>>
    BY <1>2, <1>a, PopKeeps DEF ServeStarts, Fresh
  <2>2. InFlight' = <<>> /\ Pending' = None
    BY <2>1, ConcatEmptySeq, NoneIsNothing DEF InFlight, Pending
  <2>3. Framed(InFlight', srd') /\ ExitPieces' /\ Awaited(InFlight', srd', Len(InFlight')) = Pending'
    BY <2>1, <2>2 DEF Framed, ExitPieces, Awaited
  <2>4. ASSUME NEW s \in Streams
        PROVE  Numbered(InFlight', s, Len(rendered'[s]), copied'[s], printed'[s], Linked')
    <3>1. Len(rendered'[s]) = 0 /\ copied'[s] = 0
      BY <2>1 DEF Nothing, Zero
    <3> QED
      BY <2>2, <3>1, NumberedEmpty
  <2>5. Answered'
    BY <1>a, <2>1, NoneIsNothing DEF Answered, Rendered, Told, Nothing, Tags
  <2> QED
    BY <2>3, <2>4, <2>5 DEF Flowing
<1>3. CASE ServeNoHeader \/ ServeCloses
  <2>1. /\ "serve" \notin open' /\ q'["wDown"] = q["wDown"] /\ q'["dDown"] = q["dDown"]
        /\ open' = open \ {"serve"} /\ cut' = cut
    BY <1>3, <1>a, CloseEmpties DEF ServeNoHeader, ServeCloses, ServeReturns, Close, Reader
  <2>2. InFlight' = InFlight /\ ~Linked'
    BY <2>1, WhenBroken DEF InFlight, Linked
  <2>3. Flowing'
    BY <1>3, <1>a, <2>2, BeginsItself, FlowKept DEF ServeNoHeader, ServeCloses, ServeReturns
  <2>4. Answered'
    BY <1>3, <1>a, AnsweredKept DEF ServeNoHeader, ServeCloses, ServeReturns
  <2> QED
    BY <2>3, <2>4
<1>4. CASE ServeWaits
  <2>1. PICK c : ServeReports(c)
    BY <1>4 DEF ServeWaits
  <2>2. InFlight' = InFlight /\ (Linked' <=> Linked) /\ lock' = lock /\ lock # "main"
    BY <1>a, <2>1 DEF ServeReports, InFlight, Linked, Broken, Serving
  <2>3. Pending' = Pending
    BY <2>2 DEF Pending
  <2>4. Flowing'
    BY <1>a, <2>1, <2>2, <2>3, BeginsItself, FlowKept DEF ServeReports
  <2>5. Answered'
    BY <1>a, <2>1, AnsweredKept DEF ServeReports
  <2> QED
    BY <2>4, <2>5
<1>5. CASE ServeFrame
  <2> DEFINE t == Head(todo)[1]
             k == Head(todo)[2]
  <2>1. /\ todo \in Seq({"stderr", "exit"} \X Int) /\ todo # <<>> /\ Head(todo) = todo[1]
        /\ 1 \in 1..Len(todo) /\ t \in {"stderr", "exit"} /\ k \in Int
    <3>1. Head(todo) \in {"stderr", "exit"} \X Int
      BY <1>5, <1>a, HeadTailProperties DEF ServeFrame, ServeTypes
    <3> QED
      BY <1>5, <1>a, <3>1, EmptySeq DEF ServeFrame, ServeTypes
  <2>2. /\ UNCHANGED <<open, cut, srd, rendered, mpc, tool, code, printed, copied, spc, status>>
        /\ mpc = "write"
    BY <1>5 DEF ServeFrame
  <2>3. Answered'
    BY <1>a, <2>2, AnsweredKept
  <2>4. ~Broken("dDown") =>
          /\ tool # "none" => t = "exit" /\ \A s \in Streams : copied[s] = printed[s]
          /\ t = "exit" => IF tool = "none" THEN k \in {126, 127} ELSE k = code
    <3>1. /\ tool # "none" => t = "exit"
          /\ t = "exit" => IF tool = "none" THEN k \in {126, 127} ELSE k = code \/ Broken("dDown")
      BY <1>a, <2>1 DEF Reports
    <3>2. ~Broken("dDown") /\ tool # "none" => \A s \in Streams : copied[s] = printed[s]
      BY <1>a, <2>2 DEF Serving, CopiersReturned, Copying
    <3> QED
      BY <3>1, <3>2
  <2>5. CASE WriteHead("main", t) /\ todo' = todo
    <3>1. /\ CanWrite("dDown") /\ Push("dDown", HeadOf(t)) /\ Pending = None /\ Pending' = t
          /\ ~Broken("dDown")
      BY <2>5, NoneIsNothing DEF WriteHead, Pending, CanWrite
    <3>2. HeadOf(t) \in Piece /\ HeadOf(t).part = "head" /\ HeadOf(t).tag = t
      BY <2>1 DEF HeadOf, Piece, Tags, Streams
    <3>3. Flowing'
      BY <2>1, <2>2, <2>4, <3>1, <3>2, ServeWrites DEF Streams
    <3> QED
      BY <2>3, <3>3
  <2>6. CASE WriteBody("main", t, k) /\ todo' = Tail(todo)
    <3>1. /\ CanWrite("dDown") /\ Push("dDown", BodyOf(t, k)) /\ Pending = t /\ Pending' = None
          /\ ~Broken("dDown") /\ t # None
      BY <2>1, <2>6, NoneIsNothing DEF WriteBody, Pending, CanWrite, Tags, Streams
    <3>2. BodyOf(t, k) \in Piece /\ BodyOf(t, k).part = "body" /\ BodyOf(t, k).tag = t /\ BodyOf(t, k).n = k
      BY <2>1 DEF BodyOf, Piece, Tags, Streams
    <3>3. Flowing'
      BY <2>1, <2>2, <2>4, <3>1, <3>2, ServeWrites DEF Streams
    <3> QED
      BY <2>3, <3>3
  <2>7. CASE WriteFails("main")
    <3>1. q' = q /\ ~Linked' /\ InFlight' = InFlight
      BY <2>2, <2>7, WhenBroken DEF WriteFails, Linked, InFlight
    <3>2. Flowing'
      BY <1>a, <2>2, <3>1, BeginsItself, FlowKept
    <3> QED
      BY <2>3, <3>2
  <2> QED
    BY <1>5, <2>5, <2>6, <2>7 DEF ServeFrame
<1> QED
  BY <1>1, <1>2, <1>3, <1>4, <1>5 DEF Serve

LEMMA ToolFlow ==
  FlowInv /\ NetTypes'
    /\ (Stdin \/ ToolReads \/ Exits \/ \E s \in Streams : Copier(s) \/ ToolPrints(s))
  => Flowing' /\ Answered'
<1> SUFFICES ASSUME FlowInv, NetTypes',
                    Stdin \/ ToolReads \/ Exits \/ \E s \in Streams : Copier(s) \/ ToolPrints(s)
             PROVE  Flowing' /\ Answered'
  OBVIOUS
<1>a. /\ TypeOK /\ NetTypes /\ ServeTypes /\ ToolTypes /\ Flowing /\ Answered
      /\ Emptied /\ Fresh /\ Serving /\ Copying
      /\ {"wUp", "wDown", "dUp", "dDown"} = Pipes
      /\ InFlight \in Seq(Piece)
  BY InFlightIsSeq DEF FlowInv, TypeOK, Control, Pipes
<1> USE DEF relayVars, netVars, shimVars, mainVars
<1>1. CASE Stdin \/ ToolReads \/ Exits \/ \E s \in Streams : ToolPrints(s)
  <2>1. /\ UNCHANGED <<open, cut, lock, todo, srd, rendered, copied, spc, status, mpc>>
        /\ q'["wDown"] = q["wDown"] /\ q'["dDown"] = q["dDown"]
    BY <1>1, <1>a DEF Stdin, StdinChunk, StdinEnds, Pop, NetTypes, ToolReads, Exits, ToolExits, ToolPrints
  <2>2. UNCHANGED <<tool, code, printed>> \/ (mpc = "wait" /\ tool # "none" /\ tool' # "none")
    BY <1>1, <1>a DEF Stdin, StdinChunk, StdinEnds, ToolReads, Exits, ToolExits, ToolPrints, Serving
  <2> QED
    BY <1>a, <2>1, <2>2, FlightKept, BeginsItself, FlowKept, AnsweredKept
<1>2. ASSUME NEW s \in Streams, Copier(s) PROVE Flowing' /\ Answered'
  <2>1. /\ UNCHANGED <<open, cut, todo, srd, rendered, spc, status, mpc, tool, code, printed>>
        /\ s \in Tags /\ s # "exit" /\ s # "main" /\ s # None /\ copied[s] \in Nat
        /\ copied \in [Streams -> Nat]
    BY <1>2, <1>a, NoneIsNothing DEF Copier, ToolTypes, Streams, Tags
  <2>2. Answered'
    BY <1>a, <2>1, AnsweredKept
  <2>3. CASE WriteHead(s, s) /\ UNCHANGED copied
    <3>1. /\ CanWrite("dDown") /\ Push("dDown", HeadOf(s)) /\ Pending = None /\ Pending' = s
      BY <2>1, <2>3, NoneIsNothing DEF WriteHead, Pending
    <3>2. HeadOf(s) \in Piece /\ HeadOf(s).part = "head" /\ HeadOf(s).tag = s
      BY <2>1 DEF HeadOf, Piece
    <3>3. Flowing'
      BY <2>1, <2>3, <3>1, <3>2, ServeWrites
    <3> QED
      BY <2>2, <3>3
  <2>4. CASE WriteBody(s, s, copied[s] + 1) /\ copied' = [copied EXCEPT ![s] = @ + 1]
    <3>1. /\ CanWrite("dDown") /\ Push("dDown", BodyOf(s, copied[s] + 1)) /\ Pending = s /\ Pending' = None
      BY <2>1, <2>4, NoneIsNothing DEF WriteBody, Pending
    <3>2. /\ BodyOf(s, copied[s] + 1) \in Piece /\ BodyOf(s, copied[s] + 1).part = "body"
          /\ BodyOf(s, copied[s] + 1).tag = s /\ BodyOf(s, copied[s] + 1).n = copied[s] + 1
      BY <2>1 DEF BodyOf, Piece
    <3>3. \A r \in Streams : IF r = s THEN copied'[r] = copied[r] + 1 ELSE copied'[r] = copied[r]
      BY <2>1, <2>4
    <3>4. Flowing'
      BY <2>1, <3>1, <3>2, <3>3, ServeWrites
    <3> QED
      BY <2>2, <3>4
  <2>5. CASE WriteFails(s) /\ UNCHANGED copied
    <3>1. q' = q /\ ~Linked' /\ InFlight' = InFlight
      BY <2>1, <2>5, WhenBroken DEF WriteFails, Linked, InFlight
    <3>2. Flowing'
      BY <1>a, <2>1, <2>5, <3>1, BeginsItself, FlowKept
    <3> QED
      BY <2>2, <3>2
  <2>6. CASE UNCHANGED <<copied, q, lock>>
    BY <1>a, <2>1, <2>2, <2>6, FlightKept, BeginsItself, FlowKept
  <2> QED
    BY <1>2, <2>3, <2>4, <2>5, <2>6 DEF Copier
<1> QED
  BY <1>1, <1>2

LEMMA NextFlow == FlowInv /\ [Next]_vars => FlowInv'
<1> SUFFICES ASSUME FlowInv, [Next]_vars PROVE FlowInv'
  OBVIOUS
<1>1. TypeOK /\ TypeOK' /\ NetTypes' /\ Control /\ Framed(q["wDown"], srd)
  BY NextTypes, ShimsIsFramed DEF FlowInv, TypeOK
<1>2. CASE UNCHANGED vars
  <2> USE DEF vars, serveVars, mainVars, toolVars, relayVars, netVars, shimVars
  <2>1. Control'
    BY <1>1, <1>2, ControlKept DEF Control, Emptied
  <2>2. InFlight \in Seq(Piece)
    BY <1>1, InFlightIsSeq DEF TypeOK
  <2>3. Flowing' /\ Answered'
    BY <1>1, <1>2, <2>2, FlightKept, BeginsItself, FlowKept, AnsweredKept DEF FlowInv
  <2> QED
    BY <1>1, <2>1, <2>3 DEF FlowInv
<1>3. CASE Next
  <2>1. Control'
    BY <1>1, <1>3, ContainerControl, LinkControl, ServeControl, ToolControl DEF Next
  <2>2. Flowing' /\ Answered'
    BY <1>1, <1>3, ContainerFlow, LinkFlow, ServeFlow, ToolFlow DEF Next
  <2> QED
    BY <1>1, <2>1, <2>2 DEF FlowInv
<1> QED
  BY <1>2, <1>3

LEMMA Flows == Spec => []FlowInv
<1>1. Init => FlowInv
  BY InitTypes, InitControl, InitFlow DEF FlowInv
<1> QED
  BY <1>1, NextFlow, PTL DEF Spec

\* What the shim wrote out is, for each stream, the first chunks of what the tool printed there,
\* and all of them when an exit code came back: frames of three writers on one connection, relayed
\* and cut at any point, are never mixed up, reordered or dropped in the middle.
THEOREM OutputIsFaithful == Spec => []OutputIsTheTools
<1>1. FlowInv => OutputIsTheTools
  <2> SUFFICES ASSUME FlowInv, tool # "none", NEW s \in Streams
               PROVE  /\ \E k \in 0..printed[s] : rendered[s] = Prefix(s, k)
                      /\ spc = "returned" /\ srd = "exit" => Len(rendered[s]) = printed[s]
    BY DEF OutputIsTheTools
  <2>1. /\ Len(rendered[s]) \in 0..copied[s] /\ copied[s] \in Nat /\ copied[s] <= printed[s]
        /\ printed[s] \in Nat /\ rendered[s] \in Seq(Piece)
    BY ReadIsCopied DEF FlowInv, Control, Copying, TypeOK, ToolTypes, ShimTypes
  <2>2. /\ \A i \in 1..Len(rendered[s]) : rendered[s][i] = BodyOf(s, i)
        /\ srd = "exit" => Len(rendered[s]) = printed[s]
    BY DEF FlowInv, Answered, Rendered
  <2>3. rendered[s] = Prefix(s, Len(rendered[s]))
    BY <2>1, <2>2, LenProperties DEF Prefix
  <2>4. Len(rendered[s]) \in 0..printed[s]
    BY <2>1
  <2> QED
    BY <2>2, <2>3, <2>4
<1> QED
  BY <1>1, Flows, PTL

\* A code that came back is the tool's own low byte, or the refusal of a command that did not
\* run: a tool that a signal ended, or whose output was lost, never comes back as success.
THEOREM StatusIsFaithful == Spec => []StatusIsTheTools
<1>1. FlowInv => StatusIsTheTools
  BY DEF FlowInv, Answered, Told, StatusIsTheTools
<1> QED
  BY <1>1, Flows, PTL

-----------------------------------------------------------------------------
(* Secrets. *)

\* What "op read" printed before it succeeded is on record, and what is cached was printed so.
Recorded ==
    /\ tool = "exited" /\ code = 0 /\ cur # None => printed["stdout"] \in okPrints[refOf[cur]]
    /\ \A r \in Refs : cache[r] # None => \E k \in okPrints[r] : cache[r] = Prefix("stdout", k)

SecretInv == FlowInv /\ OpInv /\ Recorded

\* A call that reports success has brought the whole of what was read.
LEMMA SuccessIsWhole ==
  ASSUME SecretInv, spc = "returned", kind # "plain", status = 0
  PROVE  /\ cur \in Vars /\ refOf[cur] \in Refs
         /\ \E k \in okPrints[refOf[cur]] : rendered["stdout"] = Prefix("stdout", k)
<1>1. TypeOK /\ FlowInv /\ Told /\ Rendered /\ cur \in Vars
  BY DEF SecretInv, FlowInv, OpInv, Reading, InCall, Answered
<1>2. srd = "exit" /\ tool = "exited" /\ code % 256 = 0
  BY <1>1 DEF Told
<1>3. code \in -1..255
  BY <1>1, <1>2, BoundAssumption DEF TypeOK, ToolTypes
<1>4. code = 0
  BY <1>2, <1>3
<1>5. cur # None
  BY <1>1, BoundAssumption
<1>6. printed["stdout"] \in okPrints[refOf[cur]]
  BY <1>2, <1>4, <1>5 DEF SecretInv, Recorded
<1>7. /\ rendered["stdout"] \in Seq(Piece) /\ Len(rendered["stdout"]) = printed["stdout"]
      /\ \A i \in 1..Len(rendered["stdout"]) : rendered["stdout"][i] = BodyOf("stdout", i)
  BY <1>1, <1>2 DEF Rendered, TypeOK, ShimTypes, Streams
<1>8. rendered["stdout"] = Prefix("stdout", printed["stdout"])
  BY <1>7, LenProperties DEF Prefix
<1>9. refOf[cur] \in Refs
  BY <1>1, BoundAssumption DEF TypeOK, Invocation, refOf
<1> QED
  BY <1>1, <1>6, <1>8, <1>9

LEMMA NextRecorded == SecretInv /\ [Next]_vars => Recorded'
<1> SUFFICES ASSUME SecretInv, [Next]_vars PROVE Recorded'
  OBVIOUS
<1> USE DEF refOf
<1>a. /\ TypeOK /\ ToolTypes /\ OpTypes /\ Recorded /\ Serving /\ Fresh /\ refOf \in [Vars -> Refs]
  BY BoundAssumption DEF SecretInv, FlowInv, TypeOK, Control, Invocation
\* The tool has not exited, or stays as it was; nothing is cached.
<1>b. ASSUME UNCHANGED <<job, cache, okPrints>>,
             cur' = None \/ tool' # "exited" \/ UNCHANGED <<cur, tool, code, printed>>
      PROVE  Recorded'
  BY <1>a, <1>b DEF Recorded
<1>1. CASE Container \/ ShimKilled
  <2> USE DEF serveVars, toolVars, opVars
  <2>1. CASE AfterCall
    <3>1. CASE kind # "plain" /\ status = 0
      <4>1. /\ cur \in Vars /\ refOf[cur] \in Refs
            /\ \E k \in okPrints[refOf[cur]] : rendered["stdout"] = Prefix("stdout", k)
        BY <2>1, <3>1, SuccessIsWhole DEF AfterCall
      <4>2. /\ cache' = [cache EXCEPT ![refOf[cur]] = rendered["stdout"]]
            /\ cur' = None /\ UNCHANGED <<job, okPrints>>
        BY <2>1, <3>1 DEF AfterCall
      <4> QED
        BY <1>a, <4>1, <4>2 DEF Recorded, OpTypes
    <3>2. CASE ~(kind # "plain" /\ status = 0)
      <4>1. UNCHANGED <<job, cache, okPrints>> /\ cur' = None
        BY <2>1, <3>2 DEF AfterCall
      <4> QED
        BY <1>b, <4>1
    <3> QED
      BY <3>1, <3>2
  <2>2. ASSUME NEW v \in Vars, ReadsRef(v)
        PROVE  UNCHANGED <<job, cache, okPrints>> /\ tool' # "exited"
    BY <2>2 DEF ReadsRef, StartsRead
  <2>3. ASSUME NEW v \in Vars, FromCache(v)
        PROVE  UNCHANGED <<job, cache, okPrints, cur, tool, code, printed>>
    BY <2>3 DEF FromCache
  <2>4. ASSUME ShimDials \/ DialFails \/ ShimHeader \/ ShimReadsTag \/ ShimReadsBody
                 \/ LinkClosed \/ ShimKilled \/ Completes
        PROVE  UNCHANGED <<job, cache, okPrints, cur, tool, code, printed>>
    BY <2>4 DEF ShimDials, DialFails, ShimHeader, ShimReadsTag, ShimReadsBody, LinkClosed, ShimKilled,
                Completes
  <2> QED
    BY <1>1, <1>b, <2>1, <2>2, <2>3, <2>4 DEF Container
<1>2. CASE Exits
  <2>1. PICK c \in Codes : ToolExits(c)
    BY <1>2 DEF Exits
  <2>2. /\ UNCHANGED <<job, cache, cur, printed>> /\ code' = c
        /\ okPrints' = IF cur = None \/ c # 0 THEN okPrints
                       ELSE [okPrints EXCEPT ![refOf[cur]] = @ \cup {printed["stdout"]}]
    BY <2>1 DEF ToolExits, opVars
  <2>3. \A r \in Refs : okPrints[r] \subseteq okPrints'[r]
    BY <1>a, <2>2 DEF ToolTypes
  <2>4. cur # None /\ c = 0 => printed["stdout"] \in okPrints'[refOf[cur]]
    BY <1>a, <2>2 DEF ToolTypes, OpTypes
  <2> QED
    BY <1>a, <2>2, <2>3, <2>4 DEF Recorded
<1>3. CASE ServeStarts \/ \E s \in Streams : ToolPrints(s)
  BY <1>3, <1>a, <1>b DEF ServeStarts, ToolPrints, opVars
<1>4. CASE \/ Pump \/ RelayDials \/ RelayCloses
           \/ \E d \in {"up", "down"} : RelayCopies(d) \/ RelayEnds(d)
           \/ \E h \in {"w", "d"} : Cut(h)
  <2>1. UNCHANGED <<job, cache, okPrints, cur, tool, code, printed>>
    BY <1>4 DEF Pump, PumpSends, PumpSendsEOF, RelayDials, RelayCloses, RelayCopies, RelayEnds, Cut,
                opVars, serveVars, toolVars
  <2> QED
    BY <1>b, <2>1
<1>5. CASE (Serve /\ ~ServeStarts) \/ Stdin \/ ToolReads \/ \E s \in Streams : Copier(s)
  <2>1. UNCHANGED <<job, cache, okPrints, cur, tool, code, printed>>
    BY <1>5 DEF Serve, ServeRefuses, ServeNoHeader, ServeWaits, ServeReports, ServeFrame, ServeCloses,
                Stdin, StdinChunk, StdinEnds, ToolReads, Copier, opVars, toolVars
  <2> QED
    BY <1>b, <2>1
<1>6. CASE UNCHANGED vars
  BY <1>6, <1>b DEF vars, opVars, serveVars, toolVars
<1> QED
  BY <1>1, <1>2, <1>3, <1>4, <1>5, <1>6 DEF Next, Serve

\* op run starts its command, and op inject writes its file, only with all of what a successful
\* "op read" printed in place of each reference: a read that was cut short, refused, killed or
\* failed is never taken for a secret.
THEOREM SecretsComeWhole == Spec => []SecretsAreWhole
<1>1. Init => Recorded
  BY DEF Init, Recorded
<1>2. SecretInv => SecretsAreWhole
  <2>1. ASSUME SecretInv, NEW v \in Vars, ran
        PROVE  \E k \in okPrints[refOf[v]] : env[v] = Prefix("stdout", k)
    <3>1. env[v] # None /\ env[v] = cache[refOf[v]]
      BY <2>1 DEF SecretInv, OpInv, Resolved, Cached
    <3>2. refOf[v] \in Refs
      BY <2>1, BoundAssumption DEF SecretInv, FlowInv, TypeOK, Invocation, refOf
    <3> QED
      BY <2>1, <3>1, <3>2 DEF SecretInv, Recorded
  <2> QED
    BY <2>1 DEF SecretsAreWhole
<1>3. Spec => []Recorded
  <2>1. Recorded /\ FlowInv /\ IInv /\ [Next]_vars => Recorded'
    BY NextRecorded DEF SecretInv, IInv
  <2> QED
    BY <1>1, <2>1, Flows, Inductive, PTL DEF Spec
<1>4. FlowInv /\ IInv /\ Recorded => SecretInv
  BY DEF SecretInv, IInv
<1> QED
  BY <1>2, <1>3, <1>4, Flows, Inductive, PTL

-----------------------------------------------------------------------------
(* The end of the input. *)

\* The relay ends when a connection does.
RelayEnded ==
    rdone # {} \/ rpc = "over" => cut # {} \/ "shim" \notin open \/ mpc \in {"off", "over"}

\* STDIN_EOF is sent once, after the last chunk.
EOFLast ==
    \A p \in {"wUp", "dUp"} : \A i \in 1..Len(q[p]) :
       q[p][i].tag = "stdinEOF" => sent = job.inputs

InputInv == RelayEnded /\ EOFLast /\ InputEndsLate

\* What a pipe holds after it was written, read or closed was there, or was written.
LEMMA PipeKeeps ==
  ASSUME NetTypes, NEW p \in Pipes
  PROVE  /\ \A x \in Piece : \A i \in 1..Len(Append(q[p], x)) :
              Append(q[p], x)[i] = x \/ \E j \in 1..Len(q[p]) : Append(q[p], x)[i] = q[p][j]
         /\ q[p] # <<>> =>
              /\ \A i \in 1..Len(Tail(q[p])) : \E j \in 1..Len(q[p]) : Tail(q[p])[i] = q[p][j]
              /\ 1 \in 1..Len(q[p]) /\ Head(q[p]) = q[p][1] /\ Head(q[p]) \in Piece
<1>1. q[p] \in Seq(Piece) /\ Len(q[p]) \in Nat
  BY DEF NetTypes
<1>2. ASSUME NEW x \in Piece, NEW i \in 1..Len(Append(q[p], x))
      PROVE  Append(q[p], x)[i] = x \/ \E j \in 1..Len(q[p]) : Append(q[p], x)[i] = q[p][j]
  <2>1. /\ Len(Append(q[p], x)) = Len(q[p]) + 1 /\ Append(q[p], x)[Len(q[p]) + 1] = x
        /\ \A j \in 1..Len(q[p]) : Append(q[p], x)[j] = q[p][j]
    BY <1>1, AppendProperties
  <2>2. i \in 1..Len(q[p]) \/ i = Len(q[p]) + 1
    BY <1>1, <2>1
  <2> QED
    BY <2>1, <2>2
<1>3. ASSUME q[p] # <<>>
      PROVE  /\ \A i \in 1..Len(Tail(q[p])) : \E j \in 1..Len(q[p]) : Tail(q[p])[i] = q[p][j]
             /\ 1 \in 1..Len(q[p]) /\ Head(q[p]) = q[p][1] /\ Head(q[p]) \in Piece
  <2>1. /\ Len(Tail(q[p])) = Len(q[p]) - 1 /\ Len(q[p]) # 0 /\ Head(q[p]) \in Piece
        /\ \A i \in 1..Len(Tail(q[p])) : Tail(q[p])[i] = q[p][i + 1]
    BY <1>1, <1>3, HeadTailProperties, EmptySeq
  <2>2. \A i \in 1..Len(Tail(q[p])) : i + 1 \in 1..Len(q[p])
    BY <1>1, <2>1
  <2> QED
    BY <1>1, <2>1, <2>2
<1> QED
  BY <1>2, <1>3

LEMMA NextInput == FlowInv /\ NetTypes' /\ InputInv /\ [Next]_vars => InputInv'
<1> SUFFICES ASSUME FlowInv, NetTypes', InputInv, [Next]_vars PROVE InputInv'
  OBVIOUS
<1>a. /\ TypeOK /\ NetTypes /\ EndsOpen /\ Emptied /\ Stages /\ Fresh /\ Serving
      /\ RelayEnded /\ EOFLast /\ InputEndsLate
      /\ {"wUp", "dUp"} \subseteq Pipes
      /\ sent \in 0..job.inputs /\ job.inputs \in Nat
  BY BoundAssumption DEF FlowInv, TypeOK, ShimTypes, Control, InputInv, Pipes, Invocation
<1> USE DEF serveVars, mainVars, toolVars, relayVars, netVars, shimVars
\* What leaves the three parts of the invariant alone.
<1>b. ASSUME cut \subseteq cut', "shim" \notin open => "shim" \notin open',
             mpc \in {"off", "over"} => mpc' \in {"off", "over"},
             rdone' # {} \/ rpc' = "over" => rdone # {} \/ rpc = "over"
      PROVE  RelayEnded'
  BY <1>a, <1>b DEF RelayEnded
<1>c. ASSUME job' = job, sent = job.inputs => sent' = job.inputs,
             \A p \in {"wUp", "dUp"} : \A i \in 1..Len(q'[p]) :
                \/ q'[p][i].tag = "stdinEOF" => sent' = job.inputs
                \/ \E r \in {"wUp", "dUp"} : \E j \in 1..Len(q[r]) : q'[p][i] = q[r][j]
      PROVE  EOFLast'
  <2>1. ASSUME NEW p \in {"wUp", "dUp"}, NEW i \in 1..Len(q'[p]), q'[p][i].tag = "stdinEOF"
        PROVE  sent' = job.inputs
    <3>1. CASE \E r \in {"wUp", "dUp"} : \E j \in 1..Len(q[r]) : q'[p][i] = q[r][j]
      BY <1>a, <1>c, <2>1, <3>1 DEF EOFLast
    <3> QED
      BY <1>c, <2>1, <3>1
  <2> QED
    BY <1>c, <2>1 DEF EOFLast
<1>d. ASSUME job' = job, sent' = sent,
             \A p \in {"wUp", "dUp"} : q'[p] = q[p] \/ q'[p] = <<>> \/ (CanRead(p) /\ q'[p] = Tail(q[p]))
      PROVE  EOFLast'
  <2>1. ASSUME NEW p \in {"wUp", "dUp"}, NEW i \in 1..Len(q'[p])
        PROVE  \E j \in 1..Len(q[p]) : q'[p][i] = q[p][j]
    <3>1. CASE q'[p] = q[p]
      BY <2>1, <3>1
    <3>2. CASE q'[p] = <<>>
      BY <2>1, <3>2
    <3>3. CASE CanRead(p) /\ q'[p] = Tail(q[p])
      BY <1>a, <2>1, <3>3, PipeKeeps DEF CanRead
    <3> QED
      BY <1>d, <2>1, <3>1, <3>2, <3>3
  <2> QED
    BY <1>c, <1>d, <2>1
<1>e. ASSUME UNCHANGED <<job, sent>>, tool' = tool \/ tool' # "running",
             tinOpen' = tinOpen \/ tinOpen' = TRUE,
             cut \subseteq cut', "shim" \notin open => "shim" \notin open'
      PROVE  InputEndsLate'
  BY <1>a, <1>e DEF InputEndsLate
<1>1. CASE Container \/ ShimKilled
  <2>1. ASSUME NEW v \in Vars, ReadsRef(v) PROVE InputInv'
    <3>1. q' = NoPieces /\ rpc' = "off" /\ rdone' = {} /\ tool' = "none"
      BY <2>1 DEF ReadsRef, StartsRead
    <3>2. EOFLast'
      BY <1>a, <3>1 DEF EOFLast, NoPieces
    <3> QED
      BY <3>1, <3>2 DEF InputInv, RelayEnded, InputEndsLate
  <2>2. CASE ShimDials
    <3>1. rpc' = "dial" /\ rdone' = {} /\ UNCHANGED <<job, sent, q, tool>> /\ tool = "none"
      BY <2>2, <1>a DEF ShimDials, Stages, Fresh
    <3> QED
      BY <1>d, <3>1 DEF InputInv, RelayEnded, InputEndsLate
  <2>3. ASSUME UNCHANGED <<job, sent, relayVars, serveVars>>, cut \subseteq cut',
               "shim" \notin open => "shim" \notin open',
               \A p \in {"wUp", "dUp"} : q'[p] = q[p] \/ q'[p] = <<>>
        PROVE  InputInv'
    BY <1>b, <1>d, <1>e, <2>3 DEF InputInv
  <2>4. ASSUME NEW c, Returns(c) \/ (ShimKilled /\ c = 0)
        PROVE  /\ "shim" \notin open'
               /\ \A p \in {"wUp", "dUp"} : q'[p] = q[p] \/ q'[p] = <<>>
    BY <1>a, <2>4, CloseEmpties DEF Returns, ShimKilled, Close
  <2>5. CASE DialFails \/ LinkClosed
    BY <2>3, <2>4, <2>5 DEF DialFails, LinkClosed
  <2>6. CASE ShimKilled
    <3>1. /\ UNCHANGED <<job, sent, relayVars, serveVars>> /\ cut \subseteq cut'
          /\ "shim" \notin open'
          /\ \A p \in {"wUp", "dUp"} : q'[p] = q[p] \/ q'[p] = <<>>
      BY <2>4, <2>6 DEF ShimKilled
    <3> QED
      BY <2>3, <3>1
  <2>7. CASE ShimHeader
    <3>1. CASE Broken("wUp")
      BY <2>3, <2>4, <2>7, <3>1 DEF ShimHeader
    <3>2. CASE ~Broken("wUp")
      <4>1. /\ q'["wUp"] = Append(q["wUp"], Whole("header")) /\ q'["dUp"] = q["dUp"]
            /\ UNCHANGED <<job, sent, open, cut, relayVars, serveVars>>
        BY <1>a, <2>7, <3>2, PushKeeps DEF ShimHeader
      <4>2. Whole("header") \in Piece /\ Whole("header").tag = "header"
        BY DEF Whole, Piece, Tags
      <4>3. ASSUME NEW i \in 1..Len(q'["wUp"])
            PROVE  q'["wUp"][i] = Whole("header") \/ \E j \in 1..Len(q["wUp"]) : q'["wUp"][i] = q["wUp"][j]
        BY <1>a, <4>1, <4>2, PipeKeeps
      <4>4. EOFLast'
        BY <1>c, <4>1, <4>2, <4>3
      <4> QED
        BY <1>b, <1>e, <4>1, <4>4 DEF InputInv
    <3> QED
      BY <3>1, <3>2
  <2>8. CASE ShimReadsTag
    <3>1. /\ UNCHANGED <<job, sent, open, cut, relayVars, serveVars>>
          /\ q'["wUp"] = q["wUp"] /\ q'["dUp"] = q["dUp"]
      BY <1>a, <2>8, PopKeeps DEF ShimReadsTag, Pop, NetTypes
    <3> QED
      BY <2>3, <3>1
  <2>9. CASE ShimReadsBody
    <3>1. CASE srd = "exit"
      BY <2>3, <2>4, <2>9, <3>1 DEF ShimReadsBody
    <3>2. CASE srd # "exit"
      <4>1. /\ UNCHANGED <<job, sent, open, cut, relayVars, serveVars>>
            /\ q'["wUp"] = q["wUp"] /\ q'["dUp"] = q["dUp"]
        BY <1>a, <2>9, <3>2 DEF ShimReadsBody, Pop, NetTypes
      <4> QED
        BY <2>3, <4>1
    <3> QED
      BY <3>1, <3>2
  <2>10. CASE (\E v \in Vars : FromCache(v)) \/ AfterCall \/ Completes
    <3>1. UNCHANGED <<job, sent, netVars, relayVars, serveVars>>
      BY <2>10 DEF FromCache, AfterCall, Completes
    <3> QED
      BY <2>3, <3>1
  <2> QED
    BY <1>1, <2>1, <2>2, <2>5, <2>6, <2>7, <2>8, <2>9, <2>10 DEF Container
\* A chunk is written before sent counts up, STDIN_EOF when it is at the end.
<1>2. CASE Pump
  <2>1. ASSUME NEW x \in Piece, Push("wUp", x), CanWrite("wUp"), open' = open
        PROVE  /\ q'["dUp"] = q["dUp"]
               /\ \A i \in 1..Len(q'["wUp"]) :
                     q'["wUp"][i] = x \/ \E j \in 1..Len(q["wUp"]) : q'["wUp"][i] = q["wUp"][j]
    <3>1. q'["dUp"] = q["dUp"] /\ q'["wUp"] = Append(q["wUp"], x)
      BY <1>a, <2>1 DEF Push, NetTypes
    <3> QED
      BY <1>a, <2>1, <3>1, PipeKeeps
  <2>2. /\ Whole("stdin") \in Piece /\ Whole("stdin").tag = "stdin"
        /\ Whole("stdinEOF") \in Piece /\ Whole("stdinEOF").tag = "stdinEOF"
    BY DEF Whole, Piece, Tags
  <2>3. UNCHANGED <<job, open, cut, relayVars, serveVars>>
    BY <1>2 DEF Pump, PumpSends, PumpSendsEOF
  <2>4. CASE PumpSends
    <3>1. /\ sent < job.inputs /\ sent' = sent + 1 /\ CanWrite("wUp") /\ Push("wUp", Whole("stdin"))
      BY <2>4 DEF PumpSends
    <3>2. /\ q'["dUp"] = q["dUp"]
          /\ \A i \in 1..Len(q'["wUp"]) :
                q'["wUp"][i] = Whole("stdin") \/ \E j \in 1..Len(q["wUp"]) : q'["wUp"][i] = q["wUp"][j]
      BY <2>1, <2>2, <2>3, <3>1
    <3>3. EOFLast'
      <4>1. sent # job.inputs
        BY <1>a, <3>1
      <4>2. ASSUME NEW p \in {"wUp", "dUp"}, NEW i \in 1..Len(q'[p])
            PROVE  \/ q'[p][i].tag = "stdin"
                   \/ \E r \in {"wUp", "dUp"} : \E j \in 1..Len(q[r]) : q'[p][i] = q[r][j]
        BY <2>2, <3>2, <4>2
      <4> QED
        BY <1>c, <2>3, <4>1, <4>2
    <3>4. InputEndsLate'
      BY <1>a, <2>3, <3>1 DEF InputEndsLate
    <3> QED
      BY <1>b, <2>3, <3>3, <3>4 DEF InputInv
  <2>5. CASE PumpSendsEOF
    <3>1. sent = job.inputs /\ sent' = sent /\ CanWrite("wUp") /\ Push("wUp", Whole("stdinEOF"))
      BY <2>5 DEF PumpSendsEOF
    <3>2. EOFLast'
      BY <1>c, <2>1, <2>2, <2>3, <3>1
    <3> QED
      BY <1>b, <1>e, <2>3, <3>1, <3>2 DEF InputInv
  <2> QED
    BY <1>2, <2>4, <2>5 DEF Pump
<1>3. CASE RelayDials
  <2>1. rpc = "dial" /\ rdone = {} /\ mpc = "off" /\ tool = "none"
    BY <1>3, <1>a DEF RelayDials, Stages, Fresh
  <2>2. /\ UNCHANGED <<job, sent, cut, rdone, tool>> /\ rpc' = "over" => mpc' = "off"
    BY <1>3, <2>1 DEF RelayDials
  <2>3. \A p \in {"wUp", "dUp"} : q'[p] = q[p] \/ q'[p] = <<>>
    BY <1>3, <1>a, CloseEmpties DEF RelayDials
  <2>4. UNCHANGED <<job, sent>> /\ tool' # "running" /\ rdone' = {} /\ (rpc' = "over" => mpc' = "off")
    BY <1>3, <2>1 DEF RelayDials
  <2>5. EOFLast'
    BY <1>d, <2>3, <2>4
  <2> QED
    BY <2>4, <2>5 DEF InputInv, RelayEnded, InputEndsLate
<1>4. CASE RelayCloses
  <2>1. /\ UNCHANGED <<job, sent, cut, serveVars>> /\ rdone # {}
        /\ "shim" \notin open => "shim" \notin open'
    BY <1>4 DEF RelayCloses, Close
  <2>2. \A p \in {"wUp", "dUp"} : q'[p] = q[p] \/ q'[p] = <<>>
    BY <1>4, <1>a, CloseEmpties DEF RelayCloses
  <2> QED
    BY <1>b, <1>d, <1>e, <2>1, <2>2 DEF InputInv
<1>5. ASSUME NEW d \in {"up", "down"}, RelayCopies(d) PROVE InputInv'
  <2>1. UNCHANGED <<job, sent, open, cut, relayVars, serveVars>>
    BY <1>5 DEF RelayCopies
  <2>2. CASE d = "up"
    <3> DEFINE x == Head(q["wUp"])
    <3>1. /\ q["wUp"] # <<>> /\ q'["wUp"] = Tail(q["wUp"]) /\ q'["dUp"] = Append(q["dUp"], x)
      BY <1>5, <1>a, <2>2 DEF RelayCopies, From, To, NetTypes, CanRead
    <3>2. x \in Piece /\ 1 \in 1..Len(q["wUp"]) /\ x = q["wUp"][1]
      BY <1>a, <3>1, PipeKeeps
    <3>3. ASSUME NEW i \in 1..Len(q'["wUp"])
          PROVE  \E j \in 1..Len(q["wUp"]) : q'["wUp"][i] = q["wUp"][j]
      BY <1>a, <3>1, PipeKeeps
    <3>4. ASSUME NEW i \in 1..Len(q'["dUp"])
          PROVE  q'["dUp"][i] = x \/ \E j \in 1..Len(q["dUp"]) : q'["dUp"][i] = q["dUp"][j]
      BY <1>a, <3>1, <3>2, PipeKeeps
    <3>5. ASSUME NEW p \in {"wUp", "dUp"}, NEW i \in 1..Len(q'[p])
          PROVE  \E r \in {"wUp", "dUp"} : \E j \in 1..Len(q[r]) : q'[p][i] = q[r][j]
      BY <3>2, <3>3, <3>4, <3>5
    <3>6. EOFLast'
      BY <1>c, <2>1, <3>5
    <3> QED
      BY <1>b, <1>e, <2>1, <3>6 DEF InputInv
  <2>3. CASE d = "down"
    <3>1. q'["wUp"] = q["wUp"] /\ q'["dUp"] = q["dUp"]
      BY <1>5, <1>a, <2>3 DEF RelayCopies, From, To, NetTypes
    <3> QED
      BY <1>b, <1>d, <1>e, <2>1, <3>1 DEF InputInv
  <2> QED
    BY <1>5, <2>2, <2>3
\* An io.Copy ends: one of the four ends is closed, or a hop is broken.
<1>6. ASSUME NEW d \in {"up", "down"}, RelayEnds(d) PROVE InputInv'
  <2>1. UNCHANGED <<job, sent, q, open, cut, rpc, serveVars>> /\ rpc = "copy"
    BY <1>6 DEF RelayEnds
  <2>2. Broken(From[d]) \/ Broken(To[d])
    BY <1>6 DEF RelayEnds, ReadEnds
  <2>3. "relayW" \in open /\ "relayD" \in open /\ mpc # "off"
    BY <1>a, <2>1 DEF EndsOpen, Stages
  <2>4. "shim" \notin open \/ "serve" \notin open \/ cut # {}
    <3>1. From[d] \in {"wUp", "dDown"} /\ To[d] \in {"dUp", "wDown"}
      BY <1>6 DEF From, To
    <3> QED
      BY <2>2, <2>3, <3>1, WhenBroken
  <2>5. "serve" \notin open => mpc \in {"off", "over"}
    BY <1>a, <2>3 DEF EndsOpen, FlowInv, TypeOK, ServeTypes
  <2>6. RelayEnded'
    BY <2>1, <2>4, <2>5 DEF RelayEnded
  <2> QED
    BY <1>d, <1>e, <2>1, <2>6 DEF InputInv
<1>7. ASSUME NEW h \in {"w", "d"}, Cut(h) PROVE InputInv'
  <2>1. UNCHANGED <<job, sent, open, relayVars, serveVars>> /\ cut \subseteq cut'
    BY <1>7 DEF Cut
  <2>2. \A p \in {"wUp", "dUp"} : q'[p] = q[p] \/ q'[p] = <<>>
    BY <1>7, <1>a DEF Cut
  <2> QED
    BY <1>b, <1>d, <1>e, <2>1, <2>2 DEF InputInv
<1>8. CASE Serve
  <2>1. UNCHANGED <<job, sent, cut, relayVars>> /\ mpc \in {"header", "wait", "write"}
    BY <1>8 DEF Serve, ServeRefuses, ServeStarts, ServeNoHeader, ServeWaits, ServeReports, ServeFrame,
                ServeCloses
  <2>2. "shim" \notin open => "shim" \notin open'
    BY <1>8 DEF Serve, ServeRefuses, ServeStarts, ServeNoHeader, ServeWaits, ServeReports, ServeFrame,
                ServeCloses, ServeReturns, Close
  <2>3. \A p \in {"wUp", "dUp"} : q'[p] = q[p] \/ q'[p] = <<>> \/ (CanRead(p) /\ q'[p] = Tail(q[p]))
    <3>1. CASE (\E c \in {126, 127} : ServeRefuses(c)) \/ ServeStarts
      BY <3>1, <1>a DEF ServeRefuses, ServeStarts, Pop, NetTypes
    <3>2. CASE ServeNoHeader \/ ServeCloses
      BY <3>2, <1>a, CloseEmpties DEF ServeNoHeader, ServeCloses, ServeReturns
    <3>3. CASE ServeWaits
      BY <3>3 DEF ServeWaits, ServeReports
    <3>4. CASE ServeFrame
      BY <3>4, <1>a DEF ServeFrame, WriteHead, WriteBody, WriteFails, Push, NetTypes
    <3> QED
      BY <1>8, <3>1, <3>2, <3>3, <3>4 DEF Serve
  <2>4. \/ UNCHANGED <<tool, tinOpen>>
        \/ tinOpen' = TRUE
        \/ tool' = tool /\ tool = "exited"
    BY <1>8 DEF Serve, ServeRefuses, ServeStarts, ServeNoHeader, ServeWaits, ServeReports, ServeFrame,
                ServeCloses
  <2>5. InputEndsLate'
    BY <1>a, <2>1, <2>2, <2>4 DEF InputEndsLate
  <2> QED
    BY <1>b, <1>d, <2>1, <2>2, <2>3, <2>5 DEF InputInv
\* The input of a running tool ends by STDIN_EOF, or with the connection.
<1>9. CASE Stdin
  <2>1. UNCHANGED <<job, sent, open, cut, relayVars, mainVars, tool>>
    BY <1>9 DEF Stdin, StdinChunk, StdinEnds
  <2>2. q' = q \/ (CanRead("dUp") /\ Pop("dUp"))
    BY <1>9 DEF Stdin, StdinChunk, StdinEnds
  <2>3. \A p \in {"wUp", "dUp"} : q'[p] = q[p] \/ (CanRead(p) /\ q'[p] = Tail(q[p]))
    BY <1>a, <2>2 DEF Pop, NetTypes
  <2>4. ASSUME tool = "running", sent < job.inputs, StdinEnds
        PROVE  cut # {} \/ "shim" \notin open
    <3>1. CASE CanRead("dUp") /\ Head(q["dUp"]).tag = "stdinEOF"
      <4>1. 1 \in 1..Len(q["dUp"]) /\ Head(q["dUp"]) = q["dUp"][1]
        BY <1>a, <3>1, PipeKeeps DEF CanRead
      <4>2. sent = job.inputs
        BY <1>a, <3>1, <4>1 DEF EOFLast
      <4> QED
        BY <1>a, <2>4, <4>2
    <3>2. CASE ReadEnds("dUp")
      <4>1. mpc = "wait" /\ "serve" \in open
        BY <1>a, <2>4 DEF Serving, EndsOpen
      <4>2. "relayD" \notin open \/ cut # {}
        BY <3>2, <4>1, WhenBroken DEF ReadEnds
      <4>3. rpc = "over" \/ cut # {}
        BY <1>a, <4>1, <4>2 DEF EndsOpen, Stages, FlowInv, TypeOK, NetTypes
      <4> QED
        BY <1>a, <4>1, <4>3 DEF RelayEnded
    <3> QED
      BY <2>4, <3>1, <3>2 DEF StdinEnds
  <2>5. InputEndsLate'
    BY <1>9, <1>a, <2>1, <2>4 DEF Stdin, StdinChunk, InputEndsLate
  <2> QED
    BY <1>b, <1>d, <2>1, <2>3, <2>5 DEF InputInv
<1>10. CASE ToolReads \/ Exits \/ \E s \in Streams : Copier(s) \/ ToolPrints(s)
  <2>1. /\ UNCHANGED <<job, sent, open, cut, relayVars, mpc, tinOpen>>
        /\ tool' = tool \/ tool' = "exited"
    BY <1>10 DEF ToolReads, Exits, ToolExits, Copier, ToolPrints
  <2>2. q'["wUp"] = q["wUp"] /\ q'["dUp"] = q["dUp"]
    BY <1>10, <1>a DEF ToolReads, Exits, ToolExits, Copier, ToolPrints, WriteHead, WriteBody, WriteFails,
                       Push, NetTypes
  <2> QED
    BY <1>b, <1>d, <1>e, <2>1, <2>2 DEF InputInv
<1>11. CASE UNCHANGED vars
  BY <1>11, <1>b, <1>d, <1>e DEF vars, InputInv
<1> QED
  BY <1>1, <1>2, <1>3, <1>4, <1>5, <1>6, <1>7, <1>8, <1>9, <1>10, <1>11 DEF Next

\* A tool that still runs is told the end of its input before all of it was sent only if a
\* connection broke, or the caller went: no chunk is taken for the end, and neither Serve nor the
\* relay ends a connection that both sides still use.
THEOREM InputEndsWithTheCall == Spec => []InputEndsLate
<1>1. Init => InputInv
  BY DEF Init, InputInv, RelayEnded, EOFLast, InputEndsLate, NoPieces, Pipes
<1>2. FlowInv /\ FlowInv' /\ InputInv /\ [Next]_vars => InputInv'
  BY NextInput DEF FlowInv, TypeOK
<1>3. InputInv => InputEndsLate
  BY DEF InputInv
<1> QED
  BY <1>1, <1>2, <1>3, Flows, PTL DEF Spec
=============================================================================
