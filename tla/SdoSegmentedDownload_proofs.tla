-------------------- MODULE SdoSegmentedDownload_proofs --------------------
(***************************************************************************)
(* Safety of the two segmented downloads for every payload length, queue   *)
(* capacity and surroundings.  The argument looks at the requests on their  *)
(* way, those on the bus and those still in the adapter, as one line: what  *)
(* is next in line continues what the server has stored, and what the      *)
(* client sends next continues the line.                                   *)
(***************************************************************************)
EXTENDS SdoSegmentedDownload, SequenceTheorems, TLAPS

\* What the types leave open about where the client stands.
Client ==
  /\ pc = "start" => sends = 0
  /\ pc \in {"start", "initWait"} => offset = 0 /\ toggle = FALSE
  /\ pc \in {"sending", "ackWait"} => offset < NumSegs
  /\ pc = "ackWait" => ~world.noWait
  /\ pc = "finalWait" => world.noWait
  /\ pc = "returned" <=> result # "pending"

Typed == TypeOK /\ Client

\* The requests on their way to the server, the oldest first.
Line == c2s \o txq

\* How much of the payload the server has once it has taken request m.
Rank(m) == IF m.kind = "init" THEN 0 ELSE m.idx

\* Initiates are ahead of segments, and a segment follows the one before it.
Chained ==
  \A i \in 1..(Len(Line) - 1) :
    /\ Line[i + 1].kind = "init" => Line[i].kind = "init"
    /\ Line[i + 1].kind = "seg" => Line[i + 1].idx = Rank(Line[i]) + 1

Marked ==
  \A i \in 1..Len(Line) : Line[i].kind = "seg" => (Line[i].last <=> Line[i].idx = NumSegs)

\* The request next in line continues what the server has stored.
Fits ==
  Line # <<>> =>
    /\ Line[1].kind = "init" => stored = <<>>
    /\ Line[1].kind = "seg" /\ srvPhase = "receiving" => Line[1].idx = Len(stored) + 1

Whole ==
  /\ Len(stored) <= NumSegs
  /\ \A i \in 1..Len(stored) : stored[i] = i
  /\ Len(stored) = NumSegs <=> srvPhase = "committed"

\* Until the server has answered there is no segment about.
Fresh ==
  pc \in {"start", "initWait"} =>
    stored = <<>> /\ \A i \in 1..Len(Line) : Line[i].kind = "init"

\* The segment to be sent next continues the line.
Follows ==
  pc = "sending" =>
    /\ Line = <<>> => (srvPhase = "receiving" => Len(stored) = offset)
    /\ Line # <<>> => Rank(Line[Len(Line)]) = offset

\* Acknowledged: one segment at a time, and its ack, once there is one, says
\* that the server has stored it.
StopAndWait ==
  ~world.noWait =>
    /\ pc = "sending" => /\ \A i \in 1..Len(Line) : Line[i].kind = "init"
                         /\ \A i \in 1..Len(s2c) : s2c[i].kind # "segAck"
    /\ pc \in {"start", "initWait"} => \A i \in 1..Len(s2c) : s2c[i].kind = "segAck" => i = 1
    /\ pc = "ackWait" =>
         /\ \A i \in 1..Len(Line) : Line[i].kind = "seg" => Line[i].idx = offset + 1
         /\ \A i \in 1..Len(s2c) : s2c[i].kind = "segAck" =>
              /\ Line = <<>> /\ Len(stored) = offset + 1
              /\ \A j \in 1..Len(s2c) : s2c[j].kind = "segAck" => j = i
    /\ \A i \in 1..Len(Line) : Line[i].kind = "seg" => i = Len(Line)

OkCommitted == ~world.noWait /\ result = "ok" => srvPhase = "committed"

InLine == Chained /\ Marked /\ Fits /\ Whole
Orderly == InLine /\ Fresh /\ Follows /\ StopAndWait /\ OkCommitted
OrderlyInv == Bearable => Orderly

-----------------------------------------------------------------------------
(* Frames and types                                                        *)

\* The fields of the requests and the kinds of the responses.
LEMMA FrameFields ==
  /\ \A m \in ReqFrames : /\ m.kind \in {"init", "seg"}
                          /\ m.kind = "init" => m = InitReq
                          /\ m.kind = "seg" => m.idx \in 1..NumSegs /\ m.last \in BOOLEAN /\ m.toggle \in BOOLEAN
  /\ \A m \in RspFrames : m.kind \in {"initAck", "segAck", "abort"}
BY DEF ReqFrames, RspFrames, InitReq, InitAck, SegAck, Abort

\* Every frame the two ends build is one of those.
LEMMA FrameTypes ==
  /\ InitReq \in ReqFrames
  /\ \A i \in 1..NumSegs, t \in BOOLEAN : SegReq(i, t) \in ReqFrames
  /\ InitAck \in RspFrames
  /\ \A t \in BOOLEAN : SegAck(t) \in RspFrames
  /\ \A o, s \in BOOLEAN : Abort(o, s) \in RspFrames
<1>1. InitReq \in ReqFrames
  BY DEF ReqFrames
<1>2. ASSUME NEW i \in 1..NumSegs, NEW t \in BOOLEAN PROVE SegReq(i, t) \in ReqFrames
  <2>1. (i = NumSegs) \in BOOLEAN
    OBVIOUS
  <2>2. SegReq(i, t) \in [kind : {"seg"}, idx : 1..NumSegs, toggle : BOOLEAN, last : BOOLEAN]
    BY <2>1 DEF SegReq
  <2>3. QED
    BY <2>2 DEF ReqFrames
<1>3. InitAck \in RspFrames /\ \A t \in BOOLEAN : SegAck(t) \in RspFrames
  BY DEF RspFrames
<1>4. \A o, s \in BOOLEAN : Abort(o, s) \in RspFrames
  BY DEF RspFrames
<1>5. QED
  BY <1>1, <1>2, <1>3, <1>4

\* A channel stays one when it gets a frame, or loses its head or its first frames.
LEMMA Channels ==
  ASSUME NEW S, NEW q \in Seq(S)
  PROVE  /\ \A m \in S : Append(q, m) \in Seq(S)
         /\ q # <<>> => Head(q) \in S /\ Tail(q) \in Seq(S)
         /\ \A k \in 0..Len(q) : SubSeq(q, k + 1, Len(q)) \in Seq(S)
<1>1. \A m \in S : Append(q, m) \in Seq(S)
  BY AppendProperties
<1>2. q # <<>> => Head(q) \in S /\ Tail(q) \in Seq(S)
  BY HeadTailProperties
<1>3. ASSUME NEW k \in 0..Len(q) PROVE SubSeq(q, k + 1, Len(q)) \in Seq(S)
  <2>1. Len(q) \in Nat
    BY LenProperties
  <2>2. k + 1 \in Int /\ \A i \in (k + 1)..Len(q) : i \in 1..Len(q)
    BY <2>1
  <2>3. \A i \in (k + 1)..Len(q) : q[i] \in S
    BY <2>2, ElementOfSeq
  <2>4. QED
    BY <2>1, <2>2, <2>3, SubSeqProperties
<1>4. QED
  BY <1>1, <1>2, <1>3

\* Init is well typed ...
LEMMA TypedInit == Init => Typed
<1> SUFFICES ASSUME Init PROVE Typed
  OBVIOUS
<1>1. \A m \in Leftovers : m \in RspFrames
  BY FrameTypes DEF Leftovers
<1>2. s2c \in Seq(RspFrames)
  <2>1. CASE s2c = <<>>
    BY <2>1, EmptySeq
  <2>2. ASSUME NEW m \in Leftovers, s2c = <<m>> PROVE s2c \in Seq(RspFrames)
    BY <1>1, <2>2
  <2>3. QED
    BY <2>1, <2>2 DEF Init
<1>3. world.maxLoss \in Nat
  BY ConstantsOK DEF Init, World
<1>4. txq \in Seq(ReqFrames) /\ c2s \in Seq(ReqFrames) /\ stored \in Seq(1..NumSegs)
  BY EmptySeq DEF Init
<1>5. TypeOK
  <2>1. offset \in 0..NumSegs /\ sends \in 0..MaxSends /\ losses \in 0..world.maxLoss
    BY <1>3, ConstantsOK DEF Init
  <2>2. toggle \in BOOLEAN /\ srvToggle \in BOOLEAN /\ srvSized \in BOOLEAN
    BY DEF Init
  <2>3. QED
    BY <1>2, <1>4, <2>1, <2>2 DEF Init, TypeOK
<1>6. Client
  BY DEF Init, Client
<1>7. QED
  BY <1>5, <1>6 DEF Typed

\* ... a step of the client keeps the types ...
LEMMA ClientTyped == Typed /\ ClientNext => Typed'
<1> SUFFICES ASSUME Typed, ClientNext PROVE Typed'
  OBVIOUS
<1> USE DEF Typed, server, given
<1>1. UNCHANGED <<c2s, srvPhase, srvToggle, stored, srvSized, world, losses>>
  BY DEF ClientNext, Initiate, ResendInitiate, RecvInitAck, RecvInitAbort, SendSegment, SendFails, RecvSegAck,
         RecvAbort, RecvFinal, SkipFrame, Timeout
<1>2. s2c' \in Seq(RspFrames)
  <2>1. CASE Initiate
    <3>1. PICK k \in 0..Len(s2c) : s2c' = SubSeq(s2c, k + 1, Len(s2c))
      BY <2>1 DEF Initiate
    <3>2. QED
      BY <3>1, Channels DEF TypeOK
  <2>2. CASE ResendInitiate \/ SendSegment \/ SendFails \/ Timeout
    BY <2>2 DEF ResendInitiate, SendSegment, SendFails, Timeout, TypeOK
  <2>3. CASE RecvInitAck \/ RecvInitAbort \/ RecvSegAck \/ RecvAbort \/ RecvFinal \/ SkipFrame
    <3>1. s2c # <<>> /\ s2c' = Tail(s2c)
      BY <2>3 DEF RecvInitAck, RecvInitAbort, RecvSegAck, RecvAbort, RecvFinal, SkipFrame
    <3>2. QED
      BY <3>1, Channels DEF TypeOK
  <2>4. QED
    BY <2>1, <2>2, <2>3 DEF ClientNext
<1>3. txq' \in Seq(ReqFrames)
  <2>1. CASE SendSegment
    <3>1. offset + 1 \in 1..NumSegs
      BY <2>1, ConstantsOK DEF SendSegment, Client, TypeOK
    <3>2. SegReq(offset + 1, toggle) \in ReqFrames
      BY <3>1, FrameTypes DEF TypeOK
    <3>3. QED
      BY <2>1, <3>2, Channels DEF SendSegment, Send, TypeOK
  <2>2. CASE ~SendSegment
    <3>1. txq' = txq \/ txq' = Append(txq, InitReq)
      BY <2>2 DEF ClientNext, Initiate, ResendInitiate, RecvInitAck, RecvInitAbort, SendFails, RecvSegAck,
                  RecvAbort, RecvFinal, SkipFrame, Timeout, Send, client
    <3>2. Append(txq, InitReq) \in Seq(ReqFrames)
      BY FrameTypes, AppendProperties DEF TypeOK
    <3>3. QED
      BY <3>1, <3>2 DEF TypeOK
  <2>3. QED
    BY <2>1, <2>2
<1>4. /\ pc' \in {"start", "initWait", "sending", "ackWait", "finalWait", "returned"}
      /\ result' \in {"pending", "ok", "error"} /\ sends' \in 0..MaxSends
      /\ pc' = "start" => sends' = 0
      /\ pc' = "returned" <=> result' # "pending"
  BY ConstantsOK DEF TypeOK, Client, ClientNext, Initiate, ResendInitiate, RecvInitAck, RecvInitAbort, SendSegment,
     SendFails, RecvSegAck, RecvAbort, RecvFinal, SkipFrame, Timeout, Return, client, Deadline,
     DeadlineOfInitiate
<1>5. /\ offset' \in 0..NumSegs
      /\ pc' \in {"start", "initWait"} => offset' = 0
      /\ pc' \in {"sending", "ackWait"} => offset' < NumSegs
  BY ConstantsOK DEF TypeOK, Client, ClientNext, Initiate, ResendInitiate, RecvInitAck, RecvInitAbort, SendSegment,
     SendFails, RecvSegAck, RecvAbort, RecvFinal, SkipFrame, Timeout, Return, client, Finished
<1>6. /\ toggle' \in BOOLEAN
      /\ pc' \in {"start", "initWait"} => toggle' = FALSE
  BY DEF TypeOK, Client, ClientNext, Initiate, ResendInitiate, RecvInitAck, RecvInitAbort, SendSegment,
     SendFails, RecvSegAck, RecvAbort, RecvFinal, SkipFrame, Timeout, Return, client
<1>7. (pc' = "ackWait" => ~world.noWait) /\ (pc' = "finalWait" => world.noWait)
  BY DEF Client, ClientNext, Initiate, ResendInitiate, RecvInitAck, RecvInitAbort, SendSegment,
     SendFails, RecvSegAck, RecvAbort, RecvFinal, SkipFrame, Timeout, Return, client
<1>8. TypeOK'
  BY <1>1, <1>2, <1>3, <1>4, <1>5, <1>6 DEF TypeOK
<1>9. Client'
  BY <1>1, <1>4, <1>5, <1>6, <1>7 DEF Client
<1>10. QED
  BY <1>8, <1>9

\* ... and so does one of the adapter, the server or the bus.
LEMMA OthersTyped == Typed /\ (Transmit \/ ServerNext \/ Lose) => Typed'
<1> SUFFICES ASSUME Typed, Transmit \/ ServerNext \/ Lose PROVE Typed'
  OBVIOUS
<1> USE DEF Typed, client, server, given
<1>1. UNCHANGED <<client, given>>
  BY DEF Transmit, ServerNext, SrvInitiate, SrvSegment, SrvIgnore, SrvAbort, Lose
<1>2. txq' \in Seq(ReqFrames) /\ c2s' \in Seq(ReqFrames)
  <2>1. CASE Transmit
    BY <2>1, Channels DEF Transmit, TypeOK
  <2>2. CASE ~Transmit
    <3>1. txq' = txq
      BY <2>2 DEF ServerNext, SrvInitiate, SrvSegment, SrvIgnore, SrvAbort, Lose
    <3>2. c2s' = c2s \/ (c2s # <<>> /\ c2s' = Tail(c2s))
      <4>1. CASE Lose
        BY <4>1 DEF Lose
      <4>2. CASE ServerNext
        BY <4>2 DEF ServerNext, SrvInitiate, SrvSegment, SrvIgnore, SrvAbort
      <4>3. QED
        BY <2>2, <4>1, <4>2
    <3>3. c2s # <<>> => Tail(c2s) \in Seq(ReqFrames)
      BY Channels DEF TypeOK
    <3>4. QED
      BY <3>1, <3>2, <3>3 DEF TypeOK
  <2>3. QED
    BY <2>1, <2>2
<1>3. s2c' \in Seq(RspFrames)
  <2>1. CASE SrvInitiate
    BY <2>1, FrameTypes, Channels DEF SrvInitiate, TypeOK
  <2>2. CASE SrvSegment
    <3>1. Head(c2s) \in ReqFrames /\ Head(c2s).kind = "seg"
      BY <2>2, Channels DEF SrvSegment, TypeOK
    <3>2. SegAck(Head(c2s).toggle) \in RspFrames /\ Abort(TRUE, FALSE) \in RspFrames
      BY <3>1, FrameFields, FrameTypes
    <3>3. s2c' = Append(s2c, SegAck(Head(c2s).toggle)) \/ s2c' = Append(s2c, Abort(TRUE, FALSE))
      BY <2>2 DEF SrvSegment, AbortTransfer
    <3>4. /\ Append(s2c, SegAck(Head(c2s).toggle)) \in Seq(RspFrames)
          /\ Append(s2c, Abort(TRUE, FALSE)) \in Seq(RspFrames)
      BY <3>2, AppendProperties DEF TypeOK
    <3>5. QED
      BY <3>3, <3>4
  <2>3. CASE SrvAbort
    BY <2>3, FrameTypes, Channels DEF SrvAbort, AbortTransfer, TypeOK
  <2>4. CASE Transmit \/ SrvIgnore \/ Lose
    <3>1. s2c' = s2c \/ (s2c # <<>> /\ s2c' = Tail(s2c))
      <4>1. CASE Lose
        BY <4>1 DEF Lose
      <4>2. QED
        BY <2>4, <4>1 DEF Transmit, SrvIgnore
    <3>2. s2c # <<>> => Tail(s2c) \in Seq(RspFrames)
      BY Channels DEF TypeOK
    <3>3. QED
      BY <3>1, <3>2 DEF TypeOK
  <2>5. QED
    BY <2>1, <2>2, <2>3, <2>4 DEF ServerNext
<1>4. stored' \in Seq(1..NumSegs)
  <2>1. CASE SrvSegment
    <3>1. Head(c2s).idx \in 1..NumSegs
      BY <2>1, Channels, FrameFields DEF SrvSegment, TypeOK
    <3>2. stored' = stored \/ stored' = Append(stored, Head(c2s).idx)
      BY <2>1 DEF SrvSegment
    <3>3. Append(stored, Head(c2s).idx) \in Seq(1..NumSegs)
      BY <3>1, AppendProperties DEF TypeOK
    <3>4. QED
      BY <3>2, <3>3 DEF TypeOK
  <2>2. CASE ~SrvSegment
    BY <2>2, EmptySeq DEF Transmit, ServerNext, SrvInitiate, SrvIgnore, SrvAbort, Lose, TypeOK
  <2>3. QED
    BY <2>1, <2>2
<1>5. srvPhase' \in {"idle", "receiving", "committed"}
  BY DEF TypeOK, Transmit, ServerNext, SrvInitiate, SrvSegment, SrvIgnore, SrvAbort, AbortTransfer, Lose
<1>6. srvToggle' \in BOOLEAN
  BY DEF TypeOK, Transmit, ServerNext, SrvInitiate, SrvSegment, SrvIgnore, SrvAbort, Lose
<1>7. losses' \in 0..world.maxLoss
  <2>1. world.maxLoss \in Nat
    BY ConstantsOK DEF TypeOK, World
  <2>2. CASE Lose
    BY <2>1, <2>2 DEF TypeOK, Lose
  <2>3. CASE ~Lose
    BY <2>3 DEF TypeOK, Transmit, ServerNext, SrvInitiate, SrvSegment, SrvIgnore, SrvAbort
  <2>4. QED
    BY <2>2, <2>3
<1>8. TypeOK'
  BY <1>1, <1>2, <1>3, <1>4, <1>5, <1>6, <1>7 DEF TypeOK
<1>9. Client'
  BY <1>1 DEF Client
<1>10. QED
  BY <1>8, <1>9

\* ... so every step does.
LEMMA TypedStep == Typed /\ [Next]_vars => Typed'
<1>1. ASSUME Typed, UNCHANGED vars PROVE Typed'
  BY <1>1 DEF Typed, TypeOK, Client, vars, client, server, given
<1>2. QED
  BY <1>1, ClientTyped, OthersTyped DEF Next

-----------------------------------------------------------------------------
(* How the line moves                                                      *)

\* The line is one of requests.
LEMMA LineTyped == Typed => Line \in Seq(ReqFrames) /\ Len(Line) \in Nat
<1> SUFFICES ASSUME Typed PROVE Line \in Seq(ReqFrames) /\ Len(Line) \in Nat
  OBVIOUS
<1>1. Line \in Seq(ReqFrames)
  BY ConcatProperties DEF Typed, TypeOK, Line
<1>2. QED
  BY <1>1, LenProperties

\* What the client sends goes to the end of the line.
LEMMA Joins ==
  ASSUME Typed, NEW m \in ReqFrames, txq' = Append(txq, m), c2s' = c2s
  PROVE  Line' = Append(Line, m)
<1>1. c2s \in Seq(ReqFrames) /\ txq \in Seq(ReqFrames) /\ <<m>> \in Seq(ReqFrames)
  BY DEF Typed, TypeOK
<1>2. txq' = txq \o <<m>> /\ Append(Line, m) = Line \o <<m>>
  BY <1>1, LineTyped, AppendIsConcat
<1>3. c2s \o (txq \o <<m>>) = (c2s \o txq) \o <<m>>
  BY <1>1, ConcatAssociative
<1>4. QED
  BY <1>2, <1>3 DEF Line

\* The adapter's transmission leaves the line as it is.
LEMMA Passes ==
  ASSUME Typed, Transmit
  PROVE  Line' = Line
<1> DEFINE h == Head(txq)
           t == Tail(txq)
<1>1. c2s \in Seq(ReqFrames) /\ txq \in Seq(ReqFrames) /\ txq # <<>>
  BY DEF Typed, TypeOK, Transmit
<1>2. h \in ReqFrames /\ t \in Seq(ReqFrames) /\ Len(t) = Len(txq) - 1 /\ \A i \in 1..Len(t) : t[i] = txq[i + 1]
  BY <1>1, HeadTailProperties
<1>3. <<h>> \in Seq(ReqFrames) /\ Len(<<h>>) = 1 /\ <<h>>[1] = h /\ h = txq[1]
  BY <1>1, <1>2
<1>4. <<h>> \o t = txq
  <2>1. /\ <<h>> \o t \in Seq(ReqFrames) /\ Len(<<h>> \o t) = 1 + Len(t)
        /\ \A i \in 1..(1 + Len(t)) : (<<h>> \o t)[i] = IF i <= 1 THEN <<h>>[i] ELSE t[i - 1]
    BY <1>2, <1>3, ConcatProperties
  <2>2. Len(txq) \in Nat /\ Len(txq) = 1 + Len(t)
    BY <1>1, <1>2, LenProperties
  <2>3. ASSUME NEW i \in 1..(1 + Len(t)) PROVE (<<h>> \o t)[i] = txq[i]
    <3>1. CASE i = 1
      BY <1>3, <2>1, <2>3, <3>1
    <3>2. CASE i > 1
      <4>1. i - 1 \in 1..Len(t) /\ (i - 1) + 1 = i
        BY <2>2, <3>2
      <4>2. t[i - 1] = txq[i]
        BY <1>2, <4>1
      <4>3. QED
        BY <2>1, <2>3, <3>2, <4>2
    <3>3. QED
      BY <2>2, <3>1, <3>2
  <2> HIDE DEF h, t
  <2>4. QED
    BY <1>1, <2>1, <2>2, <2>3, SeqEqual
<1> HIDE DEF h, t
<1>5. Append(c2s, h) = c2s \o <<h>>
  BY <1>1, <1>2, AppendIsConcat
<1>6. (c2s \o <<h>>) \o t = c2s \o (<<h>> \o t)
  BY <1>1, <1>2, <1>3, ConcatAssociative
<1>7. QED
  BY <1>4, <1>5, <1>6 DEF Line, Transmit, h, t

\* What the server takes, or the bus loses, is the head of the line.
LEMMA Leaves ==
  ASSUME Typed, c2s # <<>>, c2s' = Tail(c2s), txq' = txq
  PROVE  /\ Line # <<>> /\ Line[1] = Head(c2s) /\ Line' = Tail(Line)
         /\ 1 \in 1..Len(Line) /\ Line[1] \in ReqFrames
<1>1. c2s \in Seq(ReqFrames) /\ txq \in Seq(ReqFrames)
  BY DEF Typed, TypeOK
<1>2. /\ Len(c2s) \in Nat /\ Len(txq) \in Nat /\ Len(c2s) >= 1 /\ Head(c2s) = c2s[1]
  BY <1>1, LenProperties, EmptySeq, HeadTailProperties
<1>3. /\ Line \in Seq(ReqFrames) /\ Len(Line) = Len(c2s) + Len(txq)
      /\ \A i \in 1..(Len(c2s) + Len(txq)) : Line[i] = IF i <= Len(c2s) THEN c2s[i] ELSE txq[i - Len(c2s)]
  BY <1>1, ConcatProperties DEF Line
<1>4. 1 \in 1..Len(Line) /\ Line[1] = Head(c2s) /\ Line # <<>>
  <2>1. 1 \in 1..(Len(c2s) + Len(txq)) /\ 1 <= Len(c2s)
    BY <1>2
  <2>2. Len(Line) # 0
    BY <1>2, <1>3
  <2>3. QED
    BY <1>2, <1>3, <2>1, <2>2, EmptySeq
<1>5. /\ Tail(c2s) \in Seq(ReqFrames) /\ Len(Tail(c2s)) = Len(c2s) - 1
      /\ \A i \in 1..Len(Tail(c2s)) : Tail(c2s)[i] = c2s[i + 1]
  BY <1>1, HeadTailProperties
<1>6. /\ Tail(Line) \in Seq(ReqFrames) /\ Len(Tail(Line)) = Len(Line) - 1
      /\ \A i \in 1..Len(Tail(Line)) : Tail(Line)[i] = Line[i + 1]
  BY <1>3, <1>4, HeadTailProperties
<1>7. /\ Line' \in Seq(ReqFrames) /\ Len(Line') = Len(c2s) - 1 + Len(txq)
      /\ \A i \in 1..(Len(c2s) - 1 + Len(txq)) :
           Line'[i] = IF i <= Len(c2s) - 1 THEN Tail(c2s)[i] ELSE txq[i - (Len(c2s) - 1)]
  BY <1>1, <1>5, ConcatProperties DEF Line
<1>8. ASSUME NEW i \in 1..Len(Line') PROVE Line'[i] = Tail(Line)[i]
  <2>1. i \in 1..(Len(c2s) - 1 + Len(txq)) /\ i + 1 \in 1..(Len(c2s) + Len(txq)) /\ i \in 1..Len(Tail(Line))
    BY <1>2, <1>3, <1>6, <1>7
  <2>2. Tail(Line)[i] = IF i + 1 <= Len(c2s) THEN c2s[i + 1] ELSE txq[i + 1 - Len(c2s)]
    BY <1>3, <1>6, <2>1
  <2>3. CASE i <= Len(c2s) - 1
    <3>1. i \in 1..Len(Tail(c2s)) /\ i + 1 <= Len(c2s)
      BY <1>2, <1>5, <2>1, <2>3
    <3>2. QED
      BY <1>5, <1>7, <2>1, <2>2, <2>3, <3>1
  <2>4. CASE ~(i <= Len(c2s) - 1)
    <3>1. ~(i + 1 <= Len(c2s)) /\ i - (Len(c2s) - 1) = i + 1 - Len(c2s)
      BY <1>2, <2>1, <2>4
    <3>2. QED
      BY <1>7, <2>1, <2>2, <2>4, <3>1
  <2>5. QED
    BY <2>3, <2>4
<1>9. Len(Line') = Len(Tail(Line))
  BY <1>2, <1>3, <1>6, <1>7
<1>10. Line' = Tail(Line)
  BY <1>6, <1>7, <1>8, <1>9, SeqEqual
<1>11. QED
  BY <1>3, <1>4, <1>10, ElementOfSeq

\* The elements of what is left of a sequence ...
LEMMA Shrinks ==
  ASSUME NEW S, NEW q \in Seq(S), q # <<>>
  PROVE  /\ Len(Tail(q)) \in Nat /\ Len(q) \in Nat /\ Len(q) = Len(Tail(q)) + 1
         /\ \A i \in 1..Len(Tail(q)) : i + 1 \in 1..Len(q) /\ Tail(q)[i] = q[i + 1]
         /\ Head(q) = q[1] /\ 1 \in 1..Len(q) /\ (Tail(q) = <<>> <=> Len(q) = 1)
<1>1. Tail(q) \in Seq(S) /\ Len(Tail(q)) = Len(q) - 1 /\ \A i \in 1..Len(Tail(q)) : Tail(q)[i] = q[i + 1]
  BY HeadTailProperties
<1>2. Len(q) \in Nat /\ Len(Tail(q)) \in Nat /\ Len(q) # 0
  BY <1>1, LenProperties, EmptySeq
<1>3. Len(q) = Len(Tail(q)) + 1 /\ 1 \in 1..Len(q)
  BY <1>1, <1>2
<1>4. \A i \in 1..Len(Tail(q)) : i + 1 \in 1..Len(q)
  BY <1>2, <1>3
<1>5. Tail(q) = <<>> <=> Len(Tail(q)) = 0
  BY <1>1, EmptySeq
<1>6. QED
  BY <1>1, <1>2, <1>3, <1>4, <1>5

\* ... and of one that has grown.
LEMMA Grows ==
  ASSUME NEW S, NEW q \in Seq(S), NEW m \in S
  PROVE  /\ Len(q) \in Nat /\ Len(Append(q, m)) = Len(q) + 1 /\ Append(q, m) # <<>>
         /\ \A i \in 1..Len(q) : Append(q, m)[i] = q[i]
         /\ Append(q, m)[Len(q) + 1] = m
         /\ \A i \in 1..Len(Append(q, m)) : i \in 1..Len(q) \/ i = Len(q) + 1
<1>1. Len(q) \in Nat
  BY LenProperties
<1>2. Len(Append(q, m)) = Len(q) + 1
  BY AppendProperties
<1>3. \A i \in 1..Len(Append(q, m)) : i \in 1..Len(q) \/ i = Len(q) + 1
  BY <1>1, <1>2
<1>4. QED
  BY <1>1, <1>2, <1>3, AppendProperties

-----------------------------------------------------------------------------
(* The client's steps                                                      *)

\* A request that continues the line leaves it in order.
LEMMA InLineJoins ==
  ASSUME Typed, InLine, NEW m \in ReqFrames, Line' = Append(Line, m), UNCHANGED <<stored, srvPhase>>,
         m.kind = "init" => stored = <<>> /\ \A i \in 1..Len(Line) : Line[i].kind = "init",
         m.kind = "seg" => /\ m.last <=> m.idx = NumSegs
                           /\ Line = <<>> => (srvPhase = "receiving" => m.idx = Len(stored) + 1)
                           /\ Line # <<>> => m.idx = Rank(Line[Len(Line)]) + 1
  PROVE  InLine'
<1>1. Line \in Seq(ReqFrames) /\ Len(Line) \in Nat /\ (Line = <<>> <=> Len(Line) = 0)
  BY LineTyped, EmptySeq
<1>2. /\ Len(Line') = Len(Line) + 1 /\ \A i \in 1..Len(Line) : Line'[i] = Line[i]
      /\ Line'[Len(Line) + 1] = m /\ \A i \in 1..Len(Line') : i \in 1..Len(Line) \/ i = Len(Line) + 1
  BY <1>1, Grows
<1>3. Chained'
  <2>1. ASSUME NEW i \in 1..(Len(Line') - 1)
        PROVE  /\ Line'[i + 1].kind = "init" => Line'[i].kind = "init"
               /\ Line'[i + 1].kind = "seg" => Line'[i + 1].idx = Rank(Line'[i]) + 1
    <3>1. i \in 1..Len(Line) /\ Line'[i] = Line[i]
      BY <1>1, <1>2
    <3>2. CASE i = Len(Line)
      <4>1. Line'[i + 1] = m /\ Line # <<>>
        BY <1>1, <1>2, <3>1, <3>2
      <4>2. QED
        BY <3>1, <3>2, <4>1
    <3>3. CASE i # Len(Line)
      <4>1. i \in 1..(Len(Line) - 1) /\ i + 1 \in 1..Len(Line)
        BY <1>1, <3>1, <3>3
      <4>2. Line'[i + 1] = Line[i + 1]
        BY <1>2, <4>1
      <4>3. QED
        BY <3>1, <4>1, <4>2 DEF InLine, Chained
    <3>4. QED
      BY <3>2, <3>3
  <2>2. QED
    BY <2>1 DEF Chained, Rank
<1>4. Marked'
  BY <1>2 DEF InLine, Marked
<1>5. Fits'
  <2>1. CASE Line = <<>>
    <3>1. Line'[1] = m
      BY <1>1, <1>2, <2>1
    <3>2. QED
      BY <2>1, <3>1 DEF Fits
  <2>2. CASE Line # <<>>
    <3>1. Line'[1] = Line[1]
      BY <1>1, <1>2, <2>2
    <3>2. QED
      BY <2>2, <3>1 DEF InLine, Fits
  <2>3. QED
    BY <2>1, <2>2
<1>6. Whole'
  BY DEF InLine, Whole
<1>7. QED
  BY <1>3, <1>4, <1>5, <1>6 DEF InLine

\* An initiate is sent as long as nothing else has been.
LEMMA OrderlyInitiates ==
  ASSUME Typed, Orderly, pc \in {"start", "initWait"}, pc' = "initWait",
         txq' = Append(txq, InitReq), c2s' = c2s,
         \/ \E k \in 0..Len(s2c) : s2c' = SubSeq(s2c, k + 1, Len(s2c))
         \/ s2c' = s2c
         \/ s2c # <<>> /\ s2c' = Tail(s2c),
         UNCHANGED <<offset, result, stored, srvPhase, world>>
  PROVE  Orderly'
<1>1. Line \in Seq(ReqFrames) /\ InitReq \in ReqFrames /\ InitReq.kind = "init"
  BY LineTyped, FrameTypes DEF InitReq
<1>2. Line' = Append(Line, InitReq)
  BY <1>1, Joins
<1>3. stored = <<>> /\ \A i \in 1..Len(Line) : Line[i].kind = "init"
  BY DEF Orderly, Fresh
<1>4. InLine'
  BY <1>1, <1>2, <1>3, InLineJoins DEF Orderly
<1>5. \A i \in 1..Len(Line') : Line'[i].kind = "init"
  BY <1>1, <1>2, <1>3, Grows
<1>6. Fresh' /\ Follows' /\ OkCommitted'
  BY <1>3, <1>5 DEF Orderly, Fresh, Follows, OkCommitted
<1>7. ASSUME ~world.noWait PROVE \A i \in 1..Len(s2c') : s2c'[i].kind = "segAck" => i = 1
  <2>1. s2c \in Seq(RspFrames) /\ Len(s2c) \in Nat
    BY LenProperties DEF Typed, TypeOK
  <2>2. \A i \in 1..Len(s2c) : s2c[i].kind = "segAck" => i = 1
    BY <1>7 DEF Orderly, StopAndWait
  <2>3. CASE s2c' = s2c
    BY <2>2, <2>3
  <2>4. CASE s2c # <<>> /\ s2c' = Tail(s2c)
    <3>1. ASSUME NEW i \in 1..Len(s2c'), s2c'[i].kind = "segAck" PROVE FALSE
      <4>1. i + 1 \in 1..Len(s2c) /\ s2c'[i] = s2c[i + 1]
        BY <2>1, <2>4, Shrinks
      <4>2. i + 1 = 1
        BY <2>2, <3>1, <4>1
      <4>3. QED
        BY <4>2
    <3>2. QED
      BY <3>1
  <2>5. CASE \E k \in 0..Len(s2c) : s2c' = SubSeq(s2c, k + 1, Len(s2c))
    <3>1. PICK k \in 0..Len(s2c) : s2c' = SubSeq(s2c, k + 1, Len(s2c))
      BY <2>5
    <3> DEFINE first == k + 1
    <3>2. /\ Len(s2c) \in Int /\ first \in Int /\ \A i \in first..Len(s2c) : i \in 1..Len(s2c)
          /\ Len(s2c) - first + 1 = Len(s2c) - k /\ (first <= Len(s2c) \/ Len(s2c) - k = 0)
      BY <2>1
    <3>3. \A i \in 1..(Len(s2c) - k) : first + i - 1 = k + i /\ k + i \in 1..Len(s2c)
      BY <2>1
    <3> HIDE DEF first
    <3>4. \A i \in first..Len(s2c) : s2c[i] \in RspFrames
      BY <2>1, <3>2, ElementOfSeq
    <3>5. /\ Len(SubSeq(s2c, first, Len(s2c))) = IF first <= Len(s2c) THEN Len(s2c) - first + 1 ELSE 0
          /\ \A i \in 1..(Len(s2c) - first + 1) : SubSeq(s2c, first, Len(s2c))[i] = s2c[first + i - 1]
      BY <2>1, <3>2, <3>4, SubSeqProperties
    <3>6. Len(s2c') = Len(s2c) - k /\ \A i \in 1..(Len(s2c) - k) : s2c'[i] = s2c[first + i - 1]
      BY <3>1, <3>2, <3>5
    <3>7. ASSUME NEW i \in 1..Len(s2c'), s2c'[i].kind = "segAck" PROVE i = 1
      <4>1. k + i \in 1..Len(s2c) /\ s2c[k + i].kind = "segAck"
        BY <3>6, <3>3, <3>7
      <4>2. k + i = 1
        BY <2>2, <4>1
      <4>3. QED
        BY <2>1, <4>2
    <3>8. QED
      BY <3>7
  <2>6. QED
    BY <2>3, <2>4, <2>5
<1>8. StopAndWait'
  BY <1>5, <1>7 DEF StopAndWait
<1>9. QED
  BY <1>4, <1>6, <1>8 DEF Orderly

\* Once the download has returned, what is on its way stays in order.
LEMMA OrderlyReturns ==
  ASSUME Typed, Orderly, pc' = "returned", UNCHANGED <<txq, c2s, stored, srvPhase, world>>,
         ~world.noWait /\ result' = "ok" => srvPhase = "committed"
  PROVE  Orderly'
<1>1. Line' = Line
  BY DEF Line
<1>2. InLine'
  BY <1>1 DEF Orderly, InLine, Chained, Marked, Fits, Whole, Rank
<1>3. Fresh' /\ Follows' /\ OkCommitted'
  BY DEF Fresh, Follows, OkCommitted
<1>4. StopAndWait'
  BY <1>1 DEF Orderly, StopAndWait
<1>5. QED
  BY <1>2, <1>3, <1>4 DEF Orderly

\* The first segment follows the answer to the initiate ...
LEMMA OrderlyRecvInitAck == Typed /\ Orderly /\ RecvInitAck => Orderly'
<1> SUFFICES ASSUME Typed, Orderly, RecvInitAck PROVE Orderly'
  OBVIOUS
<1> USE DEF server, given
<1>1. /\ pc = "initWait" /\ pc' = "sending" /\ s2c # <<>> /\ Head(s2c).kind = "initAck" /\ s2c' = Tail(s2c)
      /\ UNCHANGED <<offset, result, txq, c2s, stored, srvPhase, world>>
  BY DEF RecvInitAck, InitAck
<1>2. Line' = Line /\ Line \in Seq(ReqFrames) /\ Len(Line) \in Nat
  BY <1>1, LineTyped DEF Line
<1>3. stored = <<>> /\ offset = 0 /\ \A i \in 1..Len(Line) : Line[i].kind = "init"
  BY <1>1 DEF Orderly, Fresh, Typed, Client
<1>4. InLine'
  BY <1>1, <1>2 DEF Orderly, InLine, Chained, Marked, Fits, Whole, Rank
<1>5. Fresh' /\ OkCommitted'
  BY <1>1 DEF Orderly, Fresh, OkCommitted
<1>6. Follows'
  <2>1. Line # <<>> => Len(Line) \in 1..Len(Line)
    BY <1>2, Shrinks
  <2>2. Line # <<>> => Rank(Line[Len(Line)]) = 0
    BY <1>3, <2>1 DEF Rank
  <2>3. Len(stored) = 0
    BY <1>3
  <2>4. QED
    BY <1>1, <1>2, <1>3, <2>2, <2>3 DEF Follows, Rank
<1>7. ASSUME ~world.noWait, NEW i \in 1..Len(s2c'), s2c'[i].kind = "segAck" PROVE FALSE
  <2>1. i + 1 \in 1..Len(s2c) /\ s2c'[i] = s2c[i + 1]
    BY <1>1, <1>7, Shrinks DEF Typed, TypeOK
  <2>2. i + 1 = 1
    BY <1>1, <1>7, <2>1 DEF Orderly, StopAndWait
  <2>3. QED
    BY <2>2
<1>8. StopAndWait'
  BY <1>1, <1>2, <1>3, <1>7 DEF Orderly, StopAndWait
<1>9. QED
  BY <1>4, <1>5, <1>6, <1>8 DEF Orderly

\* ... every other one the segment before it.
LEMMA OrderlySendSegment == Typed /\ Orderly /\ SendSegment => Orderly'
<1> SUFFICES ASSUME Typed, Orderly, SendSegment PROVE Orderly'
  OBVIOUS
<1> DEFINE m == SegReq(offset + 1, toggle)
<1> USE DEF server, given
<1>1. /\ pc = "sending" /\ pc' \in {"sending", "ackWait", "finalWait"}
      /\ txq' = Append(txq, m) /\ UNCHANGED <<c2s, s2c, result, stored, srvPhase, world>>
      /\ offset \in 0..NumSegs /\ offset < NumSegs /\ toggle \in BOOLEAN
  BY DEF SendSegment, Send, Typed, Client, TypeOK
<1>2. /\ world.noWait => offset' = offset + 1 /\ pc' # "ackWait"
      /\ ~world.noWait => offset' = offset /\ pc' = "ackWait"
  BY DEF SendSegment
<1>3. m \in ReqFrames /\ m.kind = "seg" /\ m.idx = offset + 1 /\ (m.last <=> offset + 1 = NumSegs)
  <2>1. offset + 1 \in 1..NumSegs
    BY <1>1, ConstantsOK
  <2>2. QED
    BY <1>1, <2>1, FrameTypes DEF SegReq
<1> HIDE DEF m
<1>4. Line' = Append(Line, m) /\ Line \in Seq(ReqFrames)
  BY <1>1, <1>3, Joins, LineTyped
<1>5. /\ Len(Line) \in Nat /\ Len(Line') = Len(Line) + 1 /\ \A i \in 1..Len(Line) : Line'[i] = Line[i]
      /\ Line'[Len(Line) + 1] = m /\ \A i \in 1..Len(Line') : i \in 1..Len(Line) \/ i = Len(Line) + 1
      /\ Line' # <<>>
  BY <1>3, <1>4, Grows
<1>6. InLine'
  <2>1. m.kind # "init"
    BY <1>3
  <2>2. /\ m.last <=> m.idx = NumSegs
        /\ Line = <<>> => (srvPhase = "receiving" => m.idx = Len(stored) + 1)
        /\ Line # <<>> => m.idx = Rank(Line[Len(Line)]) + 1
    BY <1>1, <1>3 DEF Orderly, Follows
  <2>3. QED
    BY <1>1, <1>3, <1>4, <2>1, <2>2, InLineJoins DEF Orderly
<1>7. Fresh' /\ OkCommitted'
  BY <1>1 DEF Orderly, Fresh, OkCommitted
<1>8. Follows'
  <2>1. pc' = "sending" => Rank(Line'[Len(Line')]) = offset'
    BY <1>2, <1>3, <1>5 DEF Rank
  <2>2. QED
    BY <1>5, <2>1 DEF Follows, Rank
<1>9. StopAndWait'
  <2>1. CASE world.noWait
    BY <1>1, <2>1 DEF StopAndWait
  <2>2. CASE ~world.noWait
    <3>1. \A i \in 1..Len(Line) : Line[i].kind = "init"
      BY <1>1, <2>2 DEF Orderly, StopAndWait
    <3>2. \A i \in 1..Len(s2c') : s2c'[i].kind # "segAck"
      BY <1>1, <2>2 DEF Orderly, StopAndWait
    <3>3. ASSUME NEW i \in 1..Len(Line'), Line'[i].kind = "seg" PROVE i = Len(Line') /\ Line'[i].idx = offset' + 1
      <4>1. i = Len(Line) + 1
        BY <1>5, <3>1, <3>3
      <4>2. QED
        BY <1>2, <1>3, <1>5, <2>2, <4>1
    <3>4. QED
      BY <1>2, <2>2, <3>2, <3>3 DEF StopAndWait
  <2>3. QED
    BY <2>1, <2>2
<1>10. QED
  BY <1>6, <1>7, <1>8, <1>9 DEF Orderly

\* An ack of the segment that was sent says that the server has stored it; there
\* is no other one about.
LEMMA OrderlyRecvSegAck == Typed /\ Orderly /\ RecvSegAck => Orderly'
<1> SUFFICES ASSUME Typed, Orderly, RecvSegAck PROVE Orderly'
  OBVIOUS
<1> USE DEF server, given
<1>1. /\ pc = "ackWait" /\ s2c # <<>> /\ Head(s2c).kind = "segAck" /\ s2c' = Tail(s2c) /\ offset' = offset + 1
      /\ UNCHANGED <<txq, c2s, stored, srvPhase, world>>
  BY DEF RecvSegAck, SegAck
<1>2. ~world.noWait /\ Line' = Line
  BY <1>1 DEF Typed, Client, Line
<1>3. 1 \in 1..Len(s2c) /\ Head(s2c) = s2c[1]
  BY <1>1, Shrinks DEF Typed, TypeOK
<1>4. Line = <<>> /\ Len(stored) = offset + 1 /\ \A j \in 1..Len(s2c) : s2c[j].kind = "segAck" => j = 1
  BY <1>1, <1>2, <1>3 DEF Orderly, StopAndWait
<1>5. CASE Finished(offset')
  <2>1. pc' = "returned"
    BY <1>5 DEF RecvSegAck, Return
  <2>2. srvPhase = "committed"
    BY <1>1, <1>4, <1>5 DEF Finished, Orderly, InLine, Whole
  <2>3. QED
    BY <1>1, <2>1, <2>2, OrderlyReturns
<1>6. CASE ~Finished(offset')
  <2>1. pc' = "sending" /\ result' = result
    BY <1>6 DEF RecvSegAck
  <2>2. InLine'
    BY <1>1, <1>2 DEF Orderly, InLine, Chained, Marked, Fits, Whole, Rank
  <2>3. Fresh' /\ OkCommitted'
    BY <1>1, <2>1 DEF Orderly, Fresh, OkCommitted
  <2>4. Follows'
    BY <1>1, <1>2, <1>4 DEF Follows
  <2>5. ASSUME NEW i \in 1..Len(s2c'), s2c'[i].kind = "segAck" PROVE FALSE
    <3>1. i + 1 \in 1..Len(s2c) /\ s2c'[i] = s2c[i + 1]
      BY <1>1, <2>5, Shrinks DEF Typed, TypeOK
    <3>2. i + 1 = 1
      BY <1>4, <2>5, <3>1
    <3>3. QED
      BY <3>2
  <2>6. Len(Line') = 0
    BY <1>2, <1>4
  <2>7. StopAndWait'
    BY <2>1, <2>5, <2>6 DEF StopAndWait
  <2>8. QED
    BY <2>2, <2>3, <2>4, <2>7 DEF Orderly
<1>7. QED
  BY <1>5, <1>6

\* Skipping a frame, or losing a response, changes nothing about the requests.
LEMMA OrderlyDrops ==
  ASSUME Typed, Orderly, s2c # <<>>, s2c' = Tail(s2c), UNCHANGED <<client, txq, c2s, stored, srvPhase, world>>
  PROVE  Orderly'
<1> USE DEF client
<1>1. Line' = Line
  BY DEF Line
<1>2. InLine' /\ Fresh' /\ Follows' /\ OkCommitted'
  BY <1>1 DEF Orderly, InLine, Chained, Marked, Fits, Whole, Rank, Fresh, Follows, OkCommitted
<1>3. \A i \in 1..Len(s2c') : i \in Nat /\ i + 1 \in 1..Len(s2c) /\ s2c'[i] = s2c[i + 1]
  BY Shrinks DEF Typed, TypeOK
<1>4. StopAndWait'
  <2>1. CASE world.noWait
    BY <2>1 DEF StopAndWait
  <2>2. CASE ~world.noWait
    <3>1. ASSUME pc \in {"start", "initWait"}, NEW i \in 1..Len(s2c'), s2c'[i].kind = "segAck" PROVE i = 1
      <4>1. i + 1 = 1
        BY <1>3, <2>2, <3>1 DEF Orderly, StopAndWait
      <4>2. QED
        BY <1>3, <4>1
    <3>2. ASSUME pc = "sending", NEW i \in 1..Len(s2c') PROVE s2c'[i].kind # "segAck"
      BY <1>3, <2>2, <3>2 DEF Orderly, StopAndWait
    <3>3. ASSUME pc = "ackWait", NEW i \in 1..Len(s2c'), s2c'[i].kind = "segAck"
          PROVE  /\ Line = <<>> /\ Len(stored) = offset + 1
                 /\ \A j \in 1..Len(s2c') : s2c'[j].kind = "segAck" => j = i
      <4>1. Line = <<>> /\ Len(stored) = offset + 1
        BY <1>3, <2>2, <3>3 DEF Orderly, StopAndWait
      <4>2. ASSUME NEW j \in 1..Len(s2c'), s2c'[j].kind = "segAck" PROVE j = i
        <5>1. j + 1 = i + 1
          BY <1>3, <2>2, <3>3, <4>2 DEF Orderly, StopAndWait
        <5>2. QED
          BY <1>3, <5>1
      <4>3. QED
        BY <4>1, <4>2
    <3>4. QED
      BY <1>1, <2>2, <3>1, <3>2, <3>3 DEF Orderly, StopAndWait
  <2>3. QED
    BY <2>1, <2>2
<1>5. QED
  BY <1>2, <1>4 DEF Orderly

\* Every step of the client leaves the line in order.
LEMMA OrderlyClient == Typed /\ Orderly /\ ClientNext => Orderly'
<1> SUFFICES ASSUME Typed, Orderly, ClientNext PROVE Orderly'
  OBVIOUS
<1> USE DEF server, given
<1>1. CASE Initiate
  BY <1>1, OrderlyInitiates DEF Initiate, Send
<1>2. CASE ResendInitiate
  BY <1>2, OrderlyInitiates DEF ResendInitiate, Send
<1>3. CASE RecvInitAbort
  <2>1. pc = "initWait" /\ s2c # <<>> /\ s2c' = Tail(s2c) /\ UNCHANGED <<offset, c2s, stored, srvPhase, world>>
    BY <1>3 DEF RecvInitAbort
  <2>2. CASE Head(s2c).stale /\ sends < MaxSends /\ ~TxFull
    <3>1. txq' = Append(txq, InitReq) /\ pc' = pc /\ result' = result
      BY <1>3, <2>2 DEF RecvInitAbort, Send
    <3>2. QED
      BY <2>1, <3>1, OrderlyInitiates
  <2>3. CASE ~(Head(s2c).stale /\ sends < MaxSends /\ ~TxFull)
    <3>1. pc' = "returned" /\ result' = "error" /\ txq' = txq
      BY <1>3, <2>3 DEF RecvInitAbort, Return
    <3>2. QED
      BY <2>1, <3>1, OrderlyReturns
  <2>4. QED
    BY <2>2, <2>3
<1>4. CASE SendFails \/ RecvAbort
  BY <1>4, OrderlyReturns DEF SendFails, RecvAbort, Return
<1>5. CASE RecvFinal
  <2>1. world.noWait
    BY <1>5 DEF RecvFinal, Typed, Client
  <2>2. QED
    BY <1>5, <2>1, OrderlyReturns DEF RecvFinal, Return
<1>6. CASE Timeout
  <2>1. pc' = "returned" /\ UNCHANGED <<txq, c2s, stored, srvPhase, world>>
    BY <1>6 DEF Timeout, Return
  <2>2. ~world.noWait => result' = "error"
    BY <1>6 DEF Timeout, Return, SilenceIsOk, Typed, Client
  <2>3. QED
    BY <2>1, <2>2, OrderlyReturns
<1>7. CASE SkipFrame
  BY <1>7, OrderlyDrops DEF SkipFrame
<1>8. QED
  BY <1>1, <1>2, <1>3, <1>4, <1>5, <1>6, <1>7, OrderlyRecvInitAck, OrderlySendSegment, OrderlyRecvSegAck
     DEF ClientNext

-----------------------------------------------------------------------------
(* The server's steps                                                      *)

\* What holds of the line once its head is gone, if what the server has then
\* stored is what the head stood for.
LEMMA OrderlyLeaves ==
  ASSUME Typed, Orderly, Line # <<>>, Line' = Tail(Line), UNCHANGED <<client, world>>, Whole',
         \* the server
         Line[1].kind = "init" => stored' = <<>>,
         Line[1].kind = "seg" => \/ srvPhase' = "receiving" => Len(stored') = Line[1].idx
                                 \/ ~world.noWait /\ Len(Line) = 1,
         ~world.noWait /\ result = "ok" => srvPhase' = "committed",
         \* and what it answers
         \/ \A i \in 1..Len(s2c') : (i \in 1..Len(s2c) /\ s2c'[i] = s2c[i]) \/ s2c'[i].kind # "segAck"
         \/ /\ Line[1].kind = "seg" /\ Len(stored') = Line[1].idx
            /\ \A i \in 1..Len(s2c') : (i \in 1..Len(s2c) /\ s2c'[i] = s2c[i]) \/ i = Len(s2c')
  PROVE  Orderly'
<1> USE DEF client
<1>1. Line \in Seq(ReqFrames) /\ Line[1] \in ReqFrames /\ Line[1].kind \in {"init", "seg"}
  <2>1. Line \in Seq(ReqFrames)
    BY LineTyped
  <2>2. 1 \in 1..Len(Line)
    BY <2>1, Shrinks
  <2>3. Line[1] \in ReqFrames
    BY <2>1, <2>2, ElementOfSeq
  <2>4. QED
    BY <2>1, <2>3, FrameFields
<1>2. /\ Len(Line') \in Nat /\ Len(Line) = Len(Line') + 1
      /\ \A i \in 1..Len(Line') : i + 1 \in 1..Len(Line) /\ Line'[i] = Line[i + 1]
      /\ (Line' = <<>> <=> Len(Line) = 1) /\ 1 \in 1..Len(Line)
  BY <1>1, Shrinks
<1>3. Line' \in Seq(ReqFrames) /\ (Line' # <<>> => 1 \in 1..Len(Line') /\ Len(Line') \in 1..Len(Line'))
  <2>1. Line' \in Seq(ReqFrames)
    BY <1>1, HeadTailProperties
  <2>2. QED
    BY <2>1, Shrinks
<1>4. Chained'
  <2>1. ASSUME NEW i \in 1..(Len(Line') - 1)
        PROVE  /\ Line'[i + 1].kind = "init" => Line'[i].kind = "init"
               /\ Line'[i + 1].kind = "seg" => Line'[i + 1].idx = Rank(Line'[i]) + 1
    <3>1. i \in 1..Len(Line') /\ i + 1 \in 1..Len(Line') /\ i + 1 \in 1..(Len(Line) - 1)
      BY <1>2
    <3>2. Line'[i] = Line[i + 1] /\ Line'[i + 1] = Line[(i + 1) + 1]
      BY <1>2, <3>1
    <3>3. QED
      BY <3>1, <3>2 DEF Orderly, InLine, Chained
  <2>2. QED
    BY <2>1 DEF Chained, Rank
<1>5. Marked'
  BY <1>2 DEF Orderly, InLine, Marked
<1>6. ASSUME Line' # <<>>
      PROVE  /\ Line'[1].kind = "init" => Line[1].kind = "init"
             /\ Line'[1].kind = "seg" => Line'[1].idx = Rank(Line[1]) + 1
  <2>1. 1 \in 1..(Len(Line) - 1) /\ Line'[1] = Line[1 + 1]
    BY <1>2, <1>3, <1>6
  <2>2. QED
    BY <2>1 DEF Orderly, InLine, Chained
<1>7. Fits'
  <2>1. ASSUME Line' # <<>>, Line'[1].kind = "seg", srvPhase' = "receiving" PROVE Line'[1].idx = Len(stored') + 1
    <3>1. Len(Line) # 1
      BY <1>2, <2>1
    <3>2. Len(stored') = Rank(Line[1])
      <4>1. CASE Line[1].kind = "init"
        <5>1. Len(stored') = 0
          BY <4>1
        <5>2. QED
          BY <4>1, <5>1 DEF Rank
      <4>2. QED
        BY <1>1, <2>1, <3>1, <4>1 DEF Rank
    <3>3. QED
      BY <1>6, <2>1, <3>2
  <2>2. QED
    BY <1>6, <2>1 DEF Fits
<1>8. Fresh'
  <2>1. ASSUME pc \in {"start", "initWait"} PROVE stored' = <<>> /\ \A i \in 1..Len(Line') : Line'[i].kind = "init"
    BY <1>2, <2>1 DEF Orderly, Fresh
  <2>2. QED
    BY <2>1 DEF Fresh
<1>9. Follows'
  <2>1. ASSUME pc = "sending", Line' # <<>> PROVE Rank(Line'[Len(Line')]) = offset
    <3>1. Line'[Len(Line')] = Line[Len(Line)]
      BY <1>2, <1>3, <2>1
    <3>2. QED
      BY <2>1, <3>1 DEF Orderly, Follows
  <2>2. ASSUME pc = "sending", Line' = <<>>, srvPhase' = "receiving" PROVE Len(stored') = offset
    <3>1. Rank(Line[1]) = offset
      BY <1>2, <2>2 DEF Orderly, Follows
    <3>2. CASE Line[1].kind = "init"
      <4>1. Len(stored') = 0
        BY <3>2
      <4>2. QED
        BY <3>1, <3>2, <4>1 DEF Rank
    <3>3. CASE Line[1].kind = "seg"
      <4>1. world.noWait
        BY <1>2, <2>2, <3>3 DEF Orderly, StopAndWait
      <4>2. QED
        BY <2>2, <3>1, <3>3, <4>1 DEF Rank
    <3>4. QED
      BY <1>1, <3>2, <3>3
  <2>3. QED
    BY <2>1, <2>2 DEF Follows, Rank
<1>10. OkCommitted'
  BY DEF OkCommitted
<1>11. StopAndWait'
  <2>1. CASE world.noWait
    BY <2>1 DEF StopAndWait
  <2>2. CASE ~world.noWait
    <3>1. ASSUME NEW i \in 1..Len(Line'), Line'[i].kind = "seg"
          PROVE  i = Len(Line') /\ pc # "sending" /\ (pc = "ackWait" => Line'[i].idx = offset + 1)
      <4>1. i + 1 \in 1..Len(Line) /\ Line'[i] = Line[i + 1]
        BY <1>2
      <4>2. i + 1 = Len(Line)
        BY <2>2, <3>1, <4>1 DEF Orderly, StopAndWait
      <4>3. i = Len(Line')
        BY <1>2, <3>1, <4>2
      <4>4. QED
        BY <2>2, <3>1, <4>1, <4>3 DEF Orderly, StopAndWait
    <3>2. \A i \in 1..Len(Line') : Line'[i].kind \in {"init", "seg"}
      <4>1. \A i \in 1..Len(Line') : Line'[i] \in ReqFrames
        BY <1>3, ElementOfSeq
      <4>2. QED
        BY <4>1, FrameFields
    <3>3. ASSUME pc = "ackWait", NEW i \in 1..Len(s2c) PROVE s2c[i].kind # "segAck"
      BY <2>2, <3>3 DEF Orderly, StopAndWait
    <3>4. CASE \A i \in 1..Len(s2c') : (i \in 1..Len(s2c) /\ s2c'[i] = s2c[i]) \/ s2c'[i].kind # "segAck"
      <4>1. pc \in {"start", "initWait"} => \A i \in 1..Len(s2c') : s2c'[i].kind = "segAck" => i = 1
        BY <2>2, <3>4 DEF Orderly, StopAndWait
      <4>2. pc \in {"sending", "ackWait"} => \A i \in 1..Len(s2c') : s2c'[i].kind # "segAck"
        BY <2>2, <3>3, <3>4 DEF Orderly, StopAndWait
      <4>3. QED
        BY <2>2, <3>1, <3>2, <4>1, <4>2 DEF StopAndWait
    <3>5. CASE /\ Line[1].kind = "seg" /\ Len(stored') = Line[1].idx
               /\ \A i \in 1..Len(s2c') : (i \in 1..Len(s2c) /\ s2c'[i] = s2c[i]) \/ i = Len(s2c')
      <4>1. 1 = Len(Line) /\ Line' = <<>> /\ Len(Line') = 0
        BY <1>2, <2>2, <3>5 DEF Orderly, StopAndWait
      <4>2. pc \notin {"start", "initWait", "sending"}
        BY <1>2, <2>2, <3>5 DEF Orderly, StopAndWait, Fresh
      <4>3. ASSUME pc = "ackWait", NEW i \in 1..Len(s2c'), s2c'[i].kind = "segAck"
            PROVE  Len(stored') = offset + 1 /\ i = Len(s2c')
        <5>1. Line[1].idx = offset + 1
          BY <1>2, <2>2, <3>5, <4>3 DEF Orderly, StopAndWait
        <5>2. i = Len(s2c')
          BY <3>3, <3>5, <4>3
        <5>3. QED
          BY <3>5, <5>1, <5>2
      <4>4. pc = "ackWait" => \A i \in 1..Len(s2c') : s2c'[i].kind = "segAck" =>
              /\ Line' = <<>> /\ Len(stored') = offset + 1
              /\ \A j \in 1..Len(s2c') : s2c'[j].kind = "segAck" => j = i
        BY <4>1, <4>3
      <4>5. 1..0 = {}
        OBVIOUS
      <4>6. \A i \in 1..Len(Line') : FALSE
        BY <4>1, <4>5, Zenon
      <4>7. QED
        BY <4>2, <4>4, <4>6 DEF StopAndWait
    <3>6. QED
      BY <3>4, <3>5
  <2>3. QED
    BY <2>1, <2>2
<1>12. QED
  BY <1>4, <1>5, <1>7, <1>8, <1>9, <1>10, <1>11 DEF Orderly, InLine

\* The frame a server answers with, and the ones before it.
LEMMA Answered ==
  ASSUME Typed, NEW m \in RspFrames, s2c' = Append(s2c, m)
  PROVE  /\ \A i \in 1..Len(s2c') : (i \in 1..Len(s2c) /\ s2c'[i] = s2c[i]) \/ (i = Len(s2c') /\ s2c'[i] = m)
BY Grows DEF Typed, TypeOK

\* An initiate starts afresh what is empty anyway.
LEMMA OrderlySrvInitiate == Typed /\ Orderly /\ SrvInitiate => Orderly'
<1> SUFFICES ASSUME Typed, Orderly, SrvInitiate PROVE Orderly'
  OBVIOUS
<1>1. /\ c2s # <<>> /\ c2s' = Tail(c2s) /\ Head(c2s).kind = "init" /\ s2c' = Append(s2c, InitAck)
      /\ srvPhase' = "receiving" /\ stored' = <<>> /\ UNCHANGED <<client, txq, world>>
  BY DEF SrvInitiate, InitReq, given
<1>2. Line # <<>> /\ Line[1].kind = "init" /\ Line' = Tail(Line)
  BY <1>1, Leaves
<1>3. Whole'
  <2>1. Len(stored') = 0
    BY <1>1
  <2>2. QED
    BY <1>1, <2>1, ConstantsOK DEF Whole
<1>4. ~(~world.noWait /\ result = "ok")
  <2>1. Len(stored) = 0
    BY <1>2 DEF Orderly, InLine, Fits
  <2>2. srvPhase # "committed"
    BY <2>1, ConstantsOK DEF Orderly, InLine, Whole
  <2>3. QED
    BY <2>2 DEF Orderly, OkCommitted
<1>5. InitAck \in RspFrames /\ InitAck.kind # "segAck"
  BY FrameTypes DEF InitAck
<1>6. \A i \in 1..Len(s2c') : (i \in 1..Len(s2c) /\ s2c'[i] = s2c[i]) \/ s2c'[i].kind # "segAck"
  BY <1>1, <1>5, Answered
<1>7. QED
  BY <1>1, <1>2, <1>3, <1>4, <1>6, OrderlyLeaves

\* What the server accepts is what it is missing.
LEMMA OrderlySrvSegment == Typed /\ Orderly /\ SrvSegment => Orderly'
<1> SUFFICES ASSUME Typed, Orderly, SrvSegment PROVE Orderly'
  OBVIOUS
<1> DEFINE m == Head(c2s)
           refused == m.toggle # srvToggle \/ (m.last /\ srvSized /\ Len(Append(stored, m.idx)) # NumSegs)
<1>1. /\ c2s # <<>> /\ c2s' = Tail(c2s) /\ m.kind = "seg" /\ srvPhase = "receiving"
      /\ UNCHANGED <<client, txq, world>>
  BY DEF SrvSegment, given
<1>2. /\ Line # <<>> /\ Line[1] = m /\ Line' = Tail(Line) /\ m \in ReqFrames /\ 1 \in 1..Len(Line)
  BY <1>1, Leaves
<1>3. m.idx \in 1..NumSegs /\ m.idx = Len(stored) + 1 /\ (m.last <=> m.idx = NumSegs)
  BY <1>1, <1>2, FrameFields DEF Orderly, InLine, Fits, Marked
<1>4. ~(~world.noWait /\ result = "ok")
  BY <1>1 DEF Orderly, OkCommitted
<1>5. CASE refused
  <2>1. srvPhase' = "idle" /\ stored' = stored /\ s2c' = Append(s2c, Abort(TRUE, FALSE))
    BY <1>5 DEF SrvSegment, AbortTransfer
  <2>2. Whole'
    BY <1>1, <2>1 DEF Orderly, InLine, Whole
  <2>3. Abort(TRUE, FALSE) \in RspFrames /\ Abort(TRUE, FALSE).kind # "segAck"
    BY FrameTypes DEF Abort
  <2>4. \A i \in 1..Len(s2c') : (i \in 1..Len(s2c) /\ s2c'[i] = s2c[i]) \/ s2c'[i].kind # "segAck"
    BY <2>1, <2>3, Answered
  <2>5. QED
    BY <1>1, <1>2, <1>4, <2>1, <2>2, <2>4, OrderlyLeaves
<1>6. CASE ~refused
  <2>1. /\ stored' = Append(stored, m.idx) /\ s2c' = Append(s2c, SegAck(m.toggle))
        /\ srvPhase' = IF m.last THEN "committed" ELSE "receiving"
    BY <1>6 DEF SrvSegment
  <2> HIDE DEF refused
  <2>2. /\ Len(stored) \in Nat /\ Len(stored') = Len(stored) + 1 /\ \A i \in 1..Len(stored) : stored'[i] = stored[i]
        /\ stored'[Len(stored) + 1] = m.idx /\ \A i \in 1..Len(stored') : i \in 1..Len(stored) \/ i = Len(stored) + 1
    BY <1>3, <2>1, Grows DEF Typed, TypeOK
  <2>3. Whole'
    <3>1. Len(stored') <= NumSegs /\ \A i \in 1..Len(stored') : stored'[i] = i
      BY <1>3, <2>2, ConstantsOK DEF Orderly, InLine, Whole
    <3>2. Len(stored') = NumSegs <=> srvPhase' = "committed"
      BY <1>3, <2>1, <2>2
    <3>3. QED
      BY <3>1, <3>2 DEF Whole
  <2>4. SegAck(m.toggle) \in RspFrames
    BY <1>1, <1>2, FrameFields, FrameTypes
  <2>5. \A i \in 1..Len(s2c') : (i \in 1..Len(s2c) /\ s2c'[i] = s2c[i]) \/ i = Len(s2c')
    BY <2>1, <2>4, Answered
  <2>6. Len(stored') = Line[1].idx /\ Line[1].kind = "seg"
    BY <1>1, <1>2, <1>3, <2>2
  <2>7. QED
    BY <1>1, <1>2, <1>4, <2>3, <2>5, <2>6, OrderlyLeaves
<1>7. QED
  BY <1>5, <1>6

\* A segment outside a transfer leaves what is stored alone.
LEMMA OrderlySrvIgnore == Typed /\ Orderly /\ SrvIgnore => Orderly'
<1> SUFFICES ASSUME Typed, Orderly, SrvIgnore PROVE Orderly'
  OBVIOUS
<1>1. /\ c2s # <<>> /\ c2s' = Tail(c2s) /\ Head(c2s).kind = "seg" /\ srvPhase # "receiving"
      /\ UNCHANGED <<client, txq, s2c, srvPhase, stored, world>>
  BY DEF SrvIgnore, server, given
<1>2. Line # <<>> /\ Line[1].kind = "seg" /\ Line' = Tail(Line)
  BY <1>1, Leaves
<1>3. Whole' /\ (~world.noWait /\ result = "ok" => srvPhase' = "committed")
  BY <1>1 DEF Orderly, InLine, Whole, OkCommitted
<1>4. QED
  BY <1>1, <1>2, <1>3, OrderlyLeaves

\* A server that has given up takes nothing more.
LEMMA OrderlySrvAbort == Typed /\ Orderly /\ SrvAbort => Orderly'
<1> SUFFICES ASSUME Typed, Orderly, SrvAbort PROVE Orderly'
  OBVIOUS
<1>1. /\ srvPhase = "receiving" /\ srvPhase' = "idle" /\ s2c' = Append(s2c, Abort(TRUE, FALSE))
      /\ UNCHANGED <<client, txq, c2s, stored, world>>
  BY DEF SrvAbort, AbortTransfer, given
<1>2. Line' = Line
  BY <1>1 DEF Line
<1>3. InLine'
  BY <1>1, <1>2 DEF Orderly, InLine, Chained, Marked, Fits, Whole, Rank
<1>4. Fresh' /\ Follows' /\ OkCommitted'
  BY <1>1, <1>2 DEF Orderly, Fresh, Follows, OkCommitted, client, Rank
<1>5. Abort(TRUE, FALSE) \in RspFrames /\ Abort(TRUE, FALSE).kind # "segAck"
  BY FrameTypes DEF Abort
<1>6. \A i \in 1..Len(s2c') : s2c'[i].kind = "segAck" => i \in 1..Len(s2c) /\ s2c'[i] = s2c[i]
  BY <1>1, <1>5, Answered
<1>7. StopAndWait'
  <2>1. CASE world.noWait
    BY <1>1, <2>1 DEF StopAndWait
  <2>2. CASE ~world.noWait
    <3>1. pc \in {"start", "initWait"} => \A i \in 1..Len(s2c') : s2c'[i].kind = "segAck" => i = 1
      BY <1>6, <2>2 DEF Orderly, StopAndWait
    <3>2. pc = "sending" => \A i \in 1..Len(s2c') : s2c'[i].kind # "segAck"
      BY <1>6, <2>2 DEF Orderly, StopAndWait
    <3>3. pc = "ackWait" => \A i \in 1..Len(s2c') : s2c'[i].kind = "segAck" =>
            /\ Line = <<>> /\ Len(stored) = offset + 1
            /\ \A j \in 1..Len(s2c') : s2c'[j].kind = "segAck" => j = i
      BY <1>6, <2>2 DEF Orderly, StopAndWait
    <3>4. QED
      BY <1>1, <1>2, <2>2, <3>1, <3>2, <3>3 DEF Orderly, StopAndWait, client
  <2>3. QED
    BY <2>1, <2>2
<1>8. QED
  BY <1>3, <1>4, <1>7 DEF Orderly

\* A request is lost only where every segment is waited for, and then it is alone.
LEMMA OrderlyLose == Typed /\ Bearable /\ Orderly /\ Lose => Orderly'
<1> SUFFICES ASSUME Typed, Bearable, Orderly, Lose PROVE Orderly'
  OBVIOUS
<1>1. UNCHANGED <<client, txq, srvPhase, stored, world>>
  BY DEF Lose, server, given
<1>2. CASE s2c # <<>> /\ s2c' = Tail(s2c) /\ c2s' = c2s
  BY <1>1, <1>2, OrderlyDrops
<1>3. CASE c2s # <<>> /\ Head(c2s).kind \in world.lossy /\ c2s' = Tail(c2s) /\ s2c' = s2c
  <2>1. /\ Line # <<>> /\ Line[1] = Head(c2s) /\ Line' = Tail(Line) /\ 1 \in 1..Len(Line) /\ Line[1] \in ReqFrames
    BY <1>1, <1>3, Leaves
  <2>2. ~world.noWait
    <3>1. Line[1].kind \in {"init", "seg"}
      BY <2>1, FrameFields
    <3>2. QED
      BY <1>3, <2>1, <3>1 DEF Bearable, ServerKinds
  <2>3. Line[1].kind = "seg" => Len(Line) = 1
    BY <2>1, <2>2 DEF Orderly, StopAndWait
  <2>4. Line[1].kind = "init" => stored' = <<>>
    BY <1>1, <2>1 DEF Orderly, InLine, Fits
  <2>5. Whole' /\ (~world.noWait /\ result = "ok" => srvPhase' = "committed")
    BY <1>1 DEF Orderly, InLine, Whole, OkCommitted
  <2>6. QED
    BY <1>1, <1>3, <2>1, <2>2, <2>3, <2>4, <2>5, OrderlyLeaves
<1>4. QED
  BY <1>2, <1>3 DEF Lose

-----------------------------------------------------------------------------
(* What the server stores                                                  *)

\* At the start nothing is on its way ...
LEMMA OrderlyInit == Init => OrderlyInv
<1> SUFFICES ASSUME Init PROVE Orderly
  BY DEF OrderlyInv
<1>1. /\ pc = "start" /\ txq = <<>> /\ c2s = <<>> /\ stored = <<>> /\ srvPhase = "idle" /\ result = "pending"
  BY DEF Init
<1>2. Line = <<>> /\ Len(Line) = 0 /\ Len(stored) = 0
  <2>1. <<>> \in Seq(ReqFrames)
    BY EmptySeq
  <2>2. QED
    BY <1>1, <2>1, ConcatEmptySeq DEF Line
<1>3. InLine /\ Fresh /\ Follows /\ OkCommitted
  BY <1>1, <1>2, ConstantsOK DEF InLine, Chained, Marked, Fits, Whole, Fresh, Follows, OkCommitted
<1>4. \A i \in 1..Len(s2c) : i = 1
  <2>1. CASE s2c = <<>>
    BY <2>1
  <2>2. ASSUME NEW m \in Leftovers, s2c = <<m>> PROVE \A i \in 1..Len(s2c) : i = 1
    BY <2>2
  <2>3. QED
    BY <2>1, <2>2 DEF Init
<1>5. StopAndWait
  BY <1>1, <1>2, <1>4 DEF StopAndWait
<1>6. QED
  BY <1>3, <1>5 DEF Orderly

\* ... and every step keeps what is on its way in order, where the losses are bearable.
LEMMA OrderlyStep == Typed /\ OrderlyInv /\ [Next]_vars => OrderlyInv'
<1> SUFFICES ASSUME Typed, OrderlyInv, [Next]_vars, Bearable' PROVE Orderly'
  BY DEF OrderlyInv
<1>1. world' = world
  BY DEF Next, ClientNext, ServerNext, Initiate, ResendInitiate, RecvInitAck, RecvInitAbort, SendSegment, SendFails,
         RecvSegAck, RecvAbort, RecvFinal, SkipFrame, Timeout, Transmit, SrvInitiate, SrvSegment, SrvIgnore, SrvAbort,
         Lose, vars, given
<1>2. Bearable /\ Orderly
  BY <1>1 DEF Bearable, OrderlyInv
<1>3. CASE Transmit
  <2>1. Line' = Line
    BY <1>3, Passes
  <2>2. UNCHANGED <<client, s2c, srvPhase, stored, world>>
    BY <1>3 DEF Transmit, server, given
  <2>3. QED
    BY <1>2, <2>1, <2>2 DEF Orderly, InLine, Chained, Marked, Fits, Whole, Fresh, Follows, StopAndWait, OkCommitted,
       Rank, client
<1>4. CASE UNCHANGED vars
  BY <1>2, <1>4 DEF Orderly, InLine, Chained, Marked, Fits, Whole, Fresh, Follows, StopAndWait, OkCommitted,
     Rank, Line, vars, client, server, given
<1>5. QED
  BY <1>2, <1>3, <1>4, OrderlyClient, OrderlySrvInitiate, OrderlySrvSegment, OrderlySrvIgnore, OrderlySrvAbort,
     OrderlyLose DEF Next, ServerNext

\* The types, for every payload and every surroundings.
THEOREM TypeCorrect == Spec => []TypeOK
<1>1. Typed => TypeOK
  BY DEF Typed
<1>2. QED
  BY <1>1, TypedInit, TypedStep, PTL DEF Spec

\* Toggle and back-pressure keep a download together: what the server has accepted
\* is a prefix of the payload, whatever is lost and however late.
THEOREM StoredInOrder == Spec => []StoredIsPrefix
<1>1. OrderlyInv => StoredIsPrefix
  BY DEF OrderlyInv, Orderly, InLine, Whole, StoredIsPrefix
<1>2. QED
  BY <1>1, TypedInit, TypedStep, OrderlyInit, OrderlyStep, PTL DEF Spec

-----------------------------------------------------------------------------
(* What an acknowledged download promises                                  *)

\* A transfer commits nothing but the payload.
CommitsPayload == ~world.noWait /\ srvPhase = "committed" => stored = Payload

\* A server commits with the last segment, and has then all of them.
LEMMA CommitIsWhole == Typed /\ OrderlyInv => CommitsPayload
<1> SUFFICES ASSUME Typed, OrderlyInv, ~world.noWait, srvPhase = "committed" PROVE stored = Payload
  BY DEF CommitsPayload
<1>1. Whole
  BY DEF OrderlyInv, Bearable, Orderly, InLine
<1>2. Len(stored) = NumSegs /\ \A i \in 1..Len(stored) : stored[i] = i
  BY <1>1 DEF Whole
<1>3. stored \in Seq(1..NumSegs)
  BY DEF Typed, TypeOK
<1>4. stored = [i \in 1..NumSegs |-> i]
  BY <1>2, <1>3
<1>5. QED
  BY <1>4 DEF Payload

\* The server commits in one step, of its own, and what it has committed it keeps.
LEMMA CommitStep ==
  ASSUME Typed, OrderlyInv, OrderlyInv', [Next]_vars, ~world.noWait, world' = world
  PROVE  /\ srvPhase = "committed" => srvPhase' = "committed"
         /\ srvPhase # "committed" /\ srvPhase' = "committed" => result' = result
<1>1. CASE ClientNext \/ Transmit \/ Lose \/ UNCHANGED vars
  <2>1. srvPhase' = srvPhase
    BY <1>1 DEF ClientNext, Initiate, ResendInitiate, RecvInitAck, RecvInitAbort, SendSegment, SendFails, RecvSegAck,
       RecvAbort, RecvFinal, SkipFrame, Timeout, Transmit, Lose, vars, server
  <2>2. QED
    BY <2>1
<1>2. CASE ServerNext
  <2>1. result' = result
    BY <1>2 DEF ServerNext, SrvInitiate, SrvSegment, SrvIgnore, SrvAbort, client
  <2>2. ASSUME srvPhase = "committed" PROVE ~SrvInitiate
    <3>1. SUFFICES ASSUME SrvInitiate PROVE FALSE
      OBVIOUS
    <3>2. Line # <<>> /\ Line[1].kind = "init"
      BY <3>1, Leaves DEF SrvInitiate, InitReq
    <3>3. Len(stored) = 0 /\ Len(stored) = NumSegs
      BY <2>2, <3>2 DEF OrderlyInv, Bearable, Orderly, InLine, Fits, Whole
    <3>4. QED
      BY <3>3, ConstantsOK
  <2>3. srvPhase = "committed" => srvPhase' = "committed"
    BY <1>2, <2>2 DEF ServerNext, SrvSegment, SrvIgnore, SrvAbort, server
  <2>4. QED
    BY <2>1, <2>3
<1>3. QED
  BY <1>1, <1>2 DEF Next

\* A download returns once, in a step of the client.
LEMMA ReturnStep ==
  ASSUME Typed, [Next]_vars, result' # result
  PROVE  result = "pending" /\ result' \in {"ok", "error"} /\ srvPhase' = srvPhase
<1>1. CASE ClientNext
  <2>1. srvPhase' = srvPhase
    BY <1>1 DEF ClientNext, Initiate, ResendInitiate, RecvInitAck, RecvInitAbort, SendSegment, SendFails, RecvSegAck,
       RecvAbort, RecvFinal, SkipFrame, Timeout, server
  <2>2. pc # "returned" /\ result' \in {"ok", "error"}
    BY <1>1 DEF ClientNext, Initiate, ResendInitiate, RecvInitAck, RecvInitAbort, SendSegment, SendFails, RecvSegAck,
       RecvAbort, RecvFinal, SkipFrame, Timeout, Return, Deadline, DeadlineOfInitiate, client
  <2>3. QED
    BY <2>1, <2>2 DEF Typed, Client
<1>2. CASE ~ClientNext
  BY <1>2 DEF Next, Transmit, ServerNext, SrvInitiate, SrvSegment, SrvIgnore, SrvAbort, Lose, vars, client
<1>3. QED
  BY <1>1, <1>2

\* A step of the two ends, the adapter or the bus is one the contract allows, or none
\* of its business.
LEMMA TransferStep ==
  Typed /\ OrderlyInv /\ OrderlyInv' /\ CommitsPayload /\ CommitsPayload' /\ [Next]_vars =>
    [Contract!Next]_<<IF world.noWait THEN "pending" ELSE result,
                      IF srvPhase # "committed" \/ world.noWait THEN "before"
                      ELSE IF stored = Payload THEN "whole" ELSE "corrupt">>
<1> DEFINE outcome == IF world.noWait THEN "pending" ELSE result
           node == IF srvPhase # "committed" \/ world.noWait THEN "before"
                   ELSE IF stored = Payload THEN "whole" ELSE "corrupt"
<1> SUFFICES ASSUME Typed, OrderlyInv, OrderlyInv', CommitsPayload, CommitsPayload', [Next]_vars
             PROVE  [Contract!Next]_<<outcome, node>>
  OBVIOUS
<1>1. world' = world
  BY DEF Next, ClientNext, ServerNext, Initiate, ResendInitiate, RecvInitAck, RecvInitAbort, SendSegment, SendFails,
         RecvSegAck, RecvAbort, RecvFinal, SkipFrame, Timeout, Transmit, SrvInitiate, SrvSegment, SrvIgnore, SrvAbort,
         Lose, vars, given
<1>2. CASE world.noWait
  BY <1>1, <1>2
<1>3. CASE ~world.noWait
  <2>1. outcome = result /\ outcome' = result'
    BY <1>1, <1>3
  <2>2. node = IF srvPhase = "committed" THEN "whole" ELSE "before"
    BY <1>3 DEF CommitsPayload
  <2>3. node' = IF srvPhase' = "committed" THEN "whole" ELSE "before"
    BY <1>1, <1>3 DEF CommitsPayload
  <2>4. (result = "ok" => srvPhase = "committed") /\ (result' = "ok" => srvPhase' = "committed")
    BY <1>1, <1>3 DEF OrderlyInv, Bearable, Orderly, OkCommitted
  <2> HIDE DEF outcome, node
  <2>5. CASE result' = result /\ node' = node
    BY <2>1, <2>5
  <2>6. CASE node' # node
    <3>1. srvPhase # "committed" /\ srvPhase' = "committed" /\ result' = result
      BY <1>1, <1>3, <2>2, <2>3, <2>6, CommitStep
    <3>2. result # "ok"
      BY <2>4, <3>1
    <3>3. QED
      BY <2>1, <2>2, <2>3, <3>1, <3>2 DEF Contract!Next, Contract!Commit, outcome, node
  <2>7. CASE result' # result /\ node' = node
    <3>1. result = "pending" /\ result' \in {"ok", "error"} /\ srvPhase' = srvPhase
      BY <2>7, ReturnStep
    <3>2. result' = "ok" => node = "whole"
      BY <2>2, <2>4, <3>1
    <3>3. QED
      BY <2>1, <2>7, <3>1, <3>2 DEF Contract!Next, Contract!ReturnOk, Contract!ReturnError, outcome, node
  <2>8. QED
    BY <2>5, <2>6, <2>7
<1>4. QED
  BY <1>2, <1>3

\* An acknowledged download keeps the promise the firmware download builds on: Ok only
\* after the node has taken the object, whole and undamaged.
THEOREM Refines == Spec => ImplementsTransfer
<1>1. Init => Contract!Init
  BY DEF Init, Contract!Init
<1>2. QED
  BY <1>1, TransferStep, CommitIsWhole, TypedInit, TypedStep, OrderlyInit, OrderlyStep, PTL
     DEF Spec, ImplementsTransfer, Contract!Spec
=============================================================================
