----------------------- MODULE SdoBlockDownload_proofs -----------------------
(***************************************************************************)
(* Safety of the block download for every payload length, block size,      *)
(* stall limit and surroundings, whatever the timers and the server do.    *)
(***************************************************************************)
EXTENDS SdoBlockDownload, SequenceTheorems, TLAPS

\* What the types leave open about where the client stands.
ClientBounds ==
  /\ pc = "start" => sends = 0
  /\ pc \in {"start", "initWait"} => offset = 0 /\ seqno = 1
  /\ pc = "sending" => offset + seqno <= NumSegs /\ seqno <= blksize
  /\ pc # "returned" => stall <= MaxStall
  /\ pc = "returned" <=> result # "pending"

Contains(q, k) == \E i \in 1..Len(q) : q[i].kind = k

\* An end request in a channel is its last frame, and says c of the CRC.
OnlyLastEnds(q, c) ==
  \A i \in 1..Len(q) : q[i].kind = "end" => i = Len(q) /\ q[i].crc = c

\* The end request is the last thing the client sends, and carries a CRC if
\* and only if one was negotiated.
EndIsLast ==
  /\ Contains(c2s, "end") => pc \in {"endWait", "returned"} /\ srvPhase # "committed"
  /\ OnlyLastEnds(c2s, crc)

\* Once the server has committed it has nothing left to react to, and what it
\* has committed is the payload if the CRC was checked.
CommitIsFinal ==
  srvPhase = "committed" =>
    /\ c2s = <<>>
    /\ pc \in {"endWait", "returned"}
    /\ crc => stored = Payload

\* An end acknowledgement, received or on its way, comes from a commit.
EndAckMeansCommit ==
  /\ Contains(s2c, "endAck") => srvPhase = "committed"
  /\ result = "ok" => srvPhase = "committed"

Ending == EndIsLast /\ CommitIsFinal /\ EndAckMeansCommit

IInv == TypeOK /\ ClientBounds /\ Ending

-----------------------------------------------------------------------------
(* Frames and channels                                                     *)

\* The fields of the responses, whatever kind of response turns up.
LEMMA RspFields ==
  ASSUME NEW m \in RspFrames
  PROVE  /\ m.kind = "initAck" => m.blk \in BlkSizes /\ m.crc \in BOOLEAN
         /\ m.kind = "subAck" => m.ack \in 0..MaxBlk /\ m.blk \in BlkSizes \cup {DefaultBlk}
  BY DEF RspFrames, EndAck, Abort

\* The fields of the requests.
LEMMA ReqFields ==
  ASSUME NEW m \in ReqFrames
  PROVE  /\ m.kind = "seg" => m.seq \in 1..MaxBlk /\ m.idx \in 1..NumSegs
         /\ m.kind = "end" => m.crc \in BOOLEAN
  BY DEF ReqFrames, InitReq, EndReq

\* Every frame the two ends build is one of those.
LEMMA FrameTypes ==
  /\ InitReq \in ReqFrames
  /\ \A c \in BOOLEAN : EndReq(c) \in ReqFrames
  /\ \A s \in 1..MaxBlk, i \in 1..NumSegs : SegReq(s, i) \in ReqFrames
  /\ EndAck \in RspFrames
  /\ \A o, s \in BOOLEAN : Abort(o, s) \in RspFrames
  /\ \A b \in BlkSizes, c \in BOOLEAN : InitAck(b, c) \in RspFrames
  /\ \A a \in 0..MaxBlk, b \in BlkSizes \cup {DefaultBlk} : SubAck(a, b) \in RspFrames
<1>1. InitReq \in ReqFrames /\ \A c \in BOOLEAN : EndReq(c) \in ReqFrames
  BY DEF ReqFrames, InitReq, EndReq
<1>2. ASSUME NEW s \in 1..MaxBlk, NEW i \in 1..NumSegs PROVE SegReq(s, i) \in ReqFrames
  <2>1. (i = NumSegs) \in BOOLEAN
    OBVIOUS
  <2>2. SegReq(s, i) \in [kind : {"seg"}, seq : 1..MaxBlk, idx : 1..NumSegs, last : BOOLEAN]
    BY <2>1 DEF SegReq
  <2>3. QED
    BY <2>2 DEF ReqFrames
<1>3. EndAck \in RspFrames /\ \A o, s \in BOOLEAN : Abort(o, s) \in RspFrames
  BY DEF RspFrames, EndAck
<1>4. \A b \in BlkSizes, c \in BOOLEAN : InitAck(b, c) \in RspFrames
  BY DEF RspFrames, InitAck
<1>5. \A a \in 0..MaxBlk, b \in BlkSizes \cup {DefaultBlk} : SubAck(a, b) \in RspFrames
  BY DEF RspFrames, SubAck
<1>6. QED
  BY <1>1, <1>2, <1>3, <1>4, <1>5

\* The block size in use is always a legal one.
LEMMA EffectiveBlkRange ==
  ASSUME NEW b \in BlkSizes \cup {DefaultBlk}
  PROVE  EffectiveBlk(b) \in 1..MaxBlk
  BY ConstantsOK DEF EffectiveBlk

\* What the surroundings of a transfer may be.
LEMMA WorldFields ==
  ASSUME NEW w \in Worlds
  PROVE  w.blks \subseteq BlkSizes /\ w.maxLoss \in Nat
  BY ConstantsOK DEF World

\* A kind of frame that is in the tail of a channel was in the channel.
LEMMA ContainsTail ==
  ASSUME NEW S, NEW q \in Seq(S), q # <<>>, NEW k, Contains(Tail(q), k)
  PROVE  Contains(q, k)
  BY HeadTailProperties DEF Contains

\* Appending a frame of another kind adds none of this kind.
LEMMA ContainsAppend ==
  ASSUME NEW S, NEW q \in Seq(S), NEW m \in S, NEW k, m.kind # k, Contains(Append(q, m), k)
  PROVE  Contains(q, k)
  BY AppendProperties DEF Contains

-----------------------------------------------------------------------------
(* Types                                                                   *)

Typed == TypeOK /\ ClientBounds

\* The initial state is well typed ...
LEMMA TypedInit == Init => Typed
<1> SUFFICES ASSUME Init PROVE Typed
  OBVIOUS
<1>1. s2c \in Seq(RspFrames)
  <2>1. Abort(TRUE, TRUE) \in RspFrames /\ Abort(FALSE, FALSE) \in RspFrames
    BY FrameTypes
  <2>2. 1 \in 0..MaxBlk /\ DefaultBlk \in BlkSizes \cup {DefaultBlk}
    BY ConstantsOK
  <2>3. SubAck(1, DefaultBlk) \in RspFrames
    BY <2>2, FrameTypes
  <2>4. Leftovers \subseteq RspFrames
    BY <2>1, <2>3 DEF Leftovers
  <2>5. ASSUME NEW m \in RspFrames PROVE <<m>> \in Seq(RspFrames)
    OBVIOUS
  <2>6. s2c \in {<<>>} \cup {<<m>> : m \in Leftovers}
    BY DEF Init
  <2>7. CASE s2c = <<>>
    BY <2>7
  <2>8. CASE \E m \in Leftovers : s2c = <<m>>
    BY <2>4, <2>5, <2>8
  <2>9. QED
    BY <2>6, <2>7, <2>8
<1>2. TypeOK
  <2>1. c2s \in Seq(ReqFrames) /\ stored \in Seq(1..NumSegs)
    BY DEF Init
  <2>2. offset = 0 /\ seqno = 1 /\ blksize = DefaultBlk /\ stall = 0 /\ sends = 0
    BY DEF Init
  <2>3. srvBlk = DefaultBlk /\ srvSeq = 0 /\ losses = 0
    BY DEF Init
  <2>4. /\ pc = "start" /\ result = "pending" /\ srvPhase = "idle"
        /\ crc \in BOOLEAN /\ srvSaw \in BOOLEAN
        /\ srvInit \in BlkSizes /\ srvCrc \in BOOLEAN
    <3>1. world \in Worlds /\ srvInit \in world.blks
      BY DEF Init
    <3>2. QED
      BY <3>1, WorldFields DEF Init
  <2>5. world \in Worlds /\ losses \in 0..world.maxLoss
    <3>1. world \in Worlds
      BY DEF Init
    <3>2. QED
      BY <2>3, <3>1, WorldFields
  <2>6. QED
    BY <1>1, <2>1, <2>2, <2>3, <2>4, <2>5, ConstantsOK DEF TypeOK
<1>3. ClientBounds
  BY ConstantsOK DEF Init, ClientBounds
<1>4. QED
  BY <1>2, <1>3 DEF Typed

\* A step of the client keeps every variable within its type.
LEMMA TypedClient == Typed /\ ClientNext => Typed'
<1> SUFFICES ASSUME Typed, ClientNext PROVE Typed'
  OBVIOUS
<1> USE ConstantsOK DEF Typed, TypeOK, ClientBounds
<1>1. CASE Initiate
  <2>1. \A k \in 0..Len(s2c) : SubSeq(s2c, k + 1, Len(s2c)) \in Seq(RspFrames)
    BY SubSeqProperties
  <2>2. c2s' \in Seq(ReqFrames)
    BY <1>1, FrameTypes, AppendProperties DEF Initiate
  <2>3. QED
    BY <1>1, <2>1, <2>2 DEF Initiate, server, given
<1>2. CASE ResendInitiate
  <2>1. c2s' \in Seq(ReqFrames)
    BY <1>2, FrameTypes, AppendProperties DEF ResendInitiate
  <2>2. QED
    BY <1>2, <2>1 DEF ResendInitiate, server, given
<1>3. CASE RecvInitAck
  <2>1. Head(s2c) \in RspFrames /\ Tail(s2c) \in Seq(RspFrames)
    BY <1>3, HeadTailProperties DEF RecvInitAck
  <2>2. blksize' \in 1..MaxBlk /\ crc' \in BOOLEAN
    BY <1>3, <2>1, RspFields, EffectiveBlkRange DEF RecvInitAck
  <2>3. QED
    BY <1>3, <2>1, <2>2 DEF RecvInitAck, server, given
<1>4. CASE RecvInitAbort
  <2>1. Tail(s2c) \in Seq(RspFrames)
    BY <1>4, HeadTailProperties DEF RecvInitAbort
  <2>2. Append(c2s, InitReq) \in Seq(ReqFrames)
    BY FrameTypes, AppendProperties
  <2>3. CASE Head(s2c).stale /\ sends < MaxSends
    <3>1. /\ c2s' = Append(c2s, InitReq) /\ sends' = sends + 1
          /\ UNCHANGED <<pc, result>>
      BY <1>4, <2>3 DEF RecvInitAbort
    <3>2. sends' \in 0..MaxSends
      BY <3>1, <2>3
    <3>3. QED
      BY <1>4, <2>1, <2>2, <3>1, <3>2 DEF RecvInitAbort, server, given
  <2>4. CASE ~(Head(s2c).stale /\ sends < MaxSends)
    BY <1>4, <2>1, <2>2, <2>4 DEF RecvInitAbort, Fail, server, given
  <2>5. QED
    BY <2>3, <2>4
<1>5. CASE SendSegment
  <2>1. seqno \in 1..MaxBlk /\ offset + seqno \in 1..NumSegs
    BY <1>5 DEF SendSegment
  <2>2. c2s' \in Seq(ReqFrames)
    BY <1>5, <2>1, FrameTypes, AppendProperties DEF SendSegment
  <2>3. QED
    BY <1>5, <2>1, <2>2 DEF SendSegment, server, given
<1>6. CASE RecvSubAck
  <2>1. Head(s2c) \in RspFrames /\ Tail(s2c) \in Seq(RspFrames)
    BY <1>6, HeadTailProperties DEF RecvSubAck
  <2>2. /\ Head(s2c).ack \in 0..MaxBlk
        /\ EffectiveBlk(Head(s2c).blk) \in 1..MaxBlk
    BY <1>6, <2>1, RspFields, EffectiveBlkRange DEF RecvSubAck, Stalls
  <2>3. CASE OutOfRange(Head(s2c).ack)
    BY <1>6, <2>1, <2>3 DEF RecvSubAck, Fail, server, given
  <2>4. CASE ~OutOfRange(Head(s2c).ack)
    <3> DEFINE ack == Head(s2c).ack
    <3>0. /\ offset' = AckedOffset(ack)
          /\ stall' = IF ack = 0 THEN stall + 1 ELSE 0
          /\ stall <= MaxStall
      BY <1>6, <2>4 DEF RecvSubAck, Stalls
    <3>1. offset' \in 0..NumSegs /\ stall' \in 0..(MaxStall + 1)
      BY <3>0, <2>2 DEF AckedOffset
    <3>2. CASE stall' > MaxStall
      BY <1>6, <2>1, <2>4, <3>1, <3>2 DEF RecvSubAck, Stalls, Fail, server, given
    <3>3. CASE ~(stall' > MaxStall)
      BY <1>6, <2>1, <2>2, <2>4, <3>1, <3>3 DEF RecvSubAck, Stalls, server, given
    <3>4. QED
      BY <3>2, <3>3
  <2>5. QED
    BY <2>3, <2>4
<1>7. CASE SendEnd
  <2>1. c2s' \in Seq(ReqFrames)
    BY <1>7, FrameTypes, AppendProperties DEF SendEnd
  <2>2. QED
    BY <1>7, <2>1 DEF SendEnd, server, given
<1>8. CASE RecvEndAck \/ RecvAbort
  <2>1. Tail(s2c) \in Seq(RspFrames)
    BY <1>8, HeadTailProperties DEF RecvEndAck, RecvAbort
  <2>2. QED
    BY <1>8, <2>1 DEF RecvEndAck, RecvAbort, Fail, server, given
<1>9. CASE SkipFrame
  <2>1. Tail(s2c) \in Seq(RspFrames)
    BY <1>9, HeadTailProperties DEF SkipFrame
  <2>2. QED
    BY <1>9, <2>1 DEF SkipFrame, client, server, given
<1>10. CASE Timeout
  BY <1>10 DEF Timeout, Fail, server, given
<1>11. CASE SendRefused
  <2>1. \A k \in 0..Len(s2c) : SubSeq(s2c, k + 1, Len(s2c)) \in Seq(RspFrames)
    BY SubSeqProperties
  <2>2. s2c # <<>> => Tail(s2c) \in Seq(RspFrames)
    BY HeadTailProperties
  <2>3. s2c' \in Seq(RspFrames)
    BY <1>11, <2>1, <2>2 DEF SendRefused
  <2>4. QED
    BY <1>11, <2>3 DEF SendRefused, Fail, server, given
<1>12. QED
  BY <1>1, <1>2, <1>3, <1>4, <1>5, <1>6, <1>7, <1>8, <1>9, <1>10, <1>11 DEF ClientNext

\* So does a step of the server.
LEMMA TypedServer == Typed /\ ServerNext => Typed'
<1> SUFFICES ASSUME Typed, ServerNext PROVE Typed'
  OBVIOUS
<1> USE ConstantsOK DEF Typed, TypeOK, ClientBounds
<1>1. ASSUME NEW b \in BlkSizes, NewSubBlock(b)
      PROVE  srvBlk' \in 1..MaxBlk /\ srvSeq' \in 0..MaxBlk /\ srvSaw' \in BOOLEAN
  <2>1. EffectiveBlk(b) \in 1..MaxBlk /\ 0 \in 0..MaxBlk
    BY EffectiveBlkRange
  <2>2. srvBlk' = EffectiveBlk(b) /\ srvSeq' = 0 /\ srvSaw' = FALSE
    BY <1>1 DEF NewSubBlock
  <2>3. QED
    BY <2>1, <2>2
<1>2. ASSUME NEW a \in 0..MaxBlk, NEW b \in BlkSizes
      PROVE  Append(s2c, SubAck(a, b)) \in Seq(RspFrames)
  BY FrameTypes, AppendProperties
<1>3. CASE SrvInitiate
  <2>1. Tail(c2s) \in Seq(ReqFrames) /\ Append(s2c, InitAck(srvInit, srvCrc)) \in Seq(RspFrames)
    BY <1>3, HeadTailProperties, FrameTypes, AppendProperties DEF SrvInitiate
  <2>2. QED
    BY <1>1, <1>3, <2>1 DEF SrvInitiate, client, given
<1>4. CASE SrvSegment
  <2> DEFINE m == Head(c2s)
             got == IF m.seq = srvSeq + 1 THEN m.seq ELSE srvSeq
  <2>1. Tail(c2s) \in Seq(ReqFrames) /\ m \in ReqFrames
    BY <1>4, HeadTailProperties DEF SrvSegment
  <2>2. m.seq \in 1..MaxBlk /\ m.idx \in 1..NumSegs /\ got \in 0..MaxBlk
    BY <1>4, <2>1, ReqFields DEF SrvSegment
  <2>3. stored' \in Seq(1..NumSegs) /\ srvPhase' \in {"full", "block"} /\ c2s' \in Seq(ReqFrames)
    BY <1>4, <2>1, <2>2, AppendProperties DEF SrvSegment
  <2>4. /\ s2c' \in Seq(RspFrames)
        /\ srvBlk' \in 1..MaxBlk /\ srvSeq' \in 0..MaxBlk /\ srvSaw' \in BOOLEAN
    <3>1. CASE m.seq = srvBlk \/ m.last
      BY <1>1, <1>2, <1>4, <2>2, <3>1, WorldFields DEF SrvSegment
    <3>2. CASE ~(m.seq = srvBlk \/ m.last)
      BY <1>4, <2>2, <3>2 DEF SrvSegment
    <3>3. QED
      BY <3>1, <3>2
  <2>5. QED
    BY <1>4, <2>3, <2>4 DEF SrvSegment, client, given
<1>5. CASE SrvSubBlockTimeout
  <2>1. /\ s2c' \in Seq(RspFrames)
        /\ srvBlk' \in 1..MaxBlk /\ srvSeq' \in 0..MaxBlk /\ srvSaw' \in BOOLEAN
    BY <1>1, <1>2, <1>5, WorldFields DEF SrvSubBlockTimeout
  <2>2. QED
    BY <1>5, <2>1 DEF SrvSubBlockTimeout, client, given
<1>6. CASE SrvEnd
  <2>1. Tail(c2s) \in Seq(ReqFrames)
    BY <1>6, HeadTailProperties DEF SrvEnd
  <2>2. Append(s2c, EndAck) \in Seq(RspFrames) /\ Append(s2c, Abort(TRUE, FALSE)) \in Seq(RspFrames)
    BY FrameTypes, AppendProperties
  <2>3. QED
    BY <1>6, <2>1, <2>2 DEF SrvEnd, client, given
<1>7. CASE SrvIgnore
  <2>1. Tail(c2s) \in Seq(ReqFrames)
    BY <1>7, HeadTailProperties DEF SrvIgnore
  <2>2. QED
    BY <1>7, <2>1 DEF SrvIgnore, client, server, given
<1>8. CASE SrvAbort
  <2>1. \A stale \in BOOLEAN : Append(s2c, Abort(TRUE, stale)) \in Seq(RspFrames)
    BY FrameTypes, AppendProperties
  <2>2. QED
    BY <1>8, <2>1 DEF SrvAbort, client, given
<1>9. QED
  BY <1>3, <1>4, <1>5, <1>6, <1>7, <1>8 DEF ServerNext

\* And so does the loss of a frame.
LEMMA TypedLose == Typed /\ Lose => Typed'
<1> SUFFICES ASSUME Typed, Lose PROVE Typed'
  OBVIOUS
<1> USE ConstantsOK DEF Typed, TypeOK, ClientBounds
<1>1. /\ c2s' \in Seq(ReqFrames) /\ s2c' \in Seq(RspFrames)
      /\ losses' \in 0..world.maxLoss
  <2>1. losses' \in 0..world.maxLoss
    BY WorldFields DEF Lose
  <2>2. c2s # <<>> => Tail(c2s) \in Seq(ReqFrames)
    BY HeadTailProperties
  <2>3. s2c # <<>> => Tail(s2c) \in Seq(RspFrames)
    BY HeadTailProperties
  <2>4. QED
    BY <2>1, <2>2, <2>3 DEF Lose
<1>2. QED
  BY <1>1 DEF Lose, client, server, given

\* ... and every step keeps it so.
LEMMA TypedStep == Typed /\ [Next]_vars => Typed'
<1>1. Typed /\ UNCHANGED vars => Typed'
  BY DEF Typed, TypeOK, ClientBounds, vars, client, server, given
<1>2. QED
  BY <1>1, TypedClient, TypedServer, TypedLose DEF Next

\* Every variable keeps within its type for every size of payload and block:
\* no sequence number ever exceeds MaxBlk, no segment lies outside the payload.
THEOREM TypeCorrect == Spec => []TypeOK
<1>1. Typed => TypeOK
  BY DEF Typed
<1>2. QED
  BY <1>1, TypedInit, TypedStep, PTL DEF Spec

-----------------------------------------------------------------------------
(* The end of a transfer                                                   *)

\* What SubSeq leaves of a channel holds nothing new.
LEMMA ContainsSuffix ==
  ASSUME NEW S, NEW q \in Seq(S), NEW k \in 0..Len(q), NEW x,
         Contains(SubSeq(q, k + 1, Len(q)), x)
  PROVE  Contains(q, x)
  BY SubSeqProperties DEF Contains

\* Where there is no end request, none is out of place.
LEMMA NoEnd ==
  ASSUME NEW S, NEW q \in Seq(S), NEW c, ~Contains(q, "end")
  PROVE  OnlyLastEnds(q, c)
  BY DEF Contains, OnlyLastEnds

\* An end request goes to the end of the channel ...
LEMMA EndAppended ==
  ASSUME NEW S, NEW q \in Seq(S), NEW c, ~Contains(q, "end"),
         NEW m \in S, m.kind = "end" => m.crc = c
  PROVE  OnlyLastEnds(Append(q, m), c)
  BY AppendProperties DEF Contains, OnlyLastEnds

\* ... and leaves it as the last frame.
LEMMA EndTaken ==
  ASSUME NEW S, NEW q \in Seq(S), NEW c, q # <<>>, OnlyLastEnds(q, c)
  PROVE  /\ OnlyLastEnds(Tail(q), c)
         /\ Head(q).kind = "end" => Tail(q) = <<>> /\ Head(q).crc = c /\ Contains(q, "end")
<1>1. OnlyLastEnds(Tail(q), c)
  BY HeadTailProperties DEF OnlyLastEnds
<1>2. ASSUME Head(q).kind = "end" PROVE Tail(q) = <<>> /\ Head(q).crc = c /\ Contains(q, "end")
  <2>1. Len(q) \in Nat /\ Len(q) >= 1 /\ Head(q) = q[1]
    BY HeadTailProperties, EmptySeq, LenProperties
  <2>2. Len(q) = 1 /\ Head(q).crc = c
    <3>1. 1 \in 1..Len(q) /\ q[1].kind = "end"
      BY <1>2, <2>1
    <3>2. 1 = Len(q) /\ q[1].crc = c
      BY <3>1 DEF OnlyLastEnds
    <3>3. QED
      BY <2>1, <3>2
  <2>3. Tail(q) \in Seq(S) /\ Len(Tail(q)) = 0
    BY <2>2, HeadTailProperties
  <2>4. Tail(q) = <<>>
    BY <2>3, EmptySeq
  <2>5. QED
    BY <1>2, <2>1, <2>2, <2>4 DEF Contains
<1>3. QED
  BY <1>1, <1>2

\* Until the client has sent its end request nothing has been committed, and
\* a step that sends none keeps it so.
LEMMA BeforeEnd ==
  ASSUME Typed, Ending, pc \notin {"endWait", "returned"},
         srvPhase' = srvPhase, result' \in {"pending", "error"},
         \/ s2c' = s2c
         \/ s2c # <<>> /\ s2c' = Tail(s2c)
         \/ \E k \in 0..Len(s2c) : s2c' = SubSeq(s2c, k + 1, Len(s2c)),
         \/ c2s' = c2s
         \/ \E m \in ReqFrames : m.kind # "end" /\ c2s' = Append(c2s, m)
  PROVE  Ending'
<1> USE DEF Typed, TypeOK, Ending, EndIsLast, CommitIsFinal, EndAckMeansCommit
<1>1. srvPhase # "committed" /\ ~Contains(c2s, "end") /\ ~Contains(s2c, "endAck")
  OBVIOUS
<1>2. ~Contains(s2c', "endAck")
  BY <1>1, ContainsTail, ContainsSuffix
<1>3. ~Contains(c2s', "end")
  BY <1>1, ContainsAppend
<1>4. OnlyLastEnds(c2s', crc')
  <2>1. \A m \in ReqFrames : Append(c2s, m) \in Seq(ReqFrames)
    BY AppendProperties
  <2>2. c2s' \in Seq(ReqFrames)
    BY <2>1
  <2>3. QED
    BY <1>3, <2>2, NoEnd
<1>5. QED
  BY <1>1, <1>2, <1>3, <1>4

\* A step of the client keeps the end of the transfer in order.
LEMMA EndingClient == Typed /\ Ending /\ ClientNext => Ending'
<1> SUFFICES ASSUME Typed, Ending, ClientNext PROVE Ending'
  OBVIOUS
<1>1. CASE Initiate
  <2>1. InitReq \in ReqFrames /\ InitReq.kind # "end" /\ result \in {"pending", "error"}
    BY <1>1, FrameTypes DEF InitReq, Typed, TypeOK, ClientBounds, Initiate
  <2>2. QED
    BY <1>1, <2>1, BeforeEnd DEF Initiate, server, given
<1>2. CASE ResendInitiate
  <2>1. InitReq \in ReqFrames /\ InitReq.kind # "end" /\ result \in {"pending", "error"}
    BY <1>2, FrameTypes DEF InitReq, Typed, TypeOK, ClientBounds, ResendInitiate
  <2>2. QED
    BY <1>2, <2>1, BeforeEnd DEF ResendInitiate, server, given
<1>3. CASE RecvInitAck
  <2>1. result \in {"pending", "error"}
    BY <1>3 DEF Typed, TypeOK, ClientBounds, RecvInitAck
  <2>2. QED
    BY <1>3, <2>1, BeforeEnd DEF RecvInitAck, server, given
<1>4. CASE RecvInitAbort
  <2>1. InitReq \in ReqFrames /\ InitReq.kind # "end" /\ result \in {"pending", "error"}
    BY <1>4, FrameTypes DEF InitReq, Typed, TypeOK, ClientBounds, RecvInitAbort
  <2>2. result' \in {"pending", "error"}
    BY <1>4, <2>1 DEF RecvInitAbort, Fail
  <2>3. c2s' = c2s \/ \E m \in ReqFrames : m.kind # "end" /\ c2s' = Append(c2s, m)
    BY <1>4, <2>1 DEF RecvInitAbort
  <2>4. QED
    BY <1>4, <2>2, <2>3, BeforeEnd DEF RecvInitAbort, server, given
<1>5. CASE SendSegment
  <2>1. seqno \in 1..MaxBlk /\ offset + seqno \in 1..NumSegs /\ result \in {"pending", "error"}
    BY <1>5, ConstantsOK DEF Typed, TypeOK, ClientBounds, SendSegment
  <2>2. SegReq(seqno, offset + seqno) \in ReqFrames
    BY <2>1, FrameTypes
  <2>3. SegReq(seqno, offset + seqno).kind # "end"
    BY DEF SegReq
  <2>4. QED
    BY <1>5, <2>1, <2>2, <2>3, BeforeEnd DEF SendSegment, server, given
<1>6. CASE RecvSubAck
  <2>1. result' \in {"pending", "error"}
    BY <1>6 DEF Typed, TypeOK, ClientBounds, RecvSubAck, Fail
  <2>2. QED
    BY <1>6, <2>1, BeforeEnd DEF RecvSubAck, server, given
<1>7. CASE SendEnd
  <2> USE DEF Typed, TypeOK, Ending, EndIsLast, CommitIsFinal, EndAckMeansCommit
  <2>1. srvPhase # "committed" /\ ~Contains(c2s, "end")
    BY <1>7 DEF SendEnd
  <2>2. EndReq(crc) \in ReqFrames /\ EndReq(crc).crc = crc
    BY FrameTypes DEF EndReq
  <2>3. OnlyLastEnds(c2s', crc')
    BY <1>7, <2>1, <2>2, EndAppended DEF SendEnd
  <2>4. QED
    BY <1>7, <2>1, <2>3 DEF SendEnd, server, given
<1>8. CASE RecvEndAck
  <2> USE DEF Typed, TypeOK, Ending, EndIsLast, CommitIsFinal, EndAckMeansCommit
  <2>1. Contains(s2c, "endAck")
    <3>1. Len(s2c) >= 1 /\ Head(s2c) = s2c[1] /\ Len(s2c) \in Nat
      BY <1>8, HeadTailProperties, EmptySeq, LenProperties DEF RecvEndAck
    <3>2. s2c[1].kind = "endAck" /\ 1 \in 1..Len(s2c)
      BY <1>8, <3>1 DEF RecvEndAck, IsEndAck
    <3>3. QED
      BY <3>2 DEF Contains
  <2>2. srvPhase = "committed"
    BY <2>1
  <2>3. QED
    BY <1>8, <2>2 DEF RecvEndAck, server, given
<1>9. CASE RecvAbort \/ SkipFrame
  <2> USE DEF Typed, TypeOK, Ending, EndIsLast, CommitIsFinal, EndAckMeansCommit
  <2>1. Contains(s2c', "endAck") => Contains(s2c, "endAck")
    BY <1>9, ContainsTail DEF RecvAbort, SkipFrame
  <2>2. QED
    BY <1>9, <2>1 DEF RecvAbort, SkipFrame, Fail, client, server, given
<1>10. CASE Timeout
  <2> USE DEF Typed, TypeOK, Ending, EndIsLast, CommitIsFinal, EndAckMeansCommit
  <2>1. pc' = "returned" /\ result' = "error" /\ UNCHANGED <<crc, c2s, s2c, srvPhase, stored>>
    BY <1>10 DEF Timeout, Fail, server, given
  <2>2. QED
    BY <2>1
<1>11. CASE SendRefused
  <2>1. /\ pc \notin {"endWait", "returned"} /\ result' = "error"
        /\ UNCHANGED <<c2s, srvPhase>>
        /\ \/ s2c' = s2c
           \/ s2c # <<>> /\ s2c' = Tail(s2c)
           \/ \E k \in 0..Len(s2c) : s2c' = SubSeq(s2c, k + 1, Len(s2c))
    BY <1>11 DEF SendRefused, Fail, server
  <2>2. QED
    BY <2>1, BeforeEnd
<1>12. QED
  BY <1>1, <1>2, <1>3, <1>4, <1>5, <1>6, <1>7, <1>8, <1>9, <1>10, <1>11 DEF ClientNext

\* While nothing has been committed, whatever leaves the channel to the server
\* and whatever enters the other, but an end ack, keeps the end in order.
LEMMA BeforeCommit ==
  ASSUME Typed, Ending, srvPhase # "committed", srvPhase' # "committed",
         UNCHANGED <<pc, crc, result>>,
         c2s' = c2s \/ (c2s # <<>> /\ c2s' = Tail(c2s)),
         \/ s2c' = s2c
         \/ \E m \in RspFrames : m.kind # "endAck" /\ s2c' = Append(s2c, m)
  PROVE  Ending'
<1> USE DEF Typed, TypeOK, Ending, EndIsLast, CommitIsFinal, EndAckMeansCommit
<1>1. ~Contains(s2c', "endAck")
  BY ContainsAppend
<1>2. Contains(c2s', "end") => Contains(c2s, "end")
  BY ContainsTail
<1>3. OnlyLastEnds(c2s', crc')
  BY EndTaken
<1>4. QED
  BY <1>1, <1>2, <1>3

\* A step of the server keeps the end of the transfer in order.
LEMMA EndingServer == Typed /\ Ending /\ ServerNext => Ending'
<1> SUFFICES ASSUME Typed, Ending, ServerNext PROVE Ending'
  OBVIOUS
<1>1. c2s # <<>> => srvPhase # "committed"
  BY DEF Ending, CommitIsFinal
<1>2. ASSUME NEW a \in 0..MaxBlk, NEW b \in BlkSizes
      PROVE  SubAck(a, b) \in RspFrames /\ SubAck(a, b).kind # "endAck"
  BY FrameTypes DEF SubAck
<1>3. CASE SrvInitiate
  <2>1. InitAck(srvInit, srvCrc) \in RspFrames /\ InitAck(srvInit, srvCrc).kind # "endAck"
    BY FrameTypes DEF Typed, TypeOK, InitAck
  <2>2. QED
    BY <1>1, <1>3, <2>1, BeforeCommit DEF SrvInitiate, client, given
<1>4. CASE SrvSegment
  <2> DEFINE m == Head(c2s)
             got == IF m.seq = srvSeq + 1 THEN m.seq ELSE srvSeq
  <2>1. m \in ReqFrames
    BY <1>4, HeadTailProperties DEF Typed, TypeOK, SrvSegment
  <2>2. got \in 0..MaxBlk
    BY <1>4, <2>1, ReqFields, ConstantsOK DEF Typed, TypeOK, SrvSegment
  <2>3. srvPhase = "block" /\ srvPhase' \in {"block", "full"}
    BY <1>4 DEF SrvSegment
  <2>4. s2c' = s2c \/ \E r \in RspFrames : r.kind # "endAck" /\ s2c' = Append(s2c, r)
    <3>1. s2c' = s2c \/ \E b \in BlkSizes : s2c' = Append(s2c, SubAck(got, b))
      BY <1>4, WorldFields DEF Typed, TypeOK, SrvSegment
    <3>2. QED
      BY <1>2, <2>2, <3>1
  <2>5. UNCHANGED <<pc, crc, result>> /\ c2s # <<>> /\ c2s' = Tail(c2s)
    BY <1>4 DEF SrvSegment, client, given
  <2>6. QED
    BY <2>3, <2>4, <2>5, BeforeCommit
<1>5. CASE SrvSubBlockTimeout
  <2>1. srvSeq \in 0..MaxBlk
    BY DEF Typed, TypeOK
  <2>2. world.blks \subseteq BlkSizes
    BY WorldFields DEF Typed, TypeOK
  <2>3. QED
    BY <1>2, <1>5, <2>1, <2>2, BeforeCommit DEF SrvSubBlockTimeout, client, given
<1>6. CASE SrvEnd
  <2> USE DEF Typed, TypeOK, Ending, EndIsLast
  <2>1. /\ Tail(c2s) = <<>> /\ Head(c2s).crc = crc /\ Contains(c2s, "end")
    BY <1>6, EndTaken DEF SrvEnd
  <2>2. pc \in {"endWait", "returned"} /\ c2s' = <<>> /\ UNCHANGED <<pc, crc, result, stored>>
    BY <1>6, <2>1 DEF SrvEnd, client, given
  <2>3. CASE srvPhase = "full" /\ (Head(c2s).crc => stored = Payload)
    <3>1. srvPhase' = "committed" /\ (crc => stored = Payload)
      BY <1>6, <2>1, <2>3 DEF SrvEnd
    <3>2. CommitIsFinal' /\ EndAckMeansCommit'
      BY <2>2, <3>1 DEF CommitIsFinal, EndAckMeansCommit, Payload
    <3>3. EndIsLast'
      BY <2>2 DEF Contains, OnlyLastEnds
    <3>4. QED
      BY <3>2, <3>3
  <2>4. CASE ~(srvPhase = "full" /\ (Head(c2s).crc => stored = Payload))
    <3>1. Abort(TRUE, FALSE) \in RspFrames /\ Abort(TRUE, FALSE).kind # "endAck"
      BY FrameTypes DEF Abort
    <3>2. QED
      BY <1>1, <1>6, <2>2, <2>4, <3>1, BeforeCommit DEF SrvEnd
  <2>5. QED
    BY <2>3, <2>4
<1>7. CASE SrvIgnore
  BY <1>1, <1>7, BeforeCommit DEF SrvIgnore, client, server, given
<1>8. CASE SrvAbort
  <2>1. ASSUME NEW stale \in BOOLEAN
        PROVE  Abort(TRUE, stale) \in RspFrames /\ Abort(TRUE, stale).kind # "endAck"
    BY FrameTypes DEF Abort
  <2>2. QED
    BY <1>8, <2>1, BeforeCommit DEF SrvAbort, client, given
<1>9. QED
  BY <1>3, <1>4, <1>5, <1>6, <1>7, <1>8 DEF ServerNext

\* So does the loss of a frame, of an end request or an end ack included.
LEMMA EndingLose == Typed /\ Ending /\ Lose => Ending'
<1> SUFFICES ASSUME Typed, Ending, Lose PROVE Ending'
  OBVIOUS
<1> USE DEF Typed, TypeOK, Ending, EndIsLast, CommitIsFinal, EndAckMeansCommit
<1>1. UNCHANGED <<pc, crc, result, srvPhase, stored>>
  BY DEF Lose, client, server, given
<1>2. CASE c2s # <<>> /\ c2s' = Tail(c2s) /\ s2c' = s2c
  BY <1>1, <1>2, BeforeCommit
<1>3. CASE s2c # <<>> /\ s2c' = Tail(s2c) /\ c2s' = c2s
  <2>1. Contains(s2c', "endAck") => Contains(s2c, "endAck")
    BY <1>3, ContainsTail
  <2>2. Payload' = Payload
    BY DEF Payload
  <2>3. QED
    BY <1>1, <1>3, <2>1, <2>2
<1>4. QED
  BY <1>2, <1>3 DEF Lose

\* The inductive invariant holds at the start ...
LEMMA IInvInit == Init => IInv
<1> SUFFICES ASSUME Init PROVE IInv
  OBVIOUS
<1>1. Typed
  BY TypedInit
<1>2. ~Contains(s2c, "endAck")
  BY DEF Init, Leftovers, Abort, SubAck, Contains
<1>3. Ending
  BY <1>2 DEF Init, Ending, EndIsLast, CommitIsFinal, EndAckMeansCommit, Contains, OnlyLastEnds
<1>4. QED
  BY <1>1, <1>3 DEF IInv, Typed

\* ... and after every step.
LEMMA IInvStep == IInv /\ [Next]_vars => IInv'
<1>1. IInv <=> Typed /\ Ending
  BY DEF IInv, Typed
<1>2. IInv' <=> Typed' /\ Ending'
  BY DEF IInv, Typed
<1>3. Ending /\ UNCHANGED vars => Ending'
  BY DEF Ending, EndIsLast, CommitIsFinal, EndAckMeansCommit, Contains, OnlyLastEnds,
         Payload, vars, client, server, given
<1>4. QED
  BY <1>1, <1>2, <1>3, TypedStep, EndingClient, EndingServer, EndingLose DEF Next

\* If download_block returns Ok after negotiating a CRC, the node has committed
\* the whole payload: for every payload and every sequence of block sizes, with
\* any number of frames lost, timers that expire early on both sides and aborts
\* at any moment.
THEOREM CrcGuards == Spec => []CrcGuardsCommit
<1>1. IInv => CrcGuardsCommit
  BY DEF IInv, Ending, CommitIsFinal, EndAckMeansCommit, CrcGuardsCommit
<1>2. QED
  BY <1>1, IInvInit, IInvStep, PTL DEF Spec

-----------------------------------------------------------------------------
(* A patient server: the segments it stores                                *)

\* Both ends use what the server answered the initiate with.
Negotiated ==
  /\ \A i \in 1..Len(s2c) : s2c[i].kind = "initAck" => s2c[i].blk = srvInit /\ s2c[i].crc = srvCrc
  /\ pc \in {"sending", "ackWait", "ending", "endWait"} \/ Contains(c2s, "end") \/ srvPhase = "committed" =>
       crc = srvCrc

Early == pc \in {"start", "initWait"}

\* Until the last initiate is answered the server has no segment, although the client may
\* have begun to send; a left-over response is only ever the first in the channel.
Starting ==
  /\ Early => /\ \A i \in 1..Len(c2s) : c2s[i].kind = "init"
              /\ \A i \in 1..Len(s2c) : s2c[i].kind = "subAck" => i = 1
  /\ Early \/ Contains(c2s, "init") =>
       /\ offset = 0 /\ stored = <<>> /\ srvSeq = 0 /\ ~srvSaw
       /\ srvPhase \in {"idle", "block"}
       /\ srvPhase = "block" => srvBlk = EffectiveBlk(srvInit)
  /\ ~Early /\ Contains(c2s, "init") =>
       blksize = EffectiveBlk(srvInit) \/ (pc = "returned" /\ ~Contains(c2s, "seg"))

\* The segments on their way are of one sub-block, in order, behind all initiates.
Requests ==
  /\ SegsSent <= blksize /\ offset + SegsSent <= NumSegs
  /\ \A i \in 1..Len(c2s) : c2s[i].kind = "seg" =>
       /\ c2s[i].seq <= SegsSent /\ c2s[i].idx = offset + c2s[i].seq
       /\ c2s[i].last => c2s[i].idx = NumSegs
  /\ \A i, j \in 1..Len(c2s) : i < j =>
       /\ c2s[j].kind = "init" => c2s[i].kind = "init"
       /\ c2s[i].kind = "seg" /\ c2s[j].kind = "seg" => c2s[i].seq < c2s[j].seq
  /\ pc \in {"ending", "endWait"} => ~Contains(c2s, "seg") /\ ~Contains(c2s, "init")

\* Either the server is in the sub-block the client sends, or it has answered it.
Aligned == Len(stored) = offset + srvSeq /\ srvBlk = blksize
Waiting == pc \in {"ackWait", "returned"} /\ ~Contains(c2s, "seg") /\ srvSeq = 0 /\ ~srvSaw
InStep == srvPhase = "block" /\ ~Early => Aligned \/ Waiting

\* The answer to a sub-block is the only one, nothing is behind it, and it says where the
\* server is.
Acks ==
  ~Early /\ pc # "returned" =>
    \A i \in 1..Len(s2c) : s2c[i].kind = "subAck" =>
      /\ pc = "ackWait" /\ ~Contains(c2s, "seg") /\ ~Contains(c2s, "init")
      /\ \A j \in 1..Len(s2c) : s2c[j].kind = "subAck" => j = i
      /\ srvPhase \in {"block", "full"} => Len(stored) = offset + s2c[i].ack
      /\ srvPhase = "block" => srvBlk = EffectiveBlk(s2c[i].blk) /\ srvSeq = 0 /\ ~srvSaw

\* What is stored is the beginning of the payload, all of it when the server says so.
Prefix ==
  /\ \A i \in 1..Len(stored) : stored[i] = i
  /\ srvPhase \in {"full", "committed"} => Len(stored) = NumSegs

Orderly == Starting /\ Requests /\ InStep /\ Acks /\ Prefix

StoreInv == Negotiated /\ (world.patient => Orderly)

\* A channel that is left alone or loses its head.
LEMMA Shorter ==
  ASSUME NEW S, NEW q \in Seq(S), NEW p, p = q \/ (q # <<>> /\ p = Tail(q))
  PROVE  \E d \in {0, 1} : /\ p \in Seq(S) /\ Len(p) + d = Len(q)
                           /\ \A i \in 1..Len(p) : i + d \in 1..Len(q) /\ p[i] = q[i + d]
<1>1. CASE p = q
  BY <1>1, LenProperties
<1>2. CASE q # <<>> /\ p = Tail(q)
  <2>1. p \in Seq(S) /\ Len(p) = Len(q) - 1 /\ \A i \in 1..Len(p) : p[i] = q[i + 1]
    BY <1>2, HeadTailProperties
  <2>2. Len(q) \in Nat /\ Len(p) + 1 = Len(q)
    BY <2>1, LenProperties
  <2>3. QED
    BY <2>1, <2>2
<1>3. QED
  BY <1>1, <1>2

\* No more of a kind than before.
LEMMA ShorterContains ==
  ASSUME NEW S, NEW q \in Seq(S), NEW p, p = q \/ (q # <<>> /\ p = Tail(q)), NEW k, Contains(p, k)
  PROVE  Contains(q, k)
BY ContainsTail

\* A frame of a kind is in a channel whose head is one.
LEMMA HeadContained ==
  ASSUME NEW S, NEW q \in Seq(S), q # <<>>
  PROVE  Contains(q, Head(q).kind) /\ Head(q) = q[1] /\ 1 \in 1..Len(q) /\ Len(q) \in Nat
<1>1. Len(q) >= 1 /\ Head(q) = q[1] /\ Len(q) \in Nat
  BY HeadTailProperties, EmptySeq, LenProperties
<1>2. 1 \in 1..Len(q)
  BY <1>1
<1>3. QED
  BY <1>1, <1>2 DEF Contains

\* No segment is stored twice or left out, so no more than there are.
LEMMA StoredLen == Typed /\ Prefix => Len(stored) \in 0..NumSegs
<1> SUFFICES ASSUME Typed, Prefix PROVE Len(stored) \in 0..NumSegs
  OBVIOUS
<1>1. stored \in Seq(1..NumSegs) /\ Len(stored) \in Nat /\ NumSegs \in Nat
  BY ConstantsOK, LenProperties DEF Typed, TypeOK
<1>2. CASE Len(stored) = 0
  BY <1>1, <1>2
<1>3. CASE Len(stored) # 0
  <2>1. Len(stored) \in 1..Len(stored)
    BY <1>1, <1>3
  <2>2. stored[Len(stored)] = Len(stored) /\ stored[Len(stored)] \in 1..NumSegs
    BY <1>1, <2>1, ElementOfSeq DEF Prefix
  <2>3. QED
    BY <1>1, <2>2
<1>4. QED
  BY <1>2, <1>3

\* Steps that send no request, answer no segment and initiate nothing: a frame is lost or
\* skipped, an end is answered or aborted, the client gives up or is done, after which the
\* responses no longer matter.
LEMMA OrderlyPassive ==
  ASSUME Typed, Orderly,
         c2s' = c2s \/ (c2s # <<>> /\ c2s' = Tail(c2s)),
         \/ s2c' = s2c \/ (s2c # <<>> /\ s2c' = Tail(s2c))
         \/ \E m \in RspFrames : m.kind \in {"endAck", "abort"} /\ s2c' = Append(s2c, m)
         \/ pc' = "returned",
         pc' = pc \/ pc' = "returned",
         srvPhase' = srvPhase \/ srvPhase' = "idle" \/ (srvPhase = "full" /\ srvPhase' = "committed"),
         UNCHANGED <<offset, seqno, blksize, srvBlk, srvSeq, srvSaw, stored, srvInit>>
  PROVE  Orderly'
<1>1. c2s \in Seq(ReqFrames) /\ s2c \in Seq(RspFrames) /\ Len(c2s) \in Nat /\ Len(s2c) \in Nat
  BY LenProperties DEF Typed, TypeOK
<1>2. PICK d \in {0, 1} : /\ Len(c2s') + d = Len(c2s) /\ c2s' \in Seq(ReqFrames)
                          /\ \A i \in 1..Len(c2s') : i + d \in 1..Len(c2s) /\ c2s'[i] = c2s[i + d]
  BY <1>1, Shorter
<1>3. \A k : Contains(c2s', k) => Contains(c2s, k)
  BY <1>1, ShorterContains
<1>4. PICK e \in {0, 1} : pc' # "returned" =>
                             \A i \in 1..Len(s2c') : s2c'[i].kind = "subAck" =>
                               i + e \in 1..Len(s2c) /\ s2c'[i] = s2c[i + e]
  <2>1. CASE s2c' = s2c \/ (s2c # <<>> /\ s2c' = Tail(s2c))
    BY <1>1, <2>1, Shorter
  <2>2. CASE \E m \in RspFrames : m.kind \in {"endAck", "abort"} /\ s2c' = Append(s2c, m)
    <3>1. PICK m \in RspFrames : m.kind \in {"endAck", "abort"} /\ s2c' = Append(s2c, m)
      BY <2>2
    <3>2. /\ Len(s2c') = Len(s2c) + 1 /\ s2c'[Len(s2c) + 1] = m
          /\ \A i \in 1..Len(s2c) : s2c'[i] = s2c[i]
      BY <1>1, <3>1, AppendProperties
    <3>3. \A i \in 1..Len(s2c') : s2c'[i].kind = "subAck" => i + 0 \in 1..Len(s2c) /\ s2c'[i] = s2c[i + 0]
      BY <1>1, <3>1, <3>2
    <3>4. QED
      BY <3>3
  <2>3. QED
    BY <2>1, <2>2
<1>5. Early' => Early /\ pc' # "returned"
  BY DEF Early
<1>6. Starting'
  <2>1. Early' => \A i \in 1..Len(c2s') : c2s'[i].kind = "init"
    BY <1>2, <1>5 DEF Orderly, Starting
  <2>2. Early' => \A i \in 1..Len(s2c') : s2c'[i].kind = "subAck" => i = 1
    <3>1. ASSUME Early', NEW i \in 1..Len(s2c'), s2c'[i].kind = "subAck" PROVE i = 1
      <4>1. i + e \in 1..Len(s2c) /\ s2c[i + e].kind = "subAck"
        BY <1>4, <1>5, <3>1
      <4>2. i + e = 1
        BY <1>5, <3>1, <4>1 DEF Orderly, Starting
      <4>3. QED
        BY <4>2
    <3>2. QED
      BY <3>1
  <2>3. Early' \/ Contains(c2s', "init") =>
          /\ offset = 0 /\ stored = <<>> /\ srvSeq = 0 /\ ~srvSaw
          /\ srvPhase' \in {"idle", "block"}
          /\ srvPhase' = "block" => srvBlk = EffectiveBlk(srvInit)
    BY <1>3, <1>5 DEF Orderly, Starting
  <2>4. ~Early' /\ Contains(c2s', "init") =>
          blksize = EffectiveBlk(srvInit) \/ (pc' = "returned" /\ ~Contains(c2s', "seg"))
    <3>1. CASE ~Early
      BY <1>3, <3>1 DEF Orderly, Starting, Early
    <3>2. CASE Early /\ ~Early'
      <4>1. ~Contains(c2s, "seg") /\ pc' = "returned"
        BY <3>2 DEF Orderly, Starting, Contains, Early
      <4>2. QED
        BY <1>3, <4>1
    <3>3. QED
      BY <3>1, <3>2
  <2>5. EffectiveBlk(srvInit)' = EffectiveBlk(srvInit)
    BY DEF EffectiveBlk
  <2>6. QED
    BY <2>1, <2>2, <2>3, <2>4, <2>5 DEF Starting
<1>7. Requests'
  <2>1. SegsSent' = SegsSent
    BY DEF SegsSent
  <2>2. ASSUME NEW i \in 1..Len(c2s'), NEW j \in 1..Len(c2s'), i < j
        PROVE  /\ c2s'[j].kind = "init" => c2s'[i].kind = "init"
               /\ c2s'[i].kind = "seg" /\ c2s'[j].kind = "seg" => c2s'[i].seq < c2s'[j].seq
    <3>1. i + d \in 1..Len(c2s) /\ j + d \in 1..Len(c2s) /\ i + d < j + d
      BY <1>2, <2>2
    <3>2. QED
      BY <1>2, <3>1 DEF Orderly, Requests
  <2>3. \A i \in 1..Len(c2s') : c2s'[i].kind = "seg" =>
          /\ c2s'[i].seq <= SegsSent /\ c2s'[i].idx = offset + c2s'[i].seq
          /\ c2s'[i].last => c2s'[i].idx = NumSegs
    BY <1>2 DEF Orderly, Requests
  <2>4. pc' \in {"ending", "endWait"} => ~Contains(c2s', "seg") /\ ~Contains(c2s', "init")
    BY <1>3 DEF Orderly, Requests
  <2>5. QED
    BY <2>1, <2>2, <2>3, <2>4 DEF Orderly, Requests
<1>8. InStep'
  <2>1. CASE Early
    <3>1. srvSeq = 0 /\ ~srvSaw /\ ~Contains(c2s, "seg")
      BY <2>1 DEF Orderly, Starting, Contains
    <3>2. QED
      BY <1>3, <2>1, <3>1 DEF InStep, Waiting, Early
  <2>2. CASE ~Early
    BY <1>3, <2>2 DEF Orderly, InStep, Aligned, Waiting, Early
  <2>3. QED
    BY <2>1, <2>2
<1>9. Acks'
  <2> SUFFICES ASSUME ~Early', pc' # "returned", NEW i \in 1..Len(s2c'), s2c'[i].kind = "subAck"
               PROVE  /\ pc' = "ackWait" /\ ~Contains(c2s', "seg") /\ ~Contains(c2s', "init")
                      /\ \A j \in 1..Len(s2c') : s2c'[j].kind = "subAck" => j = i
                      /\ srvPhase' \in {"block", "full"} => Len(stored) = offset + s2c'[i].ack
                      /\ srvPhase' = "block" =>
                           srvBlk = EffectiveBlk(s2c'[i].blk) /\ srvSeq = 0 /\ ~srvSaw
    BY DEF Acks, EffectiveBlk
  <2>1. pc' = pc /\ ~Early /\ pc # "returned"
    BY DEF Early
  <2>2. i + e \in 1..Len(s2c) /\ s2c'[i] = s2c[i + e]
    BY <1>4
  <2>3. /\ pc = "ackWait" /\ ~Contains(c2s, "seg") /\ ~Contains(c2s, "init")
        /\ \A j \in 1..Len(s2c) : s2c[j].kind = "subAck" => j = i + e
        /\ srvPhase \in {"block", "full"} => Len(stored) = offset + s2c[i + e].ack
        /\ srvPhase = "block" => srvBlk = EffectiveBlk(s2c[i + e].blk) /\ srvSeq = 0 /\ ~srvSaw
    BY <2>1, <2>2 DEF Orderly, Acks
  <2>4. \A j \in 1..Len(s2c') : s2c'[j].kind = "subAck" => j = i
    BY <1>4, <2>3
  <2>5. srvPhase' \in {"block", "full"} => srvPhase' = srvPhase
    OBVIOUS
  <2>6. QED
    BY <1>3, <2>1, <2>2, <2>3, <2>4, <2>5
<1>10. Prefix'
  BY DEF Orderly, Prefix
<1>11. QED
  BY <1>6, <1>7, <1>8, <1>9, <1>10 DEF Orderly

\* Initiates: the client is still at the start, whatever is in the channels.
LEMMA OrderlyInitiate ==
  ASSUME Typed, Orderly, Early, pc' = "initWait", c2s' = Append(c2s, InitReq),
         \E k \in 0..Len(s2c) : s2c' = SubSeq(s2c, k + 1, Len(s2c)),
         UNCHANGED <<offset, seqno, blksize, server, given>>
  PROVE  Orderly'
<1> USE DEF server, given
<1>1. c2s \in Seq(ReqFrames) /\ s2c \in Seq(RspFrames) /\ Len(c2s) \in Nat /\ Len(s2c) \in Nat
  BY LenProperties DEF Typed, TypeOK
<1>2. \A i \in 1..Len(c2s') : c2s'[i].kind = "init"
  <2>1. InitReq \in ReqFrames /\ InitReq.kind = "init"
    BY FrameTypes DEF InitReq
  <2>2. /\ Len(c2s') = Len(c2s) + 1 /\ c2s'[Len(c2s) + 1] = InitReq
        /\ \A i \in 1..Len(c2s) : c2s'[i] = c2s[i]
    BY <1>1, <2>1, AppendProperties
  <2>3. \A i \in 1..Len(c2s) : c2s[i].kind = "init"
    BY DEF Orderly, Starting
  <2>4. QED
    BY <1>1, <2>1, <2>2, <2>3
<1>3. \A i \in 1..Len(s2c') : s2c'[i].kind = "subAck" => i = 1
  <2>1. PICK k \in 0..Len(s2c) : s2c' = SubSeq(s2c, k + 1, Len(s2c))
    OBVIOUS
  <2>2. Len(s2c') = Len(s2c) - k /\ \A i \in 1..Len(s2c') : s2c'[i] = s2c[k + i] /\ k + i \in 1..Len(s2c)
    <3> DEFINE first == k + 1
    <3>1. /\ first \in 1..(Len(s2c) + 1) /\ Len(s2c) \in (first - 1)..Len(s2c)
      BY <1>1
    <3>2. /\ Len(SubSeq(s2c, first, Len(s2c))) = Len(s2c) - first + 1
          /\ \A i \in 1..(Len(s2c) - first + 1) : SubSeq(s2c, first, Len(s2c))[i] = s2c[first + i - 1]
      BY <1>1, <3>1, SubSeqProperties
    <3>3. \A i \in 1..(Len(s2c) - k) : first + i - 1 = k + i /\ k + i \in 1..Len(s2c)
      BY <1>1
    <3>4. Len(s2c) - first + 1 = Len(s2c) - k
      BY <1>1
    <3>5. QED
      BY <2>1, <3>2, <3>3, <3>4
  <2>3. ASSUME NEW i \in 1..Len(s2c'), s2c'[i].kind = "subAck" PROVE i = 1
    <3>1. k + i = 1
      BY <2>2, <2>3 DEF Orderly, Starting
    <3>2. QED
      BY <1>1, <3>1
  <2>4. QED
    BY <2>3
<1>4. Starting'
  <2>1. EffectiveBlk(srvInit)' = EffectiveBlk(srvInit)
    BY DEF EffectiveBlk
  <2>2. QED
    BY <1>2, <1>3, <2>1 DEF Orderly, Starting, Early
<1>5. Requests'
  <2>1. SegsSent' = 0 /\ offset' = 0 /\ blksize' \in 1..MaxBlk
    BY ConstantsOK DEF SegsSent, Early, Typed, TypeOK, ClientBounds
  <2>2. 0 <= blksize' /\ 0 <= NumSegs
    BY <2>1, ConstantsOK
  <2>3. QED
    BY <1>2, <2>1, <2>2 DEF Requests
<1>6. InStep' /\ Acks' /\ Prefix'
  BY DEF Orderly, InStep, Acks, Prefix, Early
<1>7. QED
  BY <1>4, <1>5, <1>6 DEF Orderly

\* The client begins to send: the server has nothing and uses the same block size.
LEMMA OrderlyRecvInitAck == Typed /\ Negotiated /\ Orderly /\ RecvInitAck => Orderly'
<1> SUFFICES ASSUME Typed, Negotiated, Orderly, RecvInitAck PROVE Orderly'
  OBVIOUS
<1>1. c2s \in Seq(ReqFrames) /\ s2c \in Seq(RspFrames) /\ Early /\ offset = 0 /\ seqno = 1 /\ srvInit \in BlkSizes
  BY DEF Typed, TypeOK, ClientBounds, RecvInitAck, Early
<1>2. /\ pc' = "sending" /\ blksize' = EffectiveBlk(Head(s2c).blk) /\ s2c # <<>> /\ s2c' = Tail(s2c)
      /\ UNCHANGED <<c2s, offset, seqno, srvPhase, srvBlk, srvSeq, srvSaw, stored, srvInit>>
  BY DEF RecvInitAck, server, given
<1>3. blksize' = EffectiveBlk(srvInit) /\ blksize' \in 1..MaxBlk
  <2>1. s2c[1].blk = srvInit /\ Head(s2c) = s2c[1]
    BY <1>1, <1>2, HeadContained DEF Negotiated, RecvInitAck
  <2>2. EffectiveBlk(srvInit) \in 1..MaxBlk
    BY <1>1, EffectiveBlkRange
  <2>3. QED
    BY <1>2, <2>1, <2>2
<1>4. /\ \A i \in 1..Len(c2s) : c2s[i].kind = "init"
      /\ stored = <<>> /\ srvSeq = 0 /\ ~srvSaw /\ srvPhase \in {"idle", "block"}
      /\ srvPhase = "block" => srvBlk = EffectiveBlk(srvInit)
  BY <1>1 DEF Orderly, Starting
<1>5. \A i \in 1..Len(s2c') : s2c'[i].kind # "subAck"
  <2>1. ASSUME NEW i \in 1..Len(s2c'), s2c'[i].kind = "subAck" PROVE FALSE
    <3>1. /\ s2c[i + 1].kind = "subAck" /\ i + 1 \in 1..Len(s2c) /\ i \in Nat \ {0}
      BY <1>1, <1>2, <2>1, HeadTailProperties, LenProperties
    <3>2. i + 1 = 1
      BY <1>1, <3>1 DEF Orderly, Starting
    <3>3. QED
      BY <3>1, <3>2
  <2>2. QED
    BY <2>1
<1>6. EffectiveBlk(srvInit)' = EffectiveBlk(srvInit)
  BY <1>2 DEF EffectiveBlk
<1>7. Starting'
  BY <1>1, <1>2, <1>3, <1>4, <1>6 DEF Starting, Early
<1>8. Requests'
  <2>1. SegsSent' = 0 /\ 0 <= blksize' /\ 0 + 0 <= NumSegs
    BY <1>1, <1>2, <1>3, ConstantsOK DEF SegsSent
  <2>2. QED
    BY <1>1, <1>2, <1>4, <2>1 DEF Requests
<1>9. InStep'
  <2>1. Len(stored) = 0
    BY <1>4
  <2>2. QED
    BY <1>1, <1>2, <1>3, <1>4, <2>1 DEF InStep, Aligned
<1>10. Acks' /\ Prefix'
  BY <1>2, <1>4, <1>5 DEF Acks, Prefix
<1>11. QED
  BY <1>7, <1>8, <1>9, <1>10 DEF Orderly

\* A segment follows those of its sub-block that were sent before it.
LEMMA OrderlySendSegment == Typed /\ Orderly /\ SendSegment => Orderly'
<1> SUFFICES ASSUME Typed, Orderly, SendSegment PROVE Orderly'
  OBVIOUS
<1> DEFINE m == SegReq(seqno, offset + seqno)
<1>1. /\ c2s \in Seq(ReqFrames) /\ Len(c2s) \in Nat /\ pc = "sending" /\ pc' \in {"ackWait", "sending"}
      /\ offset \in 0..NumSegs /\ seqno \in 1..MaxBlk /\ offset + seqno \in 1..NumSegs /\ seqno <= blksize
      /\ blksize \in 1..MaxBlk
  BY ConstantsOK, LenProperties DEF Typed, TypeOK, ClientBounds, SendSegment
<1>2. /\ c2s' = Append(c2s, m) /\ seqno' = seqno + 1
      /\ UNCHANGED <<offset, blksize, s2c, srvPhase, srvBlk, srvSeq, srvSaw, stored, srvInit>>
  BY DEF SendSegment, server, given
<1>3. m \in ReqFrames /\ m.kind = "seg" /\ m.seq = seqno /\ m.idx = offset + seqno /\ (m.last => m.idx = NumSegs)
  <2>1. m \in ReqFrames
    BY <1>1, FrameTypes
  <2>2. QED
    BY <2>1 DEF SegReq
<1> HIDE DEF m
<1>4. /\ Len(c2s') = Len(c2s) + 1 /\ c2s'[Len(c2s) + 1] = m /\ \A i \in 1..Len(c2s) : c2s'[i] = c2s[i]
      /\ \A i \in 1..Len(c2s') : i \in 1..Len(c2s) \/ i = Len(c2s) + 1
  <2>1. /\ Len(c2s') = Len(c2s) + 1 /\ c2s'[Len(c2s) + 1] = m /\ \A i \in 1..Len(c2s) : c2s'[i] = c2s[i]
    BY <1>1, <1>2, <1>3, AppendProperties
  <2>2. QED
    BY <1>1, <2>1
<1>5. Contains(c2s', "init") => Contains(c2s, "init")
  BY <1>1, <1>2, <1>3, ContainsAppend
<1>6. EffectiveBlk(srvInit)' = EffectiveBlk(srvInit)
  BY <1>2 DEF EffectiveBlk
<1>7. Starting'
  BY <1>1, <1>2, <1>5, <1>6 DEF Orderly, Starting, Early
<1>8. Requests'
  <2>1. SegsSent' = seqno /\ SegsSent = seqno - 1
    BY <1>1, <1>2 DEF SegsSent
  <2>2. \A i \in 1..Len(c2s) : c2s[i].kind = "seg" => c2s[i].seq \in 1..MaxBlk /\ c2s[i].seq < seqno
    <3>1. \A i \in 1..Len(c2s) : c2s[i].kind = "seg" => c2s[i].seq \in 1..MaxBlk
      BY <1>1, ElementOfSeq, ReqFields
    <3>2. \A i \in 1..Len(c2s) : c2s[i].kind = "seg" => c2s[i].seq <= seqno - 1
      BY <2>1 DEF Orderly, Requests
    <3>3. QED
      BY <1>1, <3>1, <3>2, ConstantsOK
  <2>3. ASSUME NEW i \in 1..Len(c2s'), c2s'[i].kind = "seg"
        PROVE  /\ c2s'[i].seq <= SegsSent' /\ c2s'[i].idx = offset' + c2s'[i].seq
               /\ c2s'[i].last => c2s'[i].idx = NumSegs
    <3>1. CASE i \in 1..Len(c2s)
      <4>1. c2s[i].seq \in 1..MaxBlk /\ c2s[i].seq < seqno
        BY <1>4, <2>2, <2>3, <3>1
      <4>2. c2s[i].seq <= seqno
        BY <1>1, <4>1, ConstantsOK
      <4>3. QED
        BY <1>2, <1>4, <2>1, <2>3, <3>1, <4>2 DEF Orderly, Requests
    <3>2. CASE i = Len(c2s) + 1
      BY <1>1, <1>2, <1>3, <1>4, <2>1, <3>2
    <3>3. QED
      BY <1>4, <3>1, <3>2
  <2>4. ASSUME NEW i \in 1..Len(c2s'), NEW j \in 1..Len(c2s'), i < j
        PROVE  /\ c2s'[j].kind = "init" => c2s'[i].kind = "init"
               /\ c2s'[i].kind = "seg" /\ c2s'[j].kind = "seg" => c2s'[i].seq < c2s'[j].seq
    <3>1. i \in 1..Len(c2s)
      BY <1>1, <1>4, <2>4
    <3>2. CASE j \in 1..Len(c2s)
      BY <1>4, <2>4, <3>1, <3>2 DEF Orderly, Requests
    <3>3. CASE j = Len(c2s) + 1
      BY <1>3, <1>4, <2>2, <3>1, <3>3
    <3>4. QED
      BY <1>4, <3>2, <3>3
  <2>5. SegsSent' <= blksize' /\ offset' + SegsSent' <= NumSegs /\ pc' \notin {"ending", "endWait"}
    BY <1>1, <1>2, <2>1
  <2>6. QED
    BY <2>3, <2>4, <2>5 DEF Requests
<1>9. InStep'
  BY <1>1, <1>2 DEF Orderly, InStep, Aligned, Waiting, Early
<1>10. Acks' /\ Prefix'
  BY <1>1, <1>2 DEF Orderly, Acks, Prefix, Early
<1>11. QED
  BY <1>7, <1>8, <1>9, <1>10 DEF Orderly

\* An answer moves the client to where the server is.
LEMMA OrderlyRecvSubAck == Typed /\ Orderly /\ RecvSubAck => Orderly'
<1> SUFFICES ASSUME Typed, Orderly, RecvSubAck PROVE Orderly'
  OBVIOUS
<1> DEFINE ack == Head(s2c).ack
<1>1. /\ c2s \in Seq(ReqFrames) /\ s2c \in Seq(RspFrames) /\ pc = "ackWait" /\ ~Early
      /\ s2c # <<>> /\ Head(s2c).kind = "subAck" /\ s2c' = Tail(s2c) /\ offset \in 0..NumSegs /\ NumSegs \in Nat
  BY ConstantsOK DEF Typed, TypeOK, RecvSubAck, Early
<1>2. Head(s2c) \in RspFrames /\ ack \in Nat /\ EffectiveBlk(Head(s2c).blk) \in 1..MaxBlk
  <2>1. Head(s2c) \in RspFrames
    BY <1>1, HeadTailProperties
  <2>2. ack \in 0..MaxBlk
    BY <1>1, <2>1, RspFields
  <2>3. EffectiveBlk(Head(s2c).blk) \in 1..MaxBlk
    BY <1>1, <2>1, RspFields, EffectiveBlkRange
  <2>4. QED
    BY <2>1, <2>2, <2>3, ConstantsOK
<1>3. Head(s2c) = s2c[1] /\ 1 \in 1..Len(s2c) /\ Len(s2c) \in Nat
  BY <1>1, HeadContained
<1>4. /\ ~Contains(c2s, "seg") /\ ~Contains(c2s, "init")
      /\ \A j \in 1..Len(s2c) : s2c[j].kind = "subAck" => j = 1
      /\ srvPhase \in {"block", "full"} => Len(stored) = offset + ack
      /\ srvPhase = "block" => srvBlk = EffectiveBlk(Head(s2c).blk) /\ srvSeq = 0 /\ ~srvSaw
  BY <1>1, <1>3 DEF Orderly, Acks
<1>5. UNCHANGED <<c2s, srvPhase, srvBlk, srvSeq, srvSaw, stored, srvInit>>
  BY DEF RecvSubAck, server, given
<1>6. CASE OutOfRange(ack)
  <2>1. pc' = "returned" /\ UNCHANGED <<offset, seqno, blksize>>
    BY <1>6 DEF RecvSubAck, Fail
  <2>2. QED
    BY <1>1, <1>5, <2>1, OrderlyPassive
<1>7. CASE ~OutOfRange(ack) /\ stall' > MaxStall
  <2>1. pc' = "returned" /\ UNCHANGED <<seqno, blksize>> /\ offset' = AckedOffset(ack)
    BY <1>7 DEF RecvSubAck, Fail
  <2>2. ack = 0
    <3>1. stall' = IF ack = 0 THEN stall + 1 ELSE 0
      BY <1>7 DEF RecvSubAck, Stalls
    <3>2. QED
      BY <1>7, <3>1, ConstantsOK
  <2>3. offset' = offset
    BY <1>1, <2>1, <2>2 DEF AckedOffset
  <2>4. QED
    BY <1>1, <1>5, <2>1, <2>3, OrderlyPassive
<1>8. CASE ~OutOfRange(ack) /\ ~(stall' > MaxStall)
  <2>1. /\ offset' = AckedOffset(ack) /\ seqno' = 1 /\ blksize' = EffectiveBlk(Head(s2c).blk)
        /\ pc' = IF offset' = NumSegs THEN "ending" ELSE "sending"
    BY <1>8 DEF RecvSubAck
  <2>2. offset' \in 0..NumSegs
    BY <1>1, <1>2, <2>1 DEF AckedOffset
  <2>3. \A i \in 1..Len(s2c') : s2c'[i].kind # "subAck"
    <3>1. ASSUME NEW i \in 1..Len(s2c'), s2c'[i].kind = "subAck" PROVE FALSE
      <4>1. /\ s2c[i + 1].kind = "subAck" /\ i + 1 \in 1..Len(s2c) /\ i \in Nat \ {0}
        BY <1>1, <3>1, HeadTailProperties, LenProperties
      <4>2. i + 1 = 1
        BY <1>4, <4>1
      <4>3. QED
        BY <4>1, <4>2
    <3>2. QED
      BY <3>1
  <2>4. Starting'
    BY <1>4, <1>5, <2>1 DEF Starting, Early
  <2>5. Requests'
    <3>1. SegsSent' = 0 /\ 0 <= blksize' /\ offset' + 0 <= NumSegs
      BY <1>1, <1>2, <2>1, <2>2, ConstantsOK DEF SegsSent
    <3>2. \A i \in 1..Len(c2s) : c2s[i].kind # "seg" /\ c2s[i].kind # "init"
      BY <1>4 DEF Contains
    <3>3. QED
      BY <1>4, <1>5, <3>1, <3>2 DEF Requests
  <2>6. InStep'
    <3>1. ASSUME srvPhase = "block" PROVE Len(stored) = offset' + srvSeq /\ srvBlk = blksize'
      <4>1. Len(stored) \in 0..NumSegs /\ Len(stored) = offset + ack
        BY <1>4, <3>1, StoredLen DEF Orderly
      <4>2. offset' = offset + ack
        BY <1>1, <1>2, <2>1, <4>1 DEF AckedOffset
      <4>3. srvSeq = 0 /\ srvBlk = blksize' /\ offset' \in Nat
        BY <1>4, <2>1, <2>2, <3>1
      <4>4. QED
        BY <4>1, <4>2, <4>3
    <3>2. QED
      BY <1>5, <3>1 DEF InStep, Aligned
  <2>7. Acks' /\ Prefix'
    BY <1>5, <2>3 DEF Orderly, Acks, Prefix
  <2>8. QED
    BY <2>4, <2>5, <2>6, <2>7 DEF Orderly
<1>9. QED
  BY <1>6, <1>7, <1>8

\* The end request comes when nothing else is on its way.
LEMMA OrderlySendEnd == Typed /\ Orderly /\ SendEnd => Orderly'
<1> SUFFICES ASSUME Typed, Orderly, SendEnd PROVE Orderly'
  OBVIOUS
<1>1. /\ c2s \in Seq(ReqFrames) /\ Len(c2s) \in Nat /\ pc = "ending" /\ pc' = "endWait" /\ crc \in BOOLEAN
      /\ c2s' = Append(c2s, EndReq(crc))
      /\ UNCHANGED <<offset, seqno, blksize, s2c, srvPhase, srvBlk, srvSeq, srvSaw, stored, srvInit>>
  BY LenProperties DEF Typed, TypeOK, SendEnd, server, given
<1>2. EndReq(crc) \in ReqFrames /\ EndReq(crc).kind = "end"
  BY <1>1, FrameTypes DEF EndReq
<1>3. ~Contains(c2s', "seg") /\ ~Contains(c2s', "init")
  BY <1>1, <1>2, ContainsAppend DEF Orderly, Requests
<1>4. Starting'
  BY <1>1, <1>3 DEF Starting, Early
<1>5. Requests'
  <2>1. SegsSent' = SegsSent
    BY <1>1 DEF SegsSent
  <2>2. \A i \in 1..Len(c2s') : c2s'[i].kind # "seg" /\ c2s'[i].kind # "init"
    BY <1>3 DEF Contains
  <2>3. QED
    BY <1>1, <1>3, <2>1, <2>2 DEF Orderly, Requests
<1>6. InStep'
  BY <1>1 DEF Orderly, InStep, Aligned, Waiting, Early
<1>7. Acks' /\ Prefix'
  BY <1>1 DEF Orderly, Acks, Prefix, Early
<1>8. QED
  BY <1>4, <1>5, <1>6, <1>7 DEF Orderly

\* An initiate starts afresh; until the last one nothing has been stored anyway.
LEMMA OrderlySrvInitiate == Typed /\ Orderly /\ SrvInitiate => Orderly'
<1> SUFFICES ASSUME Typed, Orderly, SrvInitiate PROVE Orderly'
  OBVIOUS
<1>1. /\ c2s \in Seq(ReqFrames) /\ s2c \in Seq(RspFrames) /\ c2s # <<>> /\ Head(c2s).kind = "init"
      /\ srvInit \in BlkSizes /\ srvCrc \in BOOLEAN /\ Len(s2c) \in Nat
  BY LenProperties DEF Typed, TypeOK, SrvInitiate
<1>2. /\ c2s' = Tail(c2s) /\ s2c' = Append(s2c, InitAck(srvInit, srvCrc))
      /\ srvPhase' = "block" /\ stored' = <<>> /\ srvBlk' = EffectiveBlk(srvInit) /\ srvSeq' = 0 /\ srvSaw' = FALSE
      /\ UNCHANGED <<pc, offset, seqno, blksize, srvInit>>
  BY DEF SrvInitiate, NewSubBlock, client, given
<1>3. Contains(c2s, "init") /\ \A k : Contains(c2s', k) => Contains(c2s, k)
  BY <1>1, <1>2, HeadContained, ShorterContains
<1>4. PICK d \in {0, 1} : /\ Len(c2s') + d = Len(c2s) /\ c2s' \in Seq(ReqFrames)
                          /\ \A i \in 1..Len(c2s') : i + d \in 1..Len(c2s) /\ c2s'[i] = c2s[i + d]
  BY <1>1, <1>2, Shorter
<1>5. \A i \in 1..Len(s2c') : s2c'[i].kind = "subAck" => i \in 1..Len(s2c) /\ s2c'[i] = s2c[i]
  <2>1. InitAck(srvInit, srvCrc) \in RspFrames /\ InitAck(srvInit, srvCrc).kind = "initAck"
    BY <1>1, FrameTypes DEF InitAck
  <2>2. /\ Len(s2c') = Len(s2c) + 1 /\ s2c'[Len(s2c) + 1].kind = "initAck"
        /\ \A i \in 1..Len(s2c) : s2c'[i] = s2c[i]
    BY <1>1, <1>2, <2>1, AppendProperties
  <2>3. QED
    BY <1>1, <2>2
<1>6. EffectiveBlk(srvInit)' = EffectiveBlk(srvInit)
  BY <1>2 DEF EffectiveBlk
<1>7. Starting'
  <2>1. offset = 0
    BY <1>3 DEF Orderly, Starting
  <2>2. Early' => /\ \A i \in 1..Len(c2s') : c2s'[i].kind = "init"
                  /\ \A i \in 1..Len(s2c') : s2c'[i].kind = "subAck" => i = 1
    BY <1>2, <1>4, <1>5 DEF Orderly, Starting, Early
  <2>3. ~Early' /\ Contains(c2s', "init") =>
          blksize' = EffectiveBlk(srvInit) \/ (pc' = "returned" /\ ~Contains(c2s', "seg"))
    BY <1>2, <1>3 DEF Orderly, Starting, Early
  <2>4. QED
    BY <1>2, <1>6, <2>1, <2>2, <2>3 DEF Starting
<1>8. Requests'
  <2>1. SegsSent' = SegsSent
    BY <1>2 DEF SegsSent
  <2>2. ASSUME NEW i \in 1..Len(c2s'), NEW j \in 1..Len(c2s'), i < j
        PROVE  /\ c2s'[j].kind = "init" => c2s'[i].kind = "init"
               /\ c2s'[i].kind = "seg" /\ c2s'[j].kind = "seg" => c2s'[i].seq < c2s'[j].seq
    <3>1. i + d \in 1..Len(c2s) /\ j + d \in 1..Len(c2s) /\ i + d < j + d
      BY <1>4, <2>2
    <3>2. QED
      BY <1>4, <3>1 DEF Orderly, Requests
  <2>3. \A i \in 1..Len(c2s') : c2s'[i].kind = "seg" =>
          /\ c2s'[i].seq <= SegsSent /\ c2s'[i].idx = offset + c2s'[i].seq
          /\ c2s'[i].last => c2s'[i].idx = NumSegs
    BY <1>4 DEF Orderly, Requests
  <2>4. pc' \in {"ending", "endWait"} => ~Contains(c2s', "seg") /\ ~Contains(c2s', "init")
    BY <1>2, <1>3 DEF Orderly, Requests
  <2>5. QED
    BY <1>2, <2>1, <2>2, <2>3, <2>4 DEF Orderly, Requests
<1>9. InStep'
  <2> SUFFICES ASSUME ~Early' PROVE Aligned' \/ Waiting'
    BY DEF InStep
  <2>1. offset = 0 /\ (blksize = EffectiveBlk(srvInit) \/ (pc = "returned" /\ ~Contains(c2s, "seg")))
    BY <1>2, <1>3 DEF Orderly, Starting, Early
  <2>2. CASE blksize = EffectiveBlk(srvInit)
    BY <1>2, <2>1, <2>2, EmptySeq DEF Aligned
  <2>3. CASE pc = "returned" /\ ~Contains(c2s, "seg")
    BY <1>2, <1>3, <2>3 DEF Waiting
  <2>4. QED
    BY <2>1, <2>2, <2>3
<1>10. Acks'
  <2>1. ASSUME ~Early', pc' # "returned", NEW i \in 1..Len(s2c'), s2c'[i].kind = "subAck" PROVE FALSE
    <3>1. i \in 1..Len(s2c) /\ s2c[i].kind = "subAck" /\ ~Early /\ pc # "returned"
      BY <1>2, <1>5, <2>1 DEF Early
    <3>2. QED
      BY <1>3, <3>1 DEF Orderly, Acks
  <2>2. QED
    BY <2>1 DEF Acks
<1>11. Prefix'
  BY <1>2 DEF Prefix
<1>12. QED
  BY <1>7, <1>8, <1>9, <1>10, <1>11 DEF Orderly

\* An answer to a sub-block: the only one, with nothing behind it.
LEMMA OrderlyAnswer ==
  ASSUME Typed, Starting, Requests, Prefix',
         NEW a \in 0..MaxBlk, NEW b \in BlkSizes, s2c' = Append(s2c, SubAck(a, b)), NewSubBlock(b),
         ~Early, pc \in {"ackWait", "returned"}, ~Contains(c2s, "init"),
         pc # "returned" => \A i \in 1..Len(s2c) : s2c[i].kind # "subAck",
         c2s' = c2s \/ (c2s # <<>> /\ c2s' = Tail(c2s)), ~Contains(c2s', "seg"),
         Len(stored') = offset + a,
         UNCHANGED <<client, srvInit>>
  PROVE  Orderly'
<1> USE DEF client
<1>1. /\ c2s \in Seq(ReqFrames) /\ s2c \in Seq(RspFrames) /\ Len(s2c) \in Nat
  BY LenProperties DEF Typed, TypeOK
<1>2. ~Contains(c2s', "init")
  BY <1>1, ShorterContains
<1>3. /\ SubAck(a, b) \in RspFrames /\ SubAck(a, b).kind = "subAck" /\ SubAck(a, b).ack = a
      /\ SubAck(a, b).blk = b
  BY FrameTypes DEF SubAck
<1>4. /\ Len(s2c') = Len(s2c) + 1 /\ s2c'[Len(s2c) + 1] = SubAck(a, b)
      /\ \A i \in 1..Len(s2c) : s2c'[i] = s2c[i]
      /\ \A i \in 1..Len(s2c') : i \in 1..Len(s2c) \/ i = Len(s2c) + 1
  <2>1. /\ Len(s2c') = Len(s2c) + 1 /\ s2c'[Len(s2c) + 1] = SubAck(a, b)
        /\ \A i \in 1..Len(s2c) : s2c'[i] = s2c[i]
    BY <1>1, <1>3, AppendProperties
  <2>2. QED
    BY <1>1, <2>1
<1>5. Starting'
  BY <1>2 DEF Starting, Early
<1>6. Requests'
  <2>1. SegsSent' = SegsSent
    BY DEF SegsSent
  <2>2. \A i \in 1..Len(c2s') : c2s'[i].kind # "seg" /\ c2s'[i].kind # "init"
    BY <1>2 DEF Contains
  <2>3. QED
    BY <1>2, <2>1, <2>2 DEF Requests
<1>7. srvBlk' = EffectiveBlk(b) /\ srvSeq' = 0 /\ srvSaw' = FALSE
  BY DEF NewSubBlock
<1>8. InStep'
  BY <1>7 DEF InStep, Waiting
<1>9. Acks'
  <2> SUFFICES ASSUME ~Early', pc' # "returned", NEW i \in 1..Len(s2c'), s2c'[i].kind = "subAck"
               PROVE  /\ pc' = "ackWait" /\ ~Contains(c2s', "seg") /\ ~Contains(c2s', "init")
                      /\ \A j \in 1..Len(s2c') : s2c'[j].kind = "subAck" => j = i
                      /\ srvPhase' \in {"block", "full"} => Len(stored') = offset' + s2c'[i].ack
                      /\ srvPhase' = "block" =>
                           srvBlk' = EffectiveBlk(s2c'[i].blk) /\ srvSeq' = 0 /\ ~srvSaw'
    BY DEF Acks, EffectiveBlk
  <2>1. \A j \in 1..Len(s2c') : s2c'[j].kind = "subAck" => j = Len(s2c) + 1
    BY <1>4
  <2>2. s2c'[i] = SubAck(a, b) /\ i = Len(s2c) + 1
    BY <1>4, <2>1
  <2>3. QED
    BY <1>2, <1>3, <1>7, <2>1, <2>2
<1>10. QED
  BY <1>5, <1>6, <1>8, <1>9 DEF Orderly

\* A segment: stored when it is the next one, and answered when it is the last of the
\* sub-block, which both ends agree on.
LEMMA OrderlySrvSegment == Typed /\ Orderly /\ SrvSegment => Orderly'
<1> SUFFICES ASSUME Typed, Orderly, SrvSegment PROVE Orderly'
  OBVIOUS
<1> DEFINE m == Head(c2s)
           got == IF m.seq = srvSeq + 1 THEN m.seq ELSE srvSeq
<1>1. /\ c2s \in Seq(ReqFrames) /\ s2c \in Seq(RspFrames) /\ c2s # <<>> /\ m.kind = "seg" /\ srvPhase = "block"
      /\ c2s' = Tail(c2s) /\ stored \in Seq(1..NumSegs) /\ srvSeq \in 0..MaxBlk /\ offset \in 0..NumSegs
      /\ seqno \in 1..(MaxBlk + 1) /\ blksize \in 1..MaxBlk /\ Len(stored) \in Nat /\ world.blks \subseteq BlkSizes
      /\ NumSegs \in Nat /\ MaxBlk \in Nat
  BY LenProperties, WorldFields, ConstantsOK DEF Typed, TypeOK, SrvSegment
<1>2. UNCHANGED <<client, srvInit, world>>
  BY DEF SrvSegment, given
<1>3. m = c2s[1] /\ 1 \in 1..Len(c2s) /\ Contains(c2s, "seg") /\ Len(c2s) \in Nat
  BY <1>1, HeadContained
<1>4. m \in ReqFrames /\ m.seq \in 1..MaxBlk /\ m.idx \in 1..NumSegs
  <2>1. m \in ReqFrames
    BY <1>1, HeadTailProperties
  <2>2. QED
    BY <1>1, <2>1, ReqFields
<1>5. /\ m.seq <= SegsSent /\ m.idx = offset + m.seq /\ (m.last => m.idx = NumSegs)
  BY <1>1, <1>3 DEF Orderly, Requests
<1>6. ~Contains(c2s, "init")
  <2>1. ASSUME NEW j \in 1..Len(c2s), c2s[j].kind = "init" PROVE FALSE
    <3>1. j # 1
      BY <1>1, <1>3, <2>1
    <3>2. 1 < j
      BY <1>3, <3>1
    <3>3. QED
      BY <1>1, <1>3, <2>1, <3>2 DEF Orderly, Requests
  <2>2. QED
    BY <2>1 DEF Contains
<1>7. ~Early /\ pc \in {"sending", "ackWait", "returned"}
  BY <1>1, <1>3 DEF Orderly, Starting, Requests, Early, Typed, TypeOK
<1>8. Len(stored) = offset + srvSeq /\ srvBlk = blksize
  BY <1>1, <1>3, <1>7 DEF Orderly, InStep, Aligned, Waiting
<1>9. pc # "returned" => \A i \in 1..Len(s2c) : s2c[i].kind # "subAck"
  BY <1>3, <1>7 DEF Orderly, Acks
<1>10. /\ stored' = IF m.seq = srvSeq + 1 THEN Append(stored, m.idx) ELSE stored
       /\ srvPhase' = IF m.seq = srvSeq + 1 /\ m.last THEN "full" ELSE "block"
  BY DEF SrvSegment
<1>11. Len(stored') = offset + got /\ Prefix'
  <2>1. CASE m.seq = srvSeq + 1
    <3>1. m.idx = Len(stored) + 1
      BY <1>1, <1>4, <1>5, <1>8, <2>1
    <3>2. stored' = Append(stored, m.idx)
      BY <1>10, <2>1
    <3>3. /\ Len(stored') = Len(stored) + 1 /\ stored'[Len(stored) + 1] = Len(stored) + 1
          /\ \A i \in 1..Len(stored) : stored'[i] = stored[i]
      BY <1>1, <1>4, <3>1, <3>2, AppendProperties
    <3>4. \A i \in 1..Len(stored') : stored'[i] = i
      <4>1. \A i \in 1..Len(stored') : i \in 1..Len(stored) \/ i = Len(stored) + 1
        BY <1>1, <3>3
      <4>2. QED
        BY <3>3, <4>1 DEF Orderly, Prefix
    <3>5. srvPhase' \in {"full", "committed"} => Len(stored') = NumSegs
      <4>1. srvPhase' \in {"full", "committed"} => m.last
        BY <1>10
      <4>2. QED
        BY <1>5, <3>1, <3>3, <4>1
    <3>6. Len(stored') = offset + got
      BY <1>1, <1>4, <1>8, <2>1, <3>3
    <3>7. QED
      BY <3>4, <3>5, <3>6 DEF Prefix
  <2>2. CASE m.seq # srvSeq + 1
    BY <1>8, <1>10, <2>2 DEF Orderly, Prefix
  <2>3. QED
    BY <2>1, <2>2
<1>12. got \in 0..MaxBlk
  BY <1>1, <1>4
<1>13. CASE m.seq = srvBlk \/ m.last
  <2>1. PICK b \in world.blks : s2c' = Append(s2c, SubAck(got, b)) /\ NewSubBlock(b)
    BY <1>13 DEF SrvSegment
  <2>2. m.seq = blksize \/ offset + m.seq = NumSegs
    BY <1>5, <1>8, <1>13
  <2>3. m.seq = SegsSent
    <3>1. SegsSent <= blksize /\ offset + SegsSent <= NumSegs /\ SegsSent \in Int
      BY <1>1 DEF Orderly, Requests, SegsSent
    <3>2. QED
      BY <1>1, <1>4, <1>5, <2>2, <3>1
  <2>4. ~Contains(c2s', "seg")
    <3>1. ASSUME NEW i \in 1..Len(c2s'), c2s'[i].kind = "seg" PROVE FALSE
      <4>1. c2s'[i] = c2s[i + 1] /\ i + 1 \in 1..Len(c2s) /\ 1 < i + 1
        BY <1>1, <1>3, HeadTailProperties
      <4>2. m.seq < c2s[i + 1].seq /\ c2s[i + 1].seq <= SegsSent
        BY <1>1, <1>3, <3>1, <4>1 DEF Orderly, Requests
      <4>3. c2s[i + 1].seq \in 1..MaxBlk
        <5>1. c2s[i + 1] \in ReqFrames
          BY <1>1, <4>1, ElementOfSeq
        <5>2. QED
          BY <3>1, <4>1, <5>1, ReqFields
      <4>4. QED
        BY <1>1, <1>4, <2>3, <4>2, <4>3
    <3>2. QED
      BY <3>1 DEF Contains
  <2>5. pc # "sending"
    <3>1. ASSUME pc = "sending" PROVE FALSE
      <4>1. offset + seqno <= NumSegs /\ seqno <= blksize
        BY <3>1 DEF Typed, ClientBounds
      <4>2. QED
        BY <1>1, <1>4, <2>2, <2>3, <4>1 DEF SegsSent
    <3>2. QED
      BY <3>1
  <2>6. b \in BlkSizes /\ pc \in {"ackWait", "returned"}
    BY <1>1, <1>7, <2>5
  <2>7. QED
    BY <1>1, <1>2, <1>6, <1>7, <1>9, <1>11, <1>12, <2>1, <2>4, <2>6, OrderlyAnswer DEF Orderly
<1>14. CASE ~(m.seq = srvBlk \/ m.last)
  <2>1. srvSeq' = got /\ UNCHANGED <<s2c, srvBlk, offset, seqno, blksize, pc>> /\ srvPhase' = "block"
    BY <1>2, <1>10, <1>14 DEF SrvSegment, client
  <2>2. PICK d \in {0, 1} : /\ Len(c2s') + d = Len(c2s) /\ c2s' \in Seq(ReqFrames)
                            /\ \A i \in 1..Len(c2s') : i + d \in 1..Len(c2s) /\ c2s'[i] = c2s[i + d]
    BY <1>1, Shorter
  <2>3. ~Contains(c2s', "init")
    BY <1>1, <1>6, ShorterContains
  <2>4. Starting'
    BY <1>7, <2>1, <2>3 DEF Starting, Early
  <2>5. Requests'
    <3>1. SegsSent' = SegsSent
      BY <2>1 DEF SegsSent
    <3>2. ASSUME NEW i \in 1..Len(c2s'), NEW j \in 1..Len(c2s'), i < j
          PROVE  /\ c2s'[j].kind = "init" => c2s'[i].kind = "init"
                 /\ c2s'[i].kind = "seg" /\ c2s'[j].kind = "seg" => c2s'[i].seq < c2s'[j].seq
      <4>1. i + d \in 1..Len(c2s) /\ j + d \in 1..Len(c2s) /\ i + d < j + d
        BY <2>2, <3>2
      <4>2. QED
        BY <2>2, <4>1 DEF Orderly, Requests
    <3>3. \A i \in 1..Len(c2s') : c2s'[i].kind = "seg" =>
            /\ c2s'[i].seq <= SegsSent /\ c2s'[i].idx = offset + c2s'[i].seq
            /\ c2s'[i].last => c2s'[i].idx = NumSegs
      BY <2>2 DEF Orderly, Requests
    <3>4. pc' \notin {"ending", "endWait"}
      BY <1>7, <2>1
    <3>5. QED
      BY <2>1, <3>1, <3>2, <3>3, <3>4 DEF Orderly, Requests
  <2>6. InStep'
    BY <1>8, <1>11, <2>1 DEF InStep, Aligned
  <2>7. Acks'
    BY <1>7, <1>9, <2>1 DEF Acks, Early
  <2>8. QED
    BY <1>11, <2>4, <2>5, <2>6, <2>7 DEF Orderly
<1>15. QED
  BY <1>13, <1>14

\* A patient server answers on its own only when the client waits and nothing is under way.
LEMMA OrderlySubBlockTimeout == Typed /\ Orderly /\ world.patient /\ SrvSubBlockTimeout => Orderly'
<1> SUFFICES ASSUME Typed, Orderly, world.patient, SrvSubBlockTimeout PROVE Orderly'
  OBVIOUS
<1>1. /\ c2s = <<>> /\ c2s' = c2s /\ pc = "ackWait" /\ srvPhase = "block" /\ srvSaw /\ ~Early /\ srvPhase' = srvPhase
      /\ UNCHANGED <<client, srvInit, stored>>
  BY DEF SrvSubBlockTimeout, given, Early
<1>2. PICK b \in world.blks : s2c' = Append(s2c, SubAck(srvSeq, b)) /\ NewSubBlock(b)
  BY DEF SrvSubBlockTimeout
<1>3. srvSeq \in 0..MaxBlk /\ b \in BlkSizes
  <2>1. world.blks \subseteq BlkSizes
    BY WorldFields DEF Typed, TypeOK
  <2>2. QED
    BY <2>1 DEF Typed, TypeOK
<1>4. Len(stored) = offset + srvSeq
  BY <1>1 DEF Orderly, InStep, Aligned, Waiting
<1>5. \A i \in 1..Len(s2c) : s2c[i].kind # "subAck"
  BY <1>1 DEF Orderly, Acks
<1>6. ~Contains(c2s, "init") /\ ~Contains(c2s', "seg")
  BY <1>1 DEF Contains
<1>7. Prefix'
  BY <1>1 DEF Orderly, Prefix
<1>8. QED
  BY <1>1, <1>2, <1>3, <1>4, <1>5, <1>6, <1>7, OrderlyAnswer DEF Orderly

\* What was negotiated, under any timing: the answer to an initiate is what the server
\* always answers, and the client keeps to it.
LEMMA NegotiatedFrames ==
  ASSUME Typed, Negotiated,
         \/ s2c' = s2c \/ (s2c # <<>> /\ s2c' = Tail(s2c))
         \/ \E k \in 0..Len(s2c) : s2c' = SubSeq(s2c, k + 1, Len(s2c))
         \/ \E m \in RspFrames :
              (m.kind = "initAck" => m.blk = srvInit /\ m.crc = srvCrc) /\ s2c' = Append(s2c, m),
         UNCHANGED given
  PROVE  \A i \in 1..Len(s2c') : s2c'[i].kind = "initAck" => s2c'[i].blk = srvInit' /\ s2c'[i].crc = srvCrc'
<1> USE DEF given
<1>1. s2c \in Seq(RspFrames) /\ Len(s2c) \in Nat
  BY LenProperties DEF Typed, TypeOK
<1>2. CASE s2c' = s2c \/ (s2c # <<>> /\ s2c' = Tail(s2c))
  <2>1. PICK d \in {0, 1} : \A i \in 1..Len(s2c') : i + d \in 1..Len(s2c) /\ s2c'[i] = s2c[i + d]
    BY <1>1, <1>2, Shorter
  <2>2. QED
    BY <2>1 DEF Negotiated
<1>3. CASE \E k \in 0..Len(s2c) : s2c' = SubSeq(s2c, k + 1, Len(s2c))
  <2>1. PICK k \in 0..Len(s2c) : s2c' = SubSeq(s2c, k + 1, Len(s2c))
    BY <1>3
  <2>2. \A i \in 1..Len(s2c') : s2c'[i] = s2c[k + i] /\ k + i \in 1..Len(s2c)
    BY <1>1, <2>1, SubSeqProperties
  <2>3. QED
    BY <2>2 DEF Negotiated
<1>4. CASE \E m \in RspFrames :
             (m.kind = "initAck" => m.blk = srvInit /\ m.crc = srvCrc) /\ s2c' = Append(s2c, m)
  <2>1. PICK m \in RspFrames :
          (m.kind = "initAck" => m.blk = srvInit /\ m.crc = srvCrc) /\ s2c' = Append(s2c, m)
    BY <1>4
  <2>2. /\ Len(s2c') = Len(s2c) + 1 /\ s2c'[Len(s2c) + 1] = m /\ \A i \in 1..Len(s2c) : s2c'[i] = s2c[i]
    BY <1>1, <2>1, AppendProperties
  <2>3. \A i \in 1..Len(s2c') : i \in 1..Len(s2c) \/ i = Len(s2c) + 1
    BY <1>1, <2>2
  <2>4. QED
    BY <2>1, <2>2, <2>3 DEF Negotiated
<1>5. QED
  BY <1>2, <1>3, <1>4

\* The parts of a step Negotiated looks at.
LEMMA NegotiatedStep == Typed /\ Ending /\ Negotiated /\ Next => Negotiated'
<1> SUFFICES ASSUME Typed, Ending, Negotiated, Next PROVE Negotiated'
  OBVIOUS
<1> DEFINE Agreed == pc \in {"sending", "ackWait", "ending", "endWait"} \/ Contains(c2s, "end")
                       \/ srvPhase = "committed"
<1>1. c2s \in Seq(ReqFrames) /\ s2c \in Seq(RspFrames) /\ Len(s2c) \in Nat
  BY LenProperties DEF Typed, TypeOK
<1>2. UNCHANGED given
  BY DEF Next, ClientNext, ServerNext, Initiate, ResendInitiate, RecvInitAck, RecvInitAbort, SendSegment, RecvSubAck,
         SendEnd, RecvEndAck, RecvAbort, SkipFrame, Timeout, SendRefused, SrvInitiate, SrvSegment, SrvSubBlockTimeout, SrvEnd,
         SrvIgnore, SrvAbort, Lose
<1>3. \A i \in 1..Len(s2c') : s2c'[i].kind = "initAck" => s2c'[i].blk = srvInit' /\ s2c'[i].crc = srvCrc'
  <2>1. CASE ClientNext \/ SrvIgnore \/ Lose
    <3>1. \/ s2c' = s2c \/ (s2c # <<>> /\ s2c' = Tail(s2c))
          \/ \E k \in 0..Len(s2c) : s2c' = SubSeq(s2c, k + 1, Len(s2c))
      BY <2>1 DEF ClientNext, Initiate, ResendInitiate, RecvInitAck, RecvInitAbort, SendSegment, RecvSubAck,
                  SendEnd, RecvEndAck, RecvAbort, SkipFrame, Timeout, SendRefused, SrvIgnore, Lose
    <3>2. QED
      BY <1>2, <3>1, NegotiatedFrames
  <2>2. CASE ServerNext /\ ~SrvIgnore
    <3>1. s2c' = s2c \/ \E m \in RspFrames :
            (m.kind = "initAck" => m.blk = srvInit /\ m.crc = srvCrc) /\ s2c' = Append(s2c, m)
      <4>1. CASE SrvInitiate
        <5>1. InitAck(srvInit, srvCrc) \in RspFrames
          BY FrameTypes DEF Typed, TypeOK
        <5>2. InitAck(srvInit, srvCrc).blk = srvInit /\ InitAck(srvInit, srvCrc).crc = srvCrc
          BY DEF InitAck
        <5>3. QED
          BY <4>1, <5>1, <5>2 DEF SrvInitiate
      <4>2. ASSUME NEW a \in 0..MaxBlk, NEW b \in BlkSizes
            PROVE  SubAck(a, b) \in RspFrames /\ SubAck(a, b).kind # "initAck"
        BY FrameTypes DEF SubAck
      <4>3. world.blks \subseteq BlkSizes
        BY WorldFields DEF Typed, TypeOK
      <4>4. CASE SrvSegment
        <5> DEFINE got == IF Head(c2s).seq = srvSeq + 1 THEN Head(c2s).seq ELSE srvSeq
        <5>1. Head(c2s) \in ReqFrames /\ Head(c2s).kind = "seg"
          BY <1>1, <4>4, HeadTailProperties DEF SrvSegment
        <5>2. Head(c2s).seq \in 1..MaxBlk /\ srvSeq \in 0..MaxBlk
          BY <5>1, ReqFields DEF Typed, TypeOK
        <5>3. got \in 0..MaxBlk
          BY <5>2, ConstantsOK
        <5>4. s2c' = s2c \/ \E b \in BlkSizes : s2c' = Append(s2c, SubAck(got, b))
          BY <4>3, <4>4 DEF SrvSegment
        <5>5. QED
          BY <4>2, <5>3, <5>4
      <4>5. CASE SrvSubBlockTimeout
        <5>1. srvSeq \in 0..MaxBlk
          BY DEF Typed, TypeOK
        <5>2. QED
          BY <4>2, <4>3, <4>5, <5>1 DEF SrvSubBlockTimeout
      <4>6. ASSUME NEW stale \in BOOLEAN
            PROVE  Abort(TRUE, stale) \in RspFrames /\ Abort(TRUE, stale).kind # "initAck"
        BY FrameTypes DEF Abort
      <4>7. EndAck \in RspFrames /\ EndAck.kind # "initAck"
        BY FrameTypes DEF EndAck
      <4>8. CASE SrvEnd
        BY <4>6, <4>7, <4>8 DEF SrvEnd
      <4>9. CASE SrvAbort
        BY <4>6, <4>9 DEF SrvAbort
      <4>10. QED
        BY <2>2, <4>1, <4>4, <4>5, <4>8, <4>9 DEF ServerNext
    <3>2. QED
      BY <1>2, <3>1, NegotiatedFrames
  <2>3. QED
    BY <2>1, <2>2 DEF Next
<1>4. CASE RecvInitAck
  <2>1. crc' = srvCrc
    <3>1. Head(s2c) = s2c[1] /\ 1 \in 1..Len(s2c) /\ Head(s2c).kind = "initAck" /\ crc' = Head(s2c).crc
      BY <1>1, <1>4, HeadContained DEF RecvInitAck
    <3>2. QED
      BY <3>1 DEF Negotiated
  <2>2. srvCrc' = srvCrc
    BY <1>2 DEF given
  <2>3. QED
    BY <1>3, <2>1, <2>2 DEF Negotiated
<1>5. CASE ~RecvInitAck
  <2>1. crc' = crc
    BY <1>5 DEF Next, ClientNext, ServerNext, Initiate, ResendInitiate, RecvInitAbort, SendSegment, RecvSubAck,
                SendEnd, RecvEndAck, RecvAbort, SkipFrame, Timeout, SendRefused, SrvInitiate, SrvSegment, SrvSubBlockTimeout,
                SrvEnd, SrvIgnore, SrvAbort, Lose, client
  <2>2. pc' \in {"sending", "ackWait", "ending", "endWait"} => pc \in {"sending", "ackWait", "ending", "endWait"}
    BY <1>5 DEF Next, ClientNext, ServerNext, Initiate, ResendInitiate, RecvInitAbort, SendSegment, RecvSubAck,
                SendEnd, RecvEndAck, RecvAbort, SkipFrame, Timeout, SendRefused, SrvInitiate, SrvSegment, SrvSubBlockTimeout,
                SrvEnd, SrvIgnore, SrvAbort, Lose, client, Fail
  <2>3. Contains(c2s', "end") => Contains(c2s, "end") \/ pc = "ending"
    <3>1. CASE SendEnd
      BY <3>1 DEF SendEnd
    <3>2. CASE ~SendEnd
      <4>1. \/ c2s' = c2s \/ (c2s # <<>> /\ c2s' = Tail(c2s))
            \/ c2s' = Append(c2s, InitReq)
            \/ SendSegment
        BY <3>2 DEF Next, ClientNext, ServerNext, Initiate, ResendInitiate, RecvInitAck, RecvInitAbort, RecvSubAck,
                    RecvEndAck, RecvAbort, SkipFrame, Timeout, SendRefused, SrvInitiate, SrvSegment, SrvSubBlockTimeout, SrvEnd,
                    SrvIgnore, SrvAbort, Lose, server
      <4>2. CASE c2s' = c2s \/ (c2s # <<>> /\ c2s' = Tail(c2s))
        BY <1>1, <4>2, ShorterContains
      <4>3. CASE c2s' = Append(c2s, InitReq)
        <5>1. InitReq \in ReqFrames /\ InitReq.kind # "end"
          BY FrameTypes DEF InitReq
        <5>2. QED
          BY <1>1, <4>3, <5>1, ContainsAppend
      <4>4. CASE SendSegment
        <5>1. seqno \in 1..MaxBlk /\ offset + seqno \in 1..NumSegs
          BY <4>4, ConstantsOK DEF SendSegment, Typed, TypeOK, ClientBounds
        <5>2. SegReq(seqno, offset + seqno) \in ReqFrames
          BY <5>1, FrameTypes
        <5>3. SegReq(seqno, offset + seqno).kind # "end"
          BY DEF SegReq
        <5>4. QED
          BY <1>1, <4>4, <5>2, <5>3, ContainsAppend DEF SendSegment
      <4>5. QED
        BY <4>1, <4>2, <4>3, <4>4
    <3>3. QED
      BY <3>1, <3>2
  <2>4. srvPhase' = "committed" => srvPhase = "committed" \/ Contains(c2s, "end")
    <3>1. CASE SrvEnd
      BY <1>1, <3>1, HeadContained DEF SrvEnd
    <3>2. CASE ~SrvEnd
      BY <3>2 DEF Next, ClientNext, ServerNext, Initiate, ResendInitiate, RecvInitAck, RecvInitAbort, SendSegment,
                  RecvSubAck, SendEnd, RecvEndAck, RecvAbort, SkipFrame, Timeout, SendRefused, SrvInitiate, SrvSegment,
                  SrvSubBlockTimeout, SrvIgnore, SrvAbort, Lose, server
    <3>3. QED
      BY <3>1, <3>2
  <2>5. srvCrc' = srvCrc
    BY <1>2 DEF given
  <2>6. QED
    BY <1>3, <2>1, <2>2, <2>3, <2>4, <2>5 DEF Negotiated
<1>6. QED
  BY <1>4, <1>5

\* No step of a transfer with a patient server takes its segments out of order.
LEMMA OrderlyStep == Typed /\ Negotiated /\ Orderly /\ world.patient /\ Next => Orderly'
<1> SUFFICES ASSUME Typed, Negotiated, Orderly, world.patient, Next PROVE Orderly'
  OBVIOUS
<1>0. s2c \in Seq(RspFrames) /\ Len(s2c) \in Nat
  BY LenProperties DEF Typed, TypeOK
<1>1. CASE Initiate \/ ResendInitiate
  <2>1. /\ Early /\ pc' = "initWait" /\ c2s' = Append(c2s, InitReq)
        /\ UNCHANGED <<offset, seqno, blksize, server, given>>
    BY <1>1 DEF Initiate, ResendInitiate, Early
  <2>2. \E k \in 0..Len(s2c) : s2c' = SubSeq(s2c, k + 1, Len(s2c))
    <3>1. CASE Initiate
      BY <3>1 DEF Initiate
    <3>2. CASE ResendInitiate
      <4>1. s2c' = s2c
        BY <3>2 DEF ResendInitiate
      <4>2. SubSeq(s2c, 0 + 1, Len(s2c)) = s2c
        BY <1>0, SubSeqFull
      <4>3. QED
        BY <1>0, <4>1, <4>2
    <3>3. QED
      BY <1>1, <3>1, <3>2
  <2>3. QED
    BY <2>1, <2>2, OrderlyInitiate
<1>2. CASE RecvInitAbort
  <2>1. pc = "initWait" /\ s2c # <<>> /\ s2c' = Tail(s2c) /\ UNCHANGED <<offset, seqno, blksize, server, given>>
    BY <1>2 DEF RecvInitAbort
  <2>2. CASE Head(s2c).stale /\ sends < MaxSends
    <3>1. c2s' = Append(c2s, InitReq) /\ pc' = pc
      BY <1>2, <2>2 DEF RecvInitAbort
    <3>2. Tail(s2c) = SubSeq(s2c, 1 + 1, Len(s2c)) /\ 1 \in 0..Len(s2c)
      <4>1. 1 \in 1..Len(s2c)
        BY <1>0, <2>1, HeadContained
      <4>2. Len(s2c) \in 1..Len(s2c)
        BY <4>1
      <4>3. SubSeq(s2c, 1, Len(s2c)) = s2c
        BY <1>0, SubSeqFull
      <4>4. Tail(SubSeq(s2c, 1, Len(s2c))) = SubSeq(s2c, 1 + 1, Len(s2c))
        BY <1>0, <4>1, <4>2, HeadTailOfSubSeq
      <4>5. 1 \in 0..Len(s2c)
        BY <4>1
      <4>6. QED
        BY <4>3, <4>4, <4>5
    <3>3. QED
      BY <2>1, <3>1, <3>2, OrderlyInitiate DEF Early
  <2>3. CASE ~(Head(s2c).stale /\ sends < MaxSends)
    <3>1. c2s' = c2s /\ pc' = "returned"
      BY <1>2, <2>3 DEF RecvInitAbort, Fail
    <3>2. QED
      BY <2>1, <3>1, OrderlyPassive DEF server, given
  <2>4. QED
    BY <2>2, <2>3
<1>3. CASE RecvEndAck \/ RecvAbort \/ SkipFrame \/ Timeout \/ SendRefused
  <2>1. /\ c2s' = c2s
        /\ s2c' = s2c \/ (s2c # <<>> /\ s2c' = Tail(s2c)) \/ pc' = "returned"
        /\ pc' = pc \/ pc' = "returned"
        /\ UNCHANGED <<offset, seqno, blksize, server, given>>
    BY <1>3 DEF RecvEndAck, RecvAbort, SkipFrame, Timeout, SendRefused, Fail, client
  <2>2. QED
    BY <2>1, OrderlyPassive DEF server, given
<1>4. CASE Lose
  <2>1. /\ (c2s' = c2s \/ (c2s # <<>> /\ c2s' = Tail(c2s))) /\ (s2c' = s2c \/ (s2c # <<>> /\ s2c' = Tail(s2c)))
        /\ UNCHANGED <<client, server, given>>
    BY <1>4 DEF Lose
  <2>2. QED
    BY <2>1, OrderlyPassive DEF client, server, given
<1>5. CASE SrvEnd \/ SrvIgnore \/ SrvAbort
  <2>1. /\ c2s' = c2s \/ (c2s # <<>> /\ c2s' = Tail(c2s))
        /\ srvPhase' = srvPhase \/ srvPhase' = "idle" \/ (srvPhase = "full" /\ srvPhase' = "committed")
        /\ UNCHANGED <<client, srvBlk, srvSeq, srvSaw, stored, given>>
    BY <1>5 DEF SrvEnd, SrvIgnore, SrvAbort, server
  <2>2. s2c' = s2c \/ \E m \in RspFrames : m.kind \in {"endAck", "abort"} /\ s2c' = Append(s2c, m)
    <3>1. EndAck \in RspFrames /\ EndAck.kind = "endAck"
      BY FrameTypes DEF EndAck
    <3>2. ASSUME NEW stale \in BOOLEAN PROVE Abort(TRUE, stale) \in RspFrames /\ Abort(TRUE, stale).kind = "abort"
      BY FrameTypes DEF Abort
    <3>3. QED
      BY <1>5, <3>1, <3>2 DEF SrvEnd, SrvIgnore, SrvAbort
  <2>3. QED
    BY <2>1, <2>2, OrderlyPassive DEF client, given
<1>6. QED
  BY <1>1, <1>2, <1>3, <1>4, <1>5, OrderlyRecvInitAck, OrderlySendSegment, OrderlyRecvSubAck, OrderlySendEnd,
     OrderlySrvInitiate, OrderlySrvSegment, OrderlySubBlockTimeout
     DEF Next, ClientNext, ServerNext

\* What the server stores is in order when a transfer begins ...
LEMMA StoreInit == Init => StoreInv
<1> SUFFICES ASSUME Init PROVE StoreInv
  OBVIOUS
<1>1. pc = "start" /\ c2s = <<>> /\ stored = <<>> /\ offset = 0 /\ seqno = 1 /\ srvPhase = "idle" /\ blksize = DefaultBlk
      /\ srvSeq = 0 /\ srvSaw = FALSE
  BY DEF Init
<1>2. s2c = <<>> \/ \E m \in Leftovers : s2c = <<m>>
  BY DEF Init
<1>3. \A i \in 1..Len(s2c) : i = 1 /\ s2c[i].kind # "initAck"
  <2>1. \A m \in Leftovers : m.kind # "initAck"
    BY DEF Leftovers, Abort, SubAck
  <2>2. CASE s2c = <<>>
    BY <2>2
  <2>3. ASSUME NEW m \in Leftovers, s2c = <<m>> PROVE \A i \in 1..Len(s2c) : i = 1 /\ s2c[i].kind # "initAck"
    <3>1. Len(<<m>>) = 1 /\ <<m>>[1] = m
      OBVIOUS
    <3>2. \A i \in 1..1 : i = 1
      OBVIOUS
    <3>3. QED
      BY <2>1, <2>3, <3>1, <3>2
  <2>4. QED
    BY <1>2, <2>2, <2>3
<1>4. ~Contains(c2s, "end") /\ ~Contains(c2s, "init") /\ Early
  BY <1>1 DEF Contains, Early
<1>5. Negotiated
  BY <1>1, <1>3, <1>4 DEF Negotiated
<1>6. Starting /\ InStep /\ Acks /\ Prefix
  BY <1>1, <1>3, <1>4 DEF Starting, InStep, Acks, Prefix
<1>7. Requests
  BY <1>1, ConstantsOK DEF Requests, SegsSent
<1>8. QED
  BY <1>5, <1>6, <1>7 DEF StoreInv, Orderly

\* ... and stays so.
LEMMA StoreStep == IInv /\ StoreInv /\ [Next]_vars => StoreInv'
<1> SUFFICES ASSUME IInv, StoreInv, [Next]_vars PROVE StoreInv'
  OBVIOUS
<1>1. Typed /\ Ending
  BY DEF IInv, Typed
<1>2. CASE Next
  <2>1. world' = world
    BY <1>2 DEF Next, ClientNext, ServerNext, Initiate, ResendInitiate, RecvInitAck, RecvInitAbort, SendSegment,
                RecvSubAck, SendEnd, RecvEndAck, RecvAbort, SkipFrame, Timeout, SendRefused, SrvInitiate, SrvSegment,
                SrvSubBlockTimeout, SrvEnd, SrvIgnore, SrvAbort, Lose, given
  <2>2. QED
    BY <1>1, <1>2, <2>1, NegotiatedStep, OrderlyStep DEF StoreInv
<1>3. CASE UNCHANGED vars
  BY <1>3 DEF StoreInv, Negotiated, Orderly, Starting, Requests, InStep, Acks, Prefix, Aligned, Waiting, Early,
              Contains, SegsSent, EffectiveBlk, vars, client, server, given
<1>4. QED
  BY <1>2, <1>3

\* A transfer that can be relied on commits nothing but the payload.
CommitsPayload == Trusted /\ srvPhase = "committed" => stored = Payload

\* By the CRC or by the order of the segments, what is committed is whole.
LEMMA CommitIsWhole == IInv /\ StoreInv => CommitsPayload
<1> SUFFICES ASSUME IInv, StoreInv, Trusted, srvPhase = "committed" PROVE stored = Payload
  BY DEF CommitsPayload
<1>1. CASE srvCrc
  <2>1. crc = srvCrc
    BY DEF StoreInv, Negotiated
  <2>2. QED
    BY <1>1, <2>1 DEF IInv, Ending, CommitIsFinal
<1>2. CASE world.patient
  <2>1. Prefix
    BY <1>2 DEF StoreInv, Orderly
  <2>2. Len(stored) = NumSegs /\ \A i \in 1..Len(stored) : stored[i] = i
    BY <2>1 DEF Prefix
  <2>3. stored \in Seq(1..NumSegs)
    BY DEF IInv, TypeOK
  <2>4. stored = [i \in 1..NumSegs |-> i]
    BY <2>2, <2>3
  <2>5. QED
    BY <2>4 DEF Payload
<1>3. QED
  BY <1>1, <1>2 DEF Trusted

\* The server commits in one step, of its own, and what it has committed it keeps.
LEMMA CommitStep ==
  ASSUME IInv, [Next]_vars
  PROVE  /\ srvPhase = "committed" => srvPhase' = "committed"
         /\ srvPhase # "committed" /\ srvPhase' = "committed" => result' = result
<1>1. CASE ClientNext \/ Lose \/ UNCHANGED vars
  <2>1. srvPhase' = srvPhase
    BY <1>1 DEF ClientNext, Initiate, ResendInitiate, RecvInitAck, RecvInitAbort, SendSegment, RecvSubAck, SendEnd,
                RecvEndAck, RecvAbort, SkipFrame, Timeout, SendRefused, Lose, vars, server
  <2>2. QED
    BY <2>1
<1>2. CASE ServerNext
  <2>1. result' = result
    BY <1>2 DEF ServerNext, SrvInitiate, SrvSegment, SrvSubBlockTimeout, SrvEnd, SrvIgnore, SrvAbort, client
  <2>2. srvPhase = "committed" => c2s = <<>>
    BY DEF IInv, Ending, CommitIsFinal
  <2>3. srvPhase = "committed" => srvPhase' = "committed"
    BY <1>2, <2>2 DEF ServerNext, SrvInitiate, SrvSegment, SrvSubBlockTimeout, SrvEnd, SrvIgnore, SrvAbort
  <2>4. QED
    BY <2>1, <2>3
<1>3. QED
  BY <1>1, <1>2 DEF Next

\* download_block returns once, in a step of the client.
LEMMA ReturnStep ==
  ASSUME IInv, [Next]_vars, result' # result
  PROVE  result = "pending" /\ result' \in {"ok", "error"} /\ srvPhase' = srvPhase
<1>1. CASE ClientNext
  <2>1. srvPhase' = srvPhase
    BY <1>1 DEF ClientNext, Initiate, ResendInitiate, RecvInitAck, RecvInitAbort, SendSegment, RecvSubAck, SendEnd,
                RecvEndAck, RecvAbort, SkipFrame, Timeout, SendRefused, server
  <2>2. pc # "returned" /\ result' \in {"ok", "error"}
    BY <1>1 DEF ClientNext, Initiate, ResendInitiate, RecvInitAck, RecvInitAbort, SendSegment, RecvSubAck, SendEnd,
                RecvEndAck, RecvAbort, SkipFrame, Timeout, SendRefused, Fail, Deadline, client
  <2>3. result = "pending"
    BY <2>2 DEF IInv, ClientBounds
  <2>4. QED
    BY <2>1, <2>2, <2>3
<1>2. CASE ~ClientNext
  BY <1>2 DEF Next, ServerNext, SrvInitiate, SrvSegment, SrvSubBlockTimeout, SrvEnd, SrvIgnore, SrvAbort, Lose, vars,
              client
<1>3. QED
  BY <1>1, <1>2

\* What a transfer promises, step by step: a step of the two ends or the bus is one the
\* contract allows, or none of its business.
LEMMA TransferStep ==
  IInv /\ CommitsPayload /\ IInv' /\ CommitsPayload' /\ [Next]_vars =>
    [Contract!Next]_<<IF Trusted THEN result ELSE "pending",
                      IF srvPhase # "committed" \/ ~Trusted THEN "before"
                      ELSE IF stored = Payload THEN "whole" ELSE "corrupt">>
<1> DEFINE outcome == IF Trusted THEN result ELSE "pending"
           node == IF srvPhase # "committed" \/ ~Trusted THEN "before"
                   ELSE IF stored = Payload THEN "whole" ELSE "corrupt"
<1> SUFFICES ASSUME IInv, CommitsPayload, IInv', CommitsPayload', [Next]_vars
             PROVE  [Contract!Next]_<<outcome, node>>
  OBVIOUS
<1>1. UNCHANGED given
  BY DEF Next, ClientNext, ServerNext, Initiate, ResendInitiate, RecvInitAck, RecvInitAbort, SendSegment, RecvSubAck,
         SendEnd, RecvEndAck, RecvAbort, SkipFrame, Timeout, SendRefused, SrvInitiate, SrvSegment, SrvSubBlockTimeout, SrvEnd,
         SrvIgnore, SrvAbort, Lose, vars
<1>2. Trusted' <=> Trusted
  BY <1>1 DEF Trusted, given
<1>3. CASE ~Trusted
  BY <1>2, <1>3
<1>4. CASE Trusted
  <2>1. outcome = result /\ outcome' = result'
    BY <1>2, <1>4
  <2>2. node = IF srvPhase = "committed" THEN "whole" ELSE "before"
    BY <1>4 DEF CommitsPayload
  <2>3. node' = IF srvPhase' = "committed" THEN "whole" ELSE "before"
    BY <1>2, <1>4 DEF CommitsPayload
  <2> HIDE DEF outcome, node
  <2>4. CASE result' = result /\ node' = node
    BY <2>1, <2>4
  <2>5. CASE node' # node
    <3>1. srvPhase # "committed" /\ srvPhase' = "committed" /\ result' = result
      BY <2>2, <2>3, <2>5, CommitStep
    <3>2. result # "ok"
      BY <3>1 DEF IInv, Ending, EndAckMeansCommit
    <3>3. QED
      BY <2>1, <2>2, <2>3, <3>1, <3>2 DEF Contract!Next, Contract!Commit, outcome, node
  <2>6. CASE result' # result /\ node' = node
    <3>1. result = "pending" /\ result' \in {"ok", "error"} /\ srvPhase' = srvPhase
      BY <2>6, ReturnStep
    <3>2. result' = "ok" => node = "whole"
      <4>1. result' = "ok" => srvPhase' = "committed"
        BY DEF IInv, Ending, EndAckMeansCommit
      <4>2. QED
        BY <2>2, <3>1, <4>1
    <3>3. QED
      BY <2>1, <2>6, <3>1, <3>2 DEF Contract!Next, Contract!ReturnOk, Contract!ReturnError, outcome, node
  <2>7. QED
    BY <2>4, <2>5, <2>6
<1>5. QED
  BY <1>3, <1>4

\* The protocol keeps the promise the firmware download builds on, whatever is lost and
\* however often: Ok only after the node has taken the object, whole and undamaged, by the
\* order of the segments when the server waits for them, by the CRC otherwise.
THEOREM Refines == Spec => ImplementsTransfer
<1>1. Init => Contract!Init
  BY DEF Init, Contract!Init
<1>2. QED
  BY <1>1, TransferStep, CommitIsWhole, IInvInit, IInvStep, StoreInit, StoreStep, PTL
     DEF Spec, ImplementsTransfer, Contract!Spec
=============================================================================
