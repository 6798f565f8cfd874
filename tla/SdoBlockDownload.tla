-------------------------- MODULE SdoBlockDownload --------------------------
(***************************************************************************)
(* The CiA 301 block download of the bbd firmware tool (SdoClient::        *)
(* download_block): the payload is cut into segments, sent in numbered     *)
(* sub-blocks, and whatever part of a sub-block the server does not        *)
(* acknowledge is sent again in the next one.                              *)
(*                                                                         *)
(* The payload is the sequence of segment indices 1..NumSegs, so the bytes *)
(* are abstracted away but not their order, their loss or their repetition.*)
(* The bus is a pair of FIFO channels that may lose any frame.  The server *)
(* is the bootloader at the other end, which is not part of the repository:*)
(* it is modelled from the answers the client decodes.                     *)
(***************************************************************************)
EXTENDS Integers, Sequences, FiniteSets

CONSTANTS
  NumSegs,      \* number of segments of the payload
  BlkSizes,     \* the values the blksize field may have on the wire
  DefaultBlk,   \* DEFAULT_BLOCK_SIZE, chosen when the server says 0
  MaxBlk,       \* 127, the largest legal sequence number
  MaxStall,     \* 16, consecutive zero acks that are still tolerated
  MaxSends,     \* bound: initiate requests one timeout budget has room for
  Worlds        \* the surroundings a transfer may meet, see World

ClientKinds == {"init", "seg", "end"}
ServerKinds == {"initAck", "subAck", "endAck", "abort"}

\* A bus and a server:
\*   blks     the block sizes the server asks for
\*   lossy    the kinds of frame the bus may lose
\*   maxLoss  bound: frames it loses in one transfer
\*   endless  it has no such bound (only no frame is lost if maxLoss is 0)
\*   timely   no timer expires while an answer is still coming
\*   patient  the server's sub-block timer outlasts the bus delay
\*   aborts   the server may abort the transfer
\*   refuses  the adapter may refuse a frame: its queue of eight is full
\*            (TxQueueFull), and a sub-block has up to MaxBlk segments
World ==
  [blks : SUBSET BlkSizes, lossy : SUBSET (ClientKinds \cup ServerKinds), maxLoss : Nat,
   endless : BOOLEAN, timely : BOOLEAN, patient : BOOLEAN, aborts : BOOLEAN, refuses : BOOLEAN]

ASSUME ConstantsOK ==
  /\ NumSegs \in Nat \ {0}
  /\ BlkSizes \subseteq Nat
  /\ MaxBlk \in Nat \ {0}
  /\ DefaultBlk \in 1..MaxBlk
  /\ MaxStall \in Nat
  /\ MaxSends \in Nat \ {0}
  /\ Worlds \subseteq World

VARIABLES
  pc,         \* where download_block stands
  offset,     \* segments the server has acknowledged
  seqno,      \* sequence number of the next segment of this sub-block
  blksize,    \* segments per sub-block the client uses
  crc,        \* does the end request carry a real CRC?
  stall,      \* stall_count
  sends,      \* initiate requests sent so far
  result,     \* what download_block returned: "pending", "ok" or "error"
  c2s,        \* requests in flight
  s2c,        \* responses in flight
  srvPhase,   \* server: "idle", "block", "full" or "committed"
  srvInit,    \* server: blksize it answers an initiate with
  srvCrc,     \* server: does it support the CRC?
  srvBlk,     \* server: segments of the current sub-block
  srvSeq,     \* server: last segment of the sub-block received in order
  srvSaw,     \* server: has the current sub-block begun to arrive?
  stored,     \* server: the segments it accepted, in that order
  losses,     \* frames lost so far
  world       \* the surroundings of this transfer

client == <<pc, offset, seqno, blksize, crc, stall, sends, result>>
server == <<srvPhase, srvBlk, srvSeq, srvSaw, stored>>
given == <<srvInit, srvCrc, world>>
vars == <<client, c2s, s2c, server, given, losses>>

-----------------------------------------------------------------------------
(* Frames                                                                  *)

InitReq == [kind |-> "init"]
SegReq(s, i) == [kind |-> "seg", seq |-> s, idx |-> i, last |-> i = NumSegs]
EndReqWithoutCrc(c) == [kind |-> "end", crc |-> FALSE]   \* mutant
EndReq(c) == [kind |-> "end", crc |-> c]
InitAck(b, c) == [kind |-> "initAck", blk |-> b, crc |-> c]
SubAck(a, b) == [kind |-> "subAck", ack |-> a, blk |-> b]
EndAck == [kind |-> "endAck"]
\* "own": names the object being written; "stale": the protocol-timed-out code
Abort(own, stale) == [kind |-> "abort", own |-> own, stale |-> stale]

EffectiveBlkUnclamped(b) == IF b = 0 THEN DefaultBlk ELSE b   \* mutant

\* The block size both ends use for a value of the blksize field.
EffectiveBlk(b) == IF b = 0 THEN DefaultBlk ELSE IF b > MaxBlk THEN MaxBlk ELSE b

Payload == [i \in 1..NumSegs |-> i]
SegsSent == seqno - 1

\* Where the next sub-block begins.
AckedOffset(ack) == IF offset + ack < NumSegs THEN offset + ack ELSE NumSegs

NotAllAcked(ack) == ack # SegsSent   \* mutant: no retransmission
OutOfRange(ack) == ack > SegsSent

\* Nothing the client could still be waiting for is under way.
BusQuiet == c2s = <<>> /\ s2c = <<>> /\ ~(srvPhase = "block" /\ srvSaw)

\* Frames an interrupted earlier session may have left for the client.
Leftovers == {Abort(TRUE, TRUE), Abort(FALSE, FALSE), SubAck(1, DefaultBlk)}

-----------------------------------------------------------------------------
Init ==
  /\ pc = "start" /\ offset = 0 /\ seqno = 1 /\ blksize = DefaultBlk
  /\ crc = FALSE /\ stall = 0 /\ sends = 0 /\ result = "pending"
  /\ c2s = <<>>
  /\ s2c \in {<<>>} \cup {<<m>> : m \in Leftovers}
  /\ srvPhase = "idle" /\ srvBlk = DefaultBlk /\ srvSeq = 0 /\ srvSaw = FALSE
  /\ world \in Worlds
  /\ srvInit \in world.blks /\ srvCrc \in BOOLEAN
  /\ stored = <<>> /\ losses = 0

-----------------------------------------------------------------------------
(* The client                                                              *)

\* Mutant: a missing end ack is taken for success.
FailUnlessEnding ==
  pc' = "returned" /\ result' = IF pc = "endWait" THEN "ok" ELSE "error"

Fail == pc' = "returned" /\ result' = "error"

\* initiate_retry: drain what has already arrived, send the request.
Initiate ==
  /\ pc = "start"
  /\ \E k \in 0..Len(s2c) : s2c' = SubSeq(s2c, k + 1, Len(s2c))
  /\ c2s' = Append(c2s, InitReq)
  /\ sends' = 1 /\ pc' = "initWait"
  /\ UNCHANGED <<offset, seqno, blksize, crc, stall, result, server, given, losses>>

\* initiate_retry: no answer within INITIATE_RESEND_INTERVAL, send it again.
ResendInitiate ==
  /\ pc = "initWait" /\ sends < MaxSends
  /\ world.timely => BusQuiet
  /\ c2s' = Append(c2s, InitReq)
  /\ sends' = sends + 1
  /\ UNCHANGED <<pc, offset, seqno, blksize, crc, stall, result, s2c, server, given, losses>>

\* The block initiate response: take the block size and the CRC flag from it.
RecvInitAck ==
  /\ pc = "initWait" /\ s2c # <<>> /\ Head(s2c).kind = "initAck"
  /\ s2c' = Tail(s2c)
  /\ blksize' = EffectiveBlk(Head(s2c).blk)
  /\ crc' = Head(s2c).crc
  /\ pc' = "sending"
  /\ UNCHANGED <<offset, seqno, stall, sends, result, c2s, server, given, losses>>

\* An abort for this object while initiating: a stale protocol timeout makes
\* the client send again while there is time, any other one is an error.
RecvInitAbort ==
  /\ pc = "initWait" /\ s2c # <<>> /\ Head(s2c).kind = "abort" /\ Head(s2c).own
  /\ s2c' = Tail(s2c)
  /\ IF Head(s2c).stale /\ sends < MaxSends
       THEN /\ c2s' = Append(c2s, InitReq) /\ sends' = sends + 1
            /\ UNCHANGED <<pc, result>>
       ELSE Fail /\ UNCHANGED <<c2s, sends>>
  /\ UNCHANGED <<offset, seqno, blksize, crc, stall, server, given, losses>>

\* The inner loop: one segment of the sub-block after the other.
SendSegment ==
  /\ pc = "sending"
  /\ c2s' = Append(c2s, SegReq(seqno, offset + seqno))
  /\ seqno' = seqno + 1
  /\ pc' = IF seqno = blksize \/ offset + seqno = NumSegs THEN "ackWait" ELSE "sending"
  /\ UNCHANGED <<offset, blksize, crc, stall, sends, result, s2c, server, given, losses>>

\* Mutant: responses that acknowledge nothing are not counted.
StallsNever(ack) == 0

\* Responses in a row that acknowledge nothing.
Stalls(ack) == IF ack = 0 THEN stall + 1 ELSE 0

\* The sub-block response: advance by what was acknowledged and go on from
\* there in a sub-block numbered from 1, or give up after MaxStall zero acks.
RecvSubAck ==
  /\ pc = "ackWait" /\ s2c # <<>> /\ Head(s2c).kind = "subAck"
  /\ s2c' = Tail(s2c)
  /\ LET ack == Head(s2c).ack IN
       IF OutOfRange(ack)
         THEN Fail /\ UNCHANGED <<offset, seqno, blksize, stall>>
         ELSE /\ offset' = AckedOffset(ack)
              /\ stall' = Stalls(ack)
              /\ IF stall' > MaxStall
                   THEN Fail /\ UNCHANGED <<seqno, blksize>>
                   ELSE /\ blksize' = EffectiveBlk(Head(s2c).blk)
                        /\ seqno' = 1
                        /\ pc' = IF offset' = NumSegs THEN "ending" ELSE "sending"
                        /\ UNCHANGED result
  /\ UNCHANGED <<crc, sends, c2s, server, given, losses>>

\* The end request, with the CRC of the whole payload if it was negotiated.
SendEnd ==
  /\ pc = "ending"
  /\ c2s' = Append(c2s, EndReq(crc))
  /\ pc' = "endWait"
  /\ UNCHANGED <<offset, seqno, blksize, crc, stall, sends, result, s2c, server, given, losses>>

IsEndAck(m) == m.kind = "endAck"

RecvEndAck ==
  /\ pc = "endWait" /\ s2c # <<>> /\ IsEndAck(Head(s2c))
  /\ s2c' = Tail(s2c)
  /\ pc' = "returned" /\ result' = "ok"
  /\ UNCHANGED <<offset, seqno, blksize, crc, stall, sends, c2s, server, given, losses>>

\* Sub-block and end acks carry no multiplexer, so any abort ends the transfer.
RecvAbort ==
  /\ pc \in {"ackWait", "endWait"} /\ s2c # <<>> /\ Head(s2c).kind = "abort"
  /\ s2c' = Tail(s2c)
  /\ Fail
  /\ UNCHANGED <<offset, seqno, blksize, crc, stall, sends, c2s, server, given, losses>>

\* recv_response_matching: a frame the awaited exchange rejects is skipped.
Expected ==
  CASE pc = "initWait" -> Head(s2c).kind = "initAck" \/ (Head(s2c).kind = "abort" /\ Head(s2c).own)
    [] pc = "ackWait" -> Head(s2c).kind \in {"subAck", "abort"}
    [] pc = "endWait" -> Head(s2c).kind \in {"endAck", "abort"}

SkipFrame ==
  /\ pc \in {"initWait", "ackWait", "endWait"} /\ s2c # <<>> /\ ~Expected
  /\ s2c' = Tail(s2c)
  /\ UNCHANGED <<client, c2s, server, given, losses>>

\* Mutant: the end ack is waited for without a timeout.
DeadlineNotAtEnd == (pc = "initWait" /\ (world.timely => sends = MaxSends)) \/ pc = "ackWait"

\* The timeout of the exchange, or of the whole budget of initiate_retry.
Deadline ==
  \/ pc = "initWait" /\ (world.timely => sends = MaxSends)
  \/ pc \in {"ackWait", "endWait"}

Timeout ==
  /\ Deadline
  /\ world.timely => BusQuiet
  /\ Fail
  /\ UNCHANGED <<offset, seqno, blksize, crc, stall, sends, c2s, s2c, server, given, losses>>

\* self.send(..)?: a frame that the adapter refuses ends the call, be it the
\* first initiate, one that is sent again (after a stale abort or without an
\* answer), a segment or the end request.
SendRefused ==
  /\ world.refuses
  /\ \/ pc = "start" /\ \E k \in 0..Len(s2c) : s2c' = SubSeq(s2c, k + 1, Len(s2c))
     \/ pc = "initWait" /\ sends < MaxSends /\ (world.timely => BusQuiet) /\ UNCHANGED s2c
     \/ /\ pc = "initWait" /\ sends < MaxSends
        /\ s2c # <<>> /\ Head(s2c) = Abort(TRUE, TRUE) /\ s2c' = Tail(s2c)
     \/ pc \in {"sending", "ending"} /\ UNCHANGED s2c
  /\ Fail
  /\ UNCHANGED <<offset, seqno, blksize, crc, stall, sends, c2s, server, given, losses>>

ClientNext ==
  \/ Initiate \/ ResendInitiate \/ RecvInitAck \/ RecvInitAbort
  \/ SendSegment \/ RecvSubAck \/ SendEnd \/ RecvEndAck
  \/ RecvAbort \/ SkipFrame \/ Timeout \/ SendRefused

-----------------------------------------------------------------------------
(* The server (external)                                                   *)

NewSubBlock(b) == srvBlk' = EffectiveBlk(b) /\ srvSeq' = 0 /\ srvSaw' = FALSE

\* An initiate starts the transfer afresh, also when it repeats another one.
SrvInitiate ==
  /\ c2s # <<>> /\ Head(c2s).kind = "init"
  /\ c2s' = Tail(c2s)
  /\ s2c' = Append(s2c, InitAck(srvInit, srvCrc))
  /\ srvPhase' = "block" /\ stored' = <<>> /\ NewSubBlock(srvInit)
  /\ UNCHANGED <<client, given, losses>>

\* A segment is accepted only in sequence; the last one of the sub-block, or
\* of the transfer, is answered with the last number accepted.
SrvSegment ==
  /\ c2s # <<>> /\ Head(c2s).kind = "seg" /\ srvPhase = "block"
  /\ c2s' = Tail(c2s)
  /\ LET m == Head(c2s)
         inOrder == m.seq = srvSeq + 1
         got == IF inOrder THEN m.seq ELSE srvSeq
     IN /\ stored' = IF inOrder THEN Append(stored, m.idx) ELSE stored
        /\ srvPhase' = IF inOrder /\ m.last THEN "full" ELSE "block"
        /\ IF m.seq = srvBlk \/ m.last
             THEN \E b \in world.blks : s2c' = Append(s2c, SubAck(got, b)) /\ NewSubBlock(b)
             ELSE srvSeq' = got /\ srvSaw' = TRUE /\ UNCHANGED <<s2c, srvBlk>>
  /\ UNCHANGED <<client, given, losses>>

\* The end of the sub-block does not arrive: the server answers with what it
\* has.  A patient one does so only when the client has stopped sending and
\* nothing is under way.
SrvSubBlockTimeout ==
  /\ srvPhase = "block" /\ srvSaw
  /\ world.patient => c2s = <<>> /\ pc = "ackWait"
  /\ \E b \in world.blks : s2c' = Append(s2c, SubAck(srvSeq, b)) /\ NewSubBlock(b)
  /\ UNCHANGED <<client, c2s, srvPhase, given, stored, losses>>

\* The end request commits a complete transfer whose CRC, if used, agrees.
SrvEnd ==
  /\ c2s # <<>> /\ Head(c2s).kind = "end"
  /\ c2s' = Tail(c2s)
  /\ IF srvPhase = "full" /\ (Head(c2s).crc => stored = Payload)
       THEN srvPhase' = "committed" /\ s2c' = Append(s2c, EndAck)
       ELSE srvPhase' = "idle" /\ s2c' = Append(s2c, Abort(TRUE, FALSE))
  /\ UNCHANGED <<client, srvBlk, srvSeq, srvSaw, stored, given, losses>>

\* A frame that does not belong to the state the server is in is ignored.
SrvIgnore ==
  /\ c2s # <<>> /\ Head(c2s).kind = "seg" /\ srvPhase # "block"
  /\ c2s' = Tail(c2s)
  /\ UNCHANGED <<client, s2c, server, given, losses>>

\* The server gives up on its own (flash error, internal timeout).
SrvAbort ==
  /\ world.aborts /\ srvPhase \in {"block", "full"}
  /\ \E stale \in BOOLEAN : s2c' = Append(s2c, Abort(TRUE, stale))
  /\ srvPhase' = "idle"
  /\ UNCHANGED <<client, c2s, srvBlk, srvSeq, srvSaw, stored, given, losses>>

ServerNext ==
  \/ SrvInitiate \/ SrvSegment \/ SrvSubBlockTimeout \/ SrvEnd \/ SrvIgnore \/ SrvAbort

-----------------------------------------------------------------------------
(* The bus.  Losing the head of a FIFO channel at any moment is losing any *)
(* frame of it.                                                            *)

Lose ==
  /\ losses < world.maxLoss
  /\ \/ /\ c2s # <<>> /\ Head(c2s).kind \in world.lossy
        /\ c2s' = Tail(c2s) /\ UNCHANGED s2c
     \/ /\ s2c # <<>> /\ Head(s2c).kind \in world.lossy
        /\ s2c' = Tail(s2c) /\ UNCHANGED c2s
  /\ losses' = IF world.endless THEN losses ELSE losses + 1
  /\ UNCHANGED <<client, server, given>>

Next == ClientNext \/ ServerNext \/ Lose

Spec == Init /\ [][Next]_vars

\* The client thread runs on and its timers expire; the server answers what it
\* receives.  Neither a loss nor an abort is ever forced.
FairSpec ==
  /\ Spec
  /\ WF_vars(ClientNext)
  /\ WF_vars(SrvInitiate \/ SrvSegment \/ SrvSubBlockTimeout \/ SrvEnd \/ SrvIgnore)

-----------------------------------------------------------------------------
(* Properties                                                              *)

ReqFrames ==
  {InitReq} \cup {EndReq(c) : c \in BOOLEAN}
    \cup [kind : {"seg"}, seq : 1..MaxBlk, idx : 1..NumSegs, last : BOOLEAN]
RspFrames ==
  {EndAck} \cup {Abort(o, s) : o \in BOOLEAN, s \in BOOLEAN}
    \cup [kind : {"initAck"}, blk : BlkSizes, crc : BOOLEAN]
    \cup [kind : {"subAck"}, ack : 0..MaxBlk, blk : BlkSizes \cup {DefaultBlk}]

TypeOK ==
  /\ pc \in {"start", "initWait", "sending", "ackWait", "ending", "endWait", "returned"}
  /\ offset \in 0..NumSegs
  /\ seqno \in 1..(MaxBlk + 1)
  /\ blksize \in 1..MaxBlk
  /\ crc \in BOOLEAN
  /\ stall \in 0..(MaxStall + 1)
  /\ sends \in 0..MaxSends
  /\ result \in {"pending", "ok", "error"}
  /\ c2s \in Seq(ReqFrames)
  /\ s2c \in Seq(RspFrames)
  /\ srvPhase \in {"idle", "block", "full", "committed"}
  /\ srvInit \in BlkSizes /\ srvCrc \in BOOLEAN
  /\ srvBlk \in 1..MaxBlk /\ srvSeq \in 0..MaxBlk /\ srvSaw \in BOOLEAN
  /\ stored \in Seq(1..NumSegs)
  /\ world \in Worlds /\ losses \in 0..world.maxLoss

\* With a CRC negotiated, Ok means that the server has committed the payload,
\* whatever the bus loses. This does not even need a patient server: an early
\* sub-block response can make the client send segments twice, but then the
\* CRC of the end request (calculate_crc16(data)) keeps the copy uncommitted.
CrcGuardsCommit == result = "ok" /\ crc => srvPhase = "committed" /\ stored = Payload

\* download_block always returns, whatever the bus and the server do, also if the first
\* segment of every sub-block is lost.
Terminates == <>(pc = "returned")

\* A sub-block is answered although one of its segments is lost, because
\* another one arrives: every sub-block has the same size n > 1, and so has
\* what remains for the last one.
NoLoneSegment ==
  \E n \in 2..MaxBlk : NumSegs % n # 1 /\ \A b \in world.blks : EffectiveBlk(b) = n

\* Then a lost segment is made up for by a later sub-block and the transfer
\* succeeds, as long as timers are longer than the bus takes and the adapter
\* takes the segments as fast as they are queued: nothing is tried again when it
\* refuses one (sdo_client.rs:648).
LossIsRepaired ==
  /\ world.timely /\ world.patient /\ ~world.aborts /\ ~world.refuses
  /\ world.lossy \subseteq {"seg"} /\ world.maxLoss <= 1 /\ ~world.endless /\ NoLoneSegment
  => <>(result = "ok")

\* The transfers whose outcome can be relied on.
Trusted == world.patient \/ srvCrc

\* What such a transfer promises to the state machine above it.
Contract == INSTANCE SdoTransfer WITH
  outcome <- IF Trusted THEN result ELSE "pending",
  node <- IF srvPhase # "committed" \/ ~Trusted THEN "before"
          ELSE IF stored = Payload THEN "whole" ELSE "corrupt"
ImplementsTransfer == Contract!Spec
=============================================================================
