------------------------ MODULE SdoSegmentedDownload ------------------------
(***************************************************************************)
(* The two segmented downloads of the bbd firmware tool: download_segmented *)
(* sends a segment and waits for its toggled ack, download_segmented_no_wait *)
(* streams all segments at the pace of the adapter's transmit queue, reads  *)
(* one frame at the end and leaves the verdict to the flash-status poll.    *)
(*                                                                         *)
(* As in SdoBlockDownload the payload is 1..NumSegs, the channels are FIFO  *)
(* and lossy, and the server (the bootloader) is external.                  *)
(***************************************************************************)
EXTENDS Integers, Sequences

CONSTANTS
  NumSegs,      \* number of segments of the payload
  TxCap,        \* capacity of the adapter's transmit queue
  MaxSends,     \* bound: initiate requests one timeout budget has room for
  Worlds        \* the calls and surroundings that are possible, see World

ClientKinds == {"init", "seg"}
ServerKinds == {"initAck", "segAck", "abort"}

\* A call, a bus and a server:
\*   noWait   FALSE: download_segmented, TRUE: download_segmented_no_wait
\*   lossy    the kinds of frame the bus or the adapter may lose
\*   maxLoss  bound: frames lost in one transfer
\*   timely   no timer expires while an answer is still coming
\*   aborts   the server may abort the transfer
World ==
  [noWait : BOOLEAN, lossy : SUBSET (ClientKinds \cup ServerKinds), maxLoss : Nat,
   timely : BOOLEAN, aborts : BOOLEAN]

ASSUME ConstantsOK ==
  /\ NumSegs \in Nat \ {0}
  /\ TxCap \in Nat \ {0}
  /\ MaxSends \in Nat \ {0}
  /\ Worlds \subseteq World

VARIABLES
  pc,         \* where the download stands
  offset,     \* segments sent (and, when waiting, acknowledged)
  toggle,     \* toggle bit of the next segment
  sends,      \* initiate requests sent so far
  result,     \* what the download returned: "pending", "ok" or "error"
  txq,        \* requests in the adapter's transmit queue
  c2s,        \* requests on the bus
  s2c,        \* responses in flight or buffered in the adapter
  srvPhase,   \* server: "idle", "receiving" or "committed"
  srvToggle,  \* server: toggle bit it expects
  srvSized,   \* server: does it check the announced size?
  stored,     \* server: the segments it accepted, in that order
  losses,     \* frames lost so far
  world       \* the call and its surroundings

client == <<pc, offset, toggle, sends, result>>
server == <<srvPhase, srvToggle, stored>>
given == <<srvSized, world>>
vars == <<client, txq, c2s, s2c, server, given, losses>>

-----------------------------------------------------------------------------
(* Frames                                                                  *)

InitReq == [kind |-> "init"]
SegReq(i, t) == [kind |-> "seg", idx |-> i, toggle |-> t, last |-> i = NumSegs]
InitAck == [kind |-> "initAck"]
SegAck(t) == [kind |-> "segAck", toggle |-> t]
\* "own": names the object being written; "stale": the protocol-timed-out code
Abort(own, stale) == [kind |-> "abort", own |-> own, stale |-> stale]

Payload == [i \in 1..NumSegs |-> i]
BusQuiet == txq = <<>> /\ c2s = <<>> /\ s2c = <<>>

\* Frames an interrupted earlier session may have left for the client.
Leftovers == {Abort(TRUE, TRUE), Abort(FALSE, FALSE), SegAck(FALSE)}

-----------------------------------------------------------------------------
Init ==
  /\ pc = "start" /\ offset = 0 /\ toggle = FALSE /\ sends = 0
  /\ result = "pending"
  /\ txq = <<>> /\ c2s = <<>>
  /\ s2c \in {<<>>} \cup {<<m>> : m \in Leftovers}
  /\ srvPhase = "idle" /\ srvToggle = FALSE /\ srvSized \in BOOLEAN
  /\ stored = <<>> /\ losses = 0 /\ world \in Worlds

-----------------------------------------------------------------------------
(* The client                                                              *)

Return(r) == pc' = "returned" /\ result' = r

TxFull == Len(txq) >= TxCap

\* Mutant: a frame the queue has no room for is dropped.
SendOrDrop(m) == txq' = IF TxFull THEN txq ELSE Append(txq, m)

\* send: hand one frame to the adapter; a full queue is an error to everyone
\* but send_backpressured.
Send(m) == ~TxFull /\ txq' = Append(txq, m)

\* initiate_retry: drain what has already arrived, send the request.
Initiate ==
  /\ pc = "start"
  /\ \E k \in 0..Len(s2c) : s2c' = SubSeq(s2c, k + 1, Len(s2c))
  /\ Send(InitReq)
  /\ sends' = 1 /\ pc' = "initWait"
  /\ UNCHANGED <<offset, toggle, result, c2s, server, given, losses>>

\* initiate_retry: no answer within INITIATE_RESEND_INTERVAL, send it again.
ResendInitiate ==
  /\ pc = "initWait" /\ sends < MaxSends
  /\ world.timely => BusQuiet
  /\ Send(InitReq)
  /\ sends' = sends + 1
  /\ UNCHANGED <<pc, offset, toggle, result, c2s, s2c, server, given, losses>>

\* The initiate ack (0x60 with the multiplexer of this object).
RecvInitAck ==
  /\ pc = "initWait" /\ s2c # <<>> /\ Head(s2c) = InitAck
  /\ s2c' = Tail(s2c)
  /\ pc' = "sending"
  /\ UNCHANGED <<offset, toggle, sends, result, txq, c2s, server, given, losses>>

\* An abort for this object while initiating: a stale protocol timeout makes
\* the client send again while there is time, any other one is an error.
RecvInitAbort ==
  /\ pc = "initWait" /\ s2c # <<>> /\ Head(s2c).kind = "abort" /\ Head(s2c).own
  /\ s2c' = Tail(s2c)
  /\ IF Head(s2c).stale /\ sends < MaxSends /\ ~TxFull
       THEN Send(InitReq) /\ sends' = sends + 1 /\ UNCHANGED <<pc, result>>
       ELSE Return("error") /\ UNCHANGED <<txq, sends>>
  /\ UNCHANGED <<offset, toggle, c2s, server, given, losses>>

\* Mutant: the loop runs once too few.
FinishedEarly(off) == off + 1 >= NumSegs

\* while offset < data.len()
Finished(off) == off = NumSegs

\* The next segment: wait for its ack, or, streaming, go straight on to the
\* one after it.
SendSegment ==
  /\ pc = "sending"
  /\ Send(SegReq(offset + 1, toggle))
  /\ IF world.noWait
       THEN /\ offset' = offset + 1 /\ toggle' = ~toggle
            /\ pc' = IF Finished(offset') THEN "finalWait" ELSE "sending"
       ELSE pc' = "ackWait" /\ UNCHANGED <<offset, toggle>>
  /\ UNCHANGED <<sends, result, c2s, s2c, server, given, losses>>

\* The adapter's queue is full: send fails at once, send_backpressured when
\* the queue has not drained within the timeout.
SendFails ==
  /\ pc = "sending" /\ TxFull
  /\ world.noWait => ~world.timely
  /\ Return("error")
  /\ UNCHANGED <<offset, toggle, sends, txq, c2s, s2c, server, given, losses>>

\* The ack with the expected toggle bit (is_download_segment_ack).
RecvSegAck ==
  /\ pc = "ackWait" /\ s2c # <<>> /\ Head(s2c) = SegAck(toggle)
  /\ s2c' = Tail(s2c)
  /\ offset' = offset + 1 /\ toggle' = ~toggle
  /\ IF Finished(offset') THEN Return("ok") ELSE pc' = "sending" /\ UNCHANGED result
  /\ UNCHANGED <<sends, txq, c2s, server, given, losses>>

\* A segment ack carries no multiplexer, so any abort ends the transfer.
RecvAbort ==
  /\ pc = "ackWait" /\ s2c # <<>> /\ Head(s2c).kind = "abort"
  /\ s2c' = Tail(s2c)
  /\ Return("error")
  /\ UNCHANGED <<offset, toggle, sends, txq, c2s, server, given, losses>>

\* Streaming: the first frame there is decides; only an abort is an error.
RecvFinal ==
  /\ pc = "finalWait" /\ s2c # <<>>
  /\ s2c' = Tail(s2c)
  /\ Return(IF Head(s2c).kind = "abort" THEN "error" ELSE "ok")
  /\ UNCHANGED <<offset, toggle, sends, txq, c2s, server, given, losses>>

\* recv_response_matching: a frame the awaited exchange rejects is skipped.
Expected ==
  CASE pc = "initWait" -> Head(s2c) = InitAck \/ (Head(s2c).kind = "abort" /\ Head(s2c).own)
    [] pc = "ackWait" -> Head(s2c) = SegAck(toggle) \/ Head(s2c).kind = "abort"

SkipFrame ==
  /\ pc \in {"initWait", "ackWait"} /\ s2c # <<>> /\ ~Expected
  /\ s2c' = Tail(s2c)
  /\ UNCHANGED <<client, txq, c2s, server, given, losses>>

\* Mutant: a segment is waited for without a timeout.
DeadlineOfInitiate == pc = "initWait" /\ (world.timely => sends = MaxSends)

Deadline == DeadlineOfInitiate \/ pc \in {"ackWait", "finalWait"}

\* Silence is an error, except at the end of the streaming download.
SilenceIsOk == pc = "finalWait"

\* Mutant: a missing segment ack is tolerated.
TimeoutGoesOn ==
  /\ pc = "ackWait" /\ (world.timely => BusQuiet)
  /\ offset' = offset + 1 /\ toggle' = ~toggle
  /\ IF offset' = NumSegs THEN Return("ok") ELSE pc' = "sending" /\ UNCHANGED result
  /\ UNCHANGED <<sends, txq, c2s, s2c, server, given, losses>>

\* The timeout of the exchange, or the 300 ms at the end.
Timeout ==
  /\ Deadline
  /\ world.timely => BusQuiet
  /\ Return(IF SilenceIsOk THEN "ok" ELSE "error")
  /\ UNCHANGED <<offset, toggle, sends, txq, c2s, s2c, server, given, losses>>

ClientNext ==
  \/ Initiate \/ ResendInitiate \/ RecvInitAck \/ RecvInitAbort
  \/ SendSegment \/ SendFails \/ RecvSegAck \/ RecvAbort \/ RecvFinal
  \/ SkipFrame \/ Timeout

-----------------------------------------------------------------------------
(* The adapter puts the oldest queued request on the bus.                  *)

Transmit ==
  /\ txq # <<>>
  /\ txq' = Tail(txq) /\ c2s' = Append(c2s, Head(txq))
  /\ UNCHANGED <<client, s2c, server, given, losses>>

-----------------------------------------------------------------------------
(* The server (external)                                                   *)

\* An initiate starts the transfer afresh, also when it repeats another one.
SrvInitiate ==
  /\ c2s # <<>> /\ Head(c2s) = InitReq
  /\ c2s' = Tail(c2s) /\ s2c' = Append(s2c, InitAck)
  /\ srvPhase' = "receiving" /\ srvToggle' = FALSE /\ stored' = <<>>
  /\ UNCHANGED <<client, txq, given, losses>>

\* The server refuses the transfer it is in.
AbortTransfer ==
  /\ s2c' = Append(s2c, Abort(TRUE, FALSE))
  /\ srvPhase' = "idle"

\* A segment with the expected toggle is stored and acknowledged; the last one
\* commits the object unless a server that checks the size finds it short.
SrvSegment ==
  /\ c2s # <<>> /\ Head(c2s).kind = "seg" /\ srvPhase = "receiving"
  /\ c2s' = Tail(c2s)
  /\ LET m == Head(c2s)
         all == Append(stored, m.idx)
     IN IF m.toggle # srvToggle \/ (m.last /\ srvSized /\ Len(all) # NumSegs)
          THEN AbortTransfer /\ UNCHANGED <<srvToggle, stored>>
          ELSE /\ s2c' = Append(s2c, SegAck(m.toggle))
               /\ stored' = all /\ srvToggle' = ~srvToggle
               /\ srvPhase' = IF m.last THEN "committed" ELSE "receiving"
  /\ UNCHANGED <<client, txq, given, losses>>

\* A segment outside a transfer is ignored.
SrvIgnore ==
  /\ c2s # <<>> /\ Head(c2s).kind = "seg" /\ srvPhase # "receiving"
  /\ c2s' = Tail(c2s)
  /\ UNCHANGED <<client, txq, s2c, server, given, losses>>

\* The server gives up on its own (flash error, internal timeout).
SrvAbort ==
  /\ world.aborts /\ srvPhase = "receiving"
  /\ AbortTransfer
  /\ UNCHANGED <<client, txq, c2s, srvToggle, given, stored, losses>>

Lose ==
  /\ losses < world.maxLoss
  /\ \/ c2s # <<>> /\ Head(c2s).kind \in world.lossy /\ c2s' = Tail(c2s) /\ UNCHANGED s2c
     \/ s2c # <<>> /\ Head(s2c).kind \in world.lossy /\ s2c' = Tail(s2c) /\ UNCHANGED c2s
  /\ losses' = losses + 1
  /\ UNCHANGED <<client, txq, server, given>>

ServerNext == SrvInitiate \/ SrvSegment \/ SrvIgnore \/ SrvAbort

Next == ClientNext \/ Transmit \/ ServerNext \/ Lose

Spec == Init /\ [][Next]_vars

\* The client thread runs on and its timers expire, the adapter transmits, the
\* server answers.  Neither a loss nor an abort is ever forced.
FairSpec ==
  /\ Spec
  /\ WF_vars(ClientNext)
  /\ WF_vars(Transmit)
  /\ WF_vars(SrvInitiate \/ SrvSegment \/ SrvIgnore)

-----------------------------------------------------------------------------
(* Properties                                                              *)

ReqFrames ==
  {InitReq} \cup [kind : {"seg"}, idx : 1..NumSegs, toggle : BOOLEAN, last : BOOLEAN]
RspFrames ==
  {InitAck} \cup {SegAck(t) : t \in BOOLEAN}
    \cup {Abort(o, s) : o \in BOOLEAN, s \in BOOLEAN}

TypeOK ==
  /\ pc \in {"start", "initWait", "sending", "ackWait", "finalWait", "returned"}
  /\ offset \in 0..NumSegs
  /\ toggle \in BOOLEAN
  /\ sends \in 0..MaxSends
  /\ result \in {"pending", "ok", "error"}
  /\ txq \in Seq(ReqFrames) /\ c2s \in Seq(ReqFrames) /\ s2c \in Seq(RspFrames)
  /\ srvPhase \in {"idle", "receiving", "committed"}
  /\ srvToggle \in BOOLEAN /\ srvSized \in BOOLEAN
  /\ stored \in Seq(1..NumSegs)
  /\ world \in Worlds /\ losses \in 0..world.maxLoss

\* The losses the download at hand is made for: any when acks are awaited, only
\* those of responses when streaming, where the bus itself is reliable.
Bearable == world.noWait => world.lossy \subseteq ServerKinds

\* The one-bit toggle is enough against lost and repeated frames, and
\* back-pressure keeps a stream together: what the server has accepted is a
\* prefix of the payload.
StoredIsPrefix ==
  Bearable =>
    /\ Len(stored) <= NumSegs
    /\ \A i \in 1..Len(stored) : stored[i] = i

\* The download returns, whatever the bus and the server do.
Terminates == <>(pc = "returned")

\* What download_segmented_no_wait is for: as long as it is only responses
\* that go missing, its Ok is followed by the server taking the whole payload.
OkLeadsToCommit ==
  Bearable /\ ~world.aborts /\ result = "ok" ~> srvPhase = "committed" /\ stored = Payload

\* A download ends, and what it reports comes true.
EndsAsReported == Terminates /\ OkLeadsToCommit

\* The comment at the end of download_segmented_no_wait: "an explicit abort is
\* a real failure and must not be swallowed".  So Ok is not returned while an
\* abort of this transfer is already there to be read.  Does not hold: one response is
\* read, and the abort may be behind others.
AbortNotSwallowed ==
  [][result' = "ok" /\ result = "pending"
       => \A i \in 1..Len(s2c') : s2c'[i].kind # "abort"]_vars

\* What the acknowledged transfer promises to the state machine above it.
Contract == INSTANCE SdoTransfer WITH
  outcome <- IF world.noWait THEN "pending" ELSE result,
  node <- IF srvPhase # "committed" \/ world.noWait THEN "before"
          ELSE IF stored = Payload THEN "whole" ELSE "corrupt"
ImplementsTransfer == Contract!Spec
=============================================================================
