----------------------------- MODULE SdoPending -----------------------------
(***************************************************************************)
(* One SDO transfer of the session thread (recv_loop of session.rs): the   *)
(* record it keeps for a node while the transfer is under way, and what it *)
(* makes of every response of that node.  Pure operators: SdoSession keeps *)
(* the table of these records and supplies the node and the bus.           *)
(*                                                                         *)
(* A response is routed here by its node alone.  Except where the code     *)
(* takes it from the frame, the object reported is the pending one.        *)
(***************************************************************************)
EXTENDS Integers, Sequences, SdoServer

CONSTANTS
  BlockSize,    \* block_size, segments per sub-block of an upload
  MaxBlk,       \* 127, the largest legal sequence number
  MaxBuffer,    \* MAX_BLOCK_TRANSFER_SIZE, in segments
  Threshold,    \* BLOCK_SIZE_THRESHOLD, in segments
  SdoTimeout, InitTimeout, SubTimeout, EndTimeout,  \* in ticks
  MaxAge        \* bound: ages are counted no further than this

ASSUME PendingConstantsOK ==
  /\ MaxBlk \in Nat \ {0} /\ BlockSize \in 1..MaxBlk
  /\ MaxBuffer \in Nat /\ Threshold \in Nat
  /\ MaxAge \in Nat /\ {SdoTimeout, InitTimeout, SubTimeout, EndTimeout} \subseteq 1..MaxAge

FallbackCodes == {"badCommand", "timeout"}   \* 0x05040001 and 0x05040000

\* PendingSdo with the fields of all its states.
Entry(n, o, dir, st) ==
  [node |-> n, obj |-> o, dir |-> dir, st |-> st,
   sent |-> 0,          \* segments already taken from the data to write
   tog |-> FALSE, crc |-> FALSE, exp |-> 1, buf |-> <<>>,
   started |-> 0, active |-> 0]

Remaining(p) == SegCount(p.obj) - p.sent
Least(S) == CHOOSE k \in S : \A j \in S : k <= j

\* The SdoLogEntry of a finished transfer: "code" is "ok" or the abort code.
Entered(n, o, dir, code, dat) ==
  [kind |-> "sdo", node |-> n, obj |-> o, dir |-> dir, code |-> code, val |-> dat]
Read(n, o, dat) == Entered(n, o, "read", "ok", dat)
Written(n, o) == Entered(n, o, "write", "ok", <<>>)
Aborted(n, o, dir, code) == Entered(n, o, dir, code, <<>>)

\* What handling a frame comes to: the record that remains, if any, the frames
\* sent, the event emitted, and whether the timeout scan follows ("continue"
\* skips it).
Outcome(next, out, ev, scan) == [next |-> next, out |-> out, ev |-> ev, scan |-> scan]
Keep(p) == Outcome(<<p>>, <<>>, <<>>, TRUE)
GoOn(p, out) == Outcome(<<p>>, out, <<>>, TRUE)
Done(ev) == Outcome(<<>>, <<>>, <<ev>>, TRUE)
SendFailed(p) == Outcome(<<>>, <<>>, <<Aborted(p.node, p.obj, p.dir, "general")>>, FALSE)

-----------------------------------------------------------------------------
(* Starting a transfer                                                     *)

\* SdoTransferMode: is this command served by a block transfer?
UseBlock(c, noBlock) ==
  \/ c.mode = "ForcedBlock"
  \/ c.mode = "Auto" /\ c.node \notin noBlock /\ (c.dir = "write" => Segs[c.obj] > Threshold)

\* The first request and the record of a command; data of up to four bytes is
\* always written in one frame.
Start(c, noBlock) ==
  LET o == c.obj
      block == UseBlock(c, noBlock)
  IN CASE c.dir = "read" /\ block -> [out |-> BlockUpload(o, BlockSize), p |-> Entry(c.node, o, "read", "buInit")]
       [] c.dir = "read" /\ ~block -> [out |-> Upload(o), p |-> Entry(c.node, o, "read", "wait")]
       [] c.dir = "write" /\ Segs[o] = 0 -> [out |-> Expedited(o), p |-> Entry(c.node, o, "write", "wait")]
       [] c.dir = "write" /\ Segs[o] > 0 /\ block -> [out |-> BlockDownload(o), p |-> Entry(c.node, o, "write", "bdInit")]
       [] c.dir = "write" /\ Segs[o] > 0 /\ ~block -> [out |-> Download(o), p |-> Entry(c.node, o, "write", "dlSeg")]

-----------------------------------------------------------------------------
(* Responses.  "ok" is whether the adapter accepts the frames to send.     *)

Initiating(p) == p.st \in {"bdInit", "buInit"}

\* mutant: only 0x05040001 counts as "no block transfers here"
FallsBackOnBadCommand(p, m) == m.code = "badCommand" /\ Initiating(p)

\* A node without block transfers: the same transfer again, segmented.
FallsBack(p, m) == m.code \in FallbackCodes /\ Initiating(p)
Fallback(p) ==
  IF p.st = "bdInit" THEN [out |-> Download(p.obj), p |-> Entry(p.node, p.obj, p.dir, "dlSeg")]
                     ELSE [out |-> Upload(p.obj), p |-> Entry(p.node, p.obj, p.dir, "wait")]

\* mutant: the record is taken out and not put back for the fallback
OnAbortForgets(p, m, ok) ==
  IF FallsBack(p, m) /\ ok THEN Outcome(<<>>, <<Fallback(p).out>>, <<>>, FALSE)
                           ELSE Done(Aborted(p.node, p.obj, p.dir, m.code))

OnAbort(p, m, ok) ==
  IF FallsBack(p, m) /\ ok
    THEN Outcome(<<Fallback(p).p>>, <<Fallback(p).out>>, <<>>, FALSE)
    ELSE Done(Aborted(p.node, p.obj, p.dir, m.code))

OnWaiting(p, m) ==
  CASE m.cs = "ulX" -> Done(Read(p.node, m.obj, m.dat))
    [] m.cs = "dlAck" -> Done(Written(p.node, p.obj))
    [] m.cs = "ulInit" -> GoOn([p EXCEPT !.st = "ulSeg", !.tog = FALSE, !.buf = <<>>], <<UploadSeg(FALSE)>>)
    [] OTHER -> Keep(p)

\* mutant: the bytes of the last segment are not appended
OnUploadSegmentedShort(p, m) ==
  IF m.cs # "ulSeg" THEN Keep(p)
  ELSE IF m.last THEN Done(Read(p.node, p.obj, p.buf))
  ELSE GoOn([p EXCEPT !.tog = ~@, !.buf = @ \o m.dat], <<UploadSeg(~p.tog)>>)

OnUploadSegmented(p, m) ==
  IF m.cs # "ulSeg" THEN Keep(p)
  ELSE IF m.last THEN Done(Read(p.node, p.obj, p.buf \o m.dat))
  ELSE GoOn([p EXCEPT !.tog = ~@, !.buf = @ \o m.dat], <<UploadSeg(~p.tog)>>)

\* Any initiate ack, and the ack of the segment before, send the next segment,
\* an empty one when there is none; "tog" stays at that of the last segment.
OnDownloadSegmented(p, m) ==
  IF m.cs = "dlAck" \/ (m.cs = "segAck" /\ m.t = ~p.tog)
    THEN LET chunk == IF Remaining(p) > 0 THEN <<<<p.obj, p.sent + 1>>>> ELSE <<>>
             sent == p.sent + Len(chunk)
             last == sent = SegCount(p.obj)
         IN GoOn([p EXCEPT !.sent = sent, !.tog = IF last THEN @ ELSE ~@],
                 <<DownloadSeg(p.tog, chunk, last)>>)
  ELSE IF Remaining(p) = 0 /\ m.cs = "segAck" /\ m.t = p.tog THEN Done(Written(p.node, p.obj))
  ELSE Keep(p)

\* One segment, then the sub-block response is awaited.
OnBlockDownloadInitiating(p, m, ok) ==
  IF m.cs # "bdInit" THEN Keep(p)
  ELSE IF ~ok THEN SendFailed(p)
  ELSE GoOn([p EXCEPT !.st = "bdProg", !.crc = m.crc, !.sent = 1, !.active = 0],
            <<BlockSeg(1, <<p.obj, 1>>)>>)

\* mutant: the ack of the last sub-block is taken for the end
OnBlockDownloadInProgressEager(p, m) ==
  IF m.cs # "bdAck" THEN Keep(p)
  ELSE IF Remaining(p) = 0 THEN Done(Written(p.node, p.obj))
  ELSE LET burst == Least({Remaining(p), m.blk, MaxBlk}) IN
    GoOn([p EXCEPT !.sent = @ + burst, !.active = 0],
         [i \in 1..burst |-> BlockSeg(i, <<p.obj, p.sent + i>>)])

\* The response counts as an ack of everything sent, whatever its number.
OnBlockDownloadInProgress(p, m) ==
  IF m.cs # "bdAck" THEN Keep(p)
  ELSE IF Remaining(p) = 0
    THEN GoOn([p EXCEPT !.st = "bdEnd", !.active = 0], <<BlockEnd(p.crc)>>)
  ELSE LET burst == Least({Remaining(p), m.blk, MaxBlk}) IN
    GoOn([p EXCEPT !.sent = @ + burst, !.active = 0],
         [i \in 1..burst |-> BlockSeg(i, <<p.obj, p.sent + i>>)])

OnBlockDownloadEnding(p, m) ==
  IF m.cs = "bdEnd" THEN Done(Written(p.node, p.obj)) ELSE Keep(p)

OnBlockUploadInitiating(p, m) ==
  IF m.cs # "buInit" THEN Keep(p)
  ELSE GoOn([p EXCEPT !.st = "buProg", !.crc = m.crc, !.exp = 1, !.buf = <<>>, !.active = 0],
            <<BlockStart>>)

OnBlockUploadInProgress(p, m, ok) ==
  IF m.cs # "buSeg" \/ m.seq # p.exp THEN Done(Aborted(p.node, p.obj, "read", "sequence"))
  ELSE IF Len(p.buf) + 1 > MaxBuffer
    THEN [Done(Aborted(p.node, p.obj, "read", "memory")) EXCEPT !.scan = FALSE]
  ELSE LET buf == p.buf \o m.dat
           q == [p EXCEPT !.buf = buf, !.active = 0]
       IN IF ~m.last /\ p.exp < BlockSize
            THEN GoOn([q EXCEPT !.exp = IF @ = MaxBlk THEN 1 ELSE @ + 1], <<>>)
          ELSE IF ~ok THEN SendFailed(p)
          ELSE GoOn([q EXCEPT !.st = IF m.last THEN "buEnd" ELSE @, !.exp = 1], <<BlockAck(m.seq)>>)

\* calculate_crc16 over the buffer, with the padding of its last segment.
BufferSum(buf) == <<buf, \E i \in DOMAIN buf : IsPadded(buf[i])>>

\* mutant: the unused bytes of the last segment cut off twice
OnBlockUploadEndingShort(p, m) ==
  IF m.cs # "buEnd" THEN Keep(p)
  ELSE IF p.crc /\ m.sum # BufferSum(p.buf) THEN Done(Aborted(p.node, p.obj, "read", "crc"))
  ELSE [Done(Read(p.node, p.obj, SubSeq(p.buf, 1, Len(p.buf) - 1))) EXCEPT !.out = <<BlockEndAck>>]

OnBlockUploadEnding(p, m) ==
  IF m.cs # "buEnd" THEN Keep(p)
  ELSE IF p.crc /\ m.sum # BufferSum(p.buf) THEN Done(Aborted(p.node, p.obj, "read", "crc"))
  ELSE [Done(Read(p.node, p.obj, p.buf)) EXCEPT !.out = <<BlockEndAck>>]

OnResponse(p, m, ok) ==
  IF m.cs = "abort" THEN OnAbort(p, m, ok)
  ELSE CASE p.st = "wait" -> OnWaiting(p, m)
         [] p.st = "ulSeg" -> OnUploadSegmented(p, m)
         [] p.st = "dlSeg" -> OnDownloadSegmented(p, m)
         [] p.st = "bdInit" -> OnBlockDownloadInitiating(p, m, ok)
         [] p.st = "bdProg" -> OnBlockDownloadInProgress(p, m)
         [] p.st = "bdEnd" -> OnBlockDownloadEnding(p, m)
         [] p.st = "buInit" -> OnBlockUploadInitiating(p, m)
         [] p.st = "buProg" -> OnBlockUploadInProgress(p, m, ok)
         [] p.st = "buEnd" -> OnBlockUploadEnding(p, m)

\* decode_sdo: what a response says on its own, without a pending transfer.
Passive(n, m) ==
  CASE m.cs = "ulX" -> <<Read(n, m.obj, m.dat)>>
    [] m.cs = "dlAck" -> <<Written(n, m.obj)>>
    [] m.cs = "abort" -> <<Aborted(n, m.obj, "read", m.code)>>
    [] OTHER -> <<>>

-----------------------------------------------------------------------------
(* Timeouts                                                                *)

StageTimeout(p) ==
  CASE Initiating(p) -> InitTimeout
    [] p.st \in {"bdProg", "buProg"} -> SubTimeout
    [] p.st \in {"bdEnd", "buEnd"} -> EndTimeout
    [] OTHER -> SdoTimeout

InProgress(p) == p.st \in {"bdProg", "buProg"}

\* Only a sub-block is timed from the last activity, all else from the start.
Due(p) == (IF InProgress(p) THEN p.active ELSE p.started) >= StageTimeout(p)

Older(n) == IF n < MaxAge THEN n + 1 ELSE n
Aged(p) == [p EXCEPT !.started = Older(@), !.active = Older(@)]
=============================================================================
