------------------------------ MODULE SdoServer ------------------------------
(***************************************************************************)
(* A CANopen node's SDO server as the monitor's session thread meets it:   *)
(* external to the repository, modelled from the requests session.rs sends *)
(* and the responses canopen/sdo.rs decodes.                               *)
(*                                                                         *)
(* An object is a sequence of segments; segment i of object o is <<o, i>>. *)
(* Serve gives the set of reactions to a request, each a new state of the  *)
(* server and the responses it sends.                                      *)
(***************************************************************************)
EXTENDS Integers, Sequences

CONSTANTS
  Objects,      \* the objects of a node
  Segs,         \* their segments; 0 for one that fits an expedited transfer
  Partial,      \* the objects whose last segment is not full
  Missing,      \* the objects a node refuses to serve
  SrvBlk,       \* the block size a server asks for
  SrvCrc        \* TRUE: servers support the CRC of block transfers

\* The kinds of server: one without block transfers, one that keeps to the
\* letter of CiA 301, and a lenient one that answers a sub-block that stalls
\* and takes a download for complete when it has the announced size.
ServerKinds == {"segmented", "strict", "lenient"}

ASSUME ServerConstantsOK ==
  /\ Objects # {} /\ Segs \in [Objects -> Nat]
  /\ Partial \subseteq Objects /\ Missing \subseteq Objects
  /\ SrvBlk \in Nat
  /\ SrvCrc \in BOOLEAN

SegCount(o) == IF Segs[o] = 0 THEN 1 ELSE Segs[o]
Whole(o) == [i \in 1..SegCount(o) |-> <<o, i>>]
IsPadded(s) == s[2] = SegCount(s[1]) /\ (s[1] \in Partial \/ Segs[s[1]] = 0)

(* Requests                                                                *)
Upload(o) == [op |-> "ul", obj |-> o]
UploadSeg(t) == [op |-> "ulSeg", t |-> t]
Expedited(o) == [op |-> "dlX", obj |-> o]
Download(o) == [op |-> "dl", obj |-> o]
DownloadSeg(t, d, last) == [op |-> "dlSeg", t |-> t, dat |-> d, last |-> last]
BlockDownload(o) == [op |-> "bd", obj |-> o]
BlockSeg(i, s) == [op |-> "bdSeg", seq |-> i, dat |-> s]
BlockEnd(c) == [op |-> "bdEnd", crc |-> c]
BlockUpload(o, b) == [op |-> "bu", obj |-> o, blk |-> b]
BlockStart == [op |-> "buStart"]
BlockAck(i) == [op |-> "buAck", seq |-> i]
BlockEndAck == [op |-> "buEndAck"]

(* Responses                                                               *)
AbortRsp(o, c) == [cs |-> "abort", obj |-> o, code |-> c]
ExpeditedRsp(o) == [cs |-> "ulX", obj |-> o, dat |-> Whole(o)]
UploadRsp(o) == [cs |-> "ulInit", obj |-> o]
UploadSegRsp(s, last) == [cs |-> "ulSeg", dat |-> <<s>>, last |-> last]
DownloadRsp(o) == [cs |-> "dlAck", obj |-> o]
DownloadSegRsp(t) == [cs |-> "segAck", t |-> t]
BlockDownloadRsp == [cs |-> "bdInit", blk |-> SrvBlk, crc |-> SrvCrc]
SubBlockRsp(i) == [cs |-> "bdAck", ack |-> i, blk |-> SrvBlk]
BlockEndRsp == [cs |-> "bdEnd"]
BlockUploadRsp == [cs |-> "buInit", crc |-> SrvCrc]
BlockSegRsp(i, s, last) == [cs |-> "buSeg", seq |-> i, dat |-> <<s>>, last |-> last]
BlockUploadEnd(o) == [cs |-> "buEnd", sum |-> <<Whole(o), FALSE>>]

IdleServer(done) ==
  [ph |-> "idle", obj |-> CHOOSE o \in Objects : TRUE, got |-> <<>>, n |-> 0,
   t |-> FALSE, blk |-> 1, done |-> done]
Begin(s, ph, o) == [IdleServer(s.done) EXCEPT !.ph = ph, !.obj = o]

Reaction(s, out) == [srv |-> s, out |-> out]
Ends(s, out) == {Reaction(IdleServer(s.done), out)}
Commits(s, o, out) == {Reaction(IdleServer(s.done \cup {o}), out)}
Refuses(s) == Ends(s, <<AbortRsp(s.obj, "badCommand")>>)

\* The next sub-block of a block upload, from segment n + 1 on.
SubBlock(s) ==
  LET rest == SegCount(s.obj) - s.n IN
  [i \in 1..(IF rest < s.blk THEN rest ELSE s.blk) |->
     BlockSegRsp(i, <<s.obj, s.n + i>>, s.n + i = SegCount(s.obj))]

\* An initiate, whatever transfer it cuts short.
ServeInitiate(s, q, kind) ==
  IF q.obj \in Missing THEN Ends(s, <<AbortRsp(q.obj, "refused")>>)
  ELSE CASE q.op = "ul" /\ Segs[q.obj] = 0 -> Ends(s, <<ExpeditedRsp(q.obj)>>)
         [] q.op = "ul" /\ Segs[q.obj] # 0 -> {Reaction(Begin(s, "ul", q.obj), <<UploadRsp(q.obj)>>)}
         [] q.op = "dlX" -> Commits(s, q.obj, <<DownloadRsp(q.obj)>>)
         [] q.op = "dl" -> {Reaction(Begin(s, "dl", q.obj), <<DownloadRsp(q.obj)>>)}
         [] q.op \in {"bd", "bu"} /\ kind = "segmented" ->
              UNION {Ends(s, <<AbortRsp(q.obj, c)>>) : c \in {"badCommand", "timeout"}}
         [] q.op = "bd" /\ kind # "segmented" -> {Reaction(Begin(s, "bd", q.obj), <<BlockDownloadRsp>>)}
         [] q.op = "bu" /\ kind # "segmented" ->
              {Reaction([Begin(s, "bu", q.obj) EXCEPT !.blk = q.blk], <<BlockUploadRsp>>)}

ServeUploadSeg(s, q) ==
  IF s.ph # "ul" \/ q.t # s.t THEN Refuses(s)
  ELSE LET last == s.n + 1 = SegCount(s.obj)
           out == <<UploadSegRsp(<<s.obj, s.n + 1>>, last)>>
       IN IF last THEN Ends(s, out)
          ELSE {Reaction([s EXCEPT !.n = @ + 1, !.t = ~@], out)}

ServeDownloadSeg(s, q) ==
  IF s.ph # "dl" \/ q.t # s.t THEN Refuses(s)
  ELSE LET got == s.got \o q.dat IN
       IF ~q.last THEN {Reaction([s EXCEPT !.got = got, !.t = ~@], <<DownloadSegRsp(q.t)>>)}
       ELSE IF got = Whole(s.obj) THEN Commits(s, s.obj, <<DownloadSegRsp(q.t)>>)
       ELSE Refuses(s)

\* A block segment; the session never sets the flag of the last one, so only
\* the number ends a sub-block.
ServeBlockSeg(s, q) ==
  IF s.ph # "bd" THEN Refuses(s)
  ELSE LET inOrder == q.seq = s.n + 1
           n == IF inOrder THEN q.seq ELSE s.n
           r == [s EXCEPT !.got = IF inOrder THEN Append(@, q.dat) ELSE @, !.n = n]
       IN IF q.seq = SrvBlk THEN {Reaction([r EXCEPT !.n = 0], <<SubBlockRsp(n)>>)}
          ELSE {Reaction(r, <<>>)}

\* The timer of a lenient server for a sub-block that stalls.
SubBlockStalls(s, kind) == kind = "lenient" /\ s.ph = "bd" /\ s.n > 0
ServeStall(s) == Reaction([s EXCEPT !.n = 0], <<SubBlockRsp(s.n)>>)

\* Inside a sub-block the end request looks like a segment out of order that
\* is flagged as the last: a strict server acknowledges what it has.
ServeBlockEnd(s, q, kind) ==
  IF s.ph # "bd" THEN Refuses(s)
  ELSE IF kind = "strict" THEN {Reaction([s EXCEPT !.n = 0], <<SubBlockRsp(s.n)>>)}
  ELSE IF Len(s.got) = SegCount(s.obj) /\ (q.crc => s.got = Whole(s.obj))
       THEN Commits(s, s.obj, <<BlockEndRsp>>)
       ELSE Refuses(s)

ServeBlockAck(s, q) ==
  IF s.ph # "bu" THEN Refuses(s)
  ELSE LET r == [s EXCEPT !.n = @ + q.seq] IN
       {IF r.n = SegCount(s.obj) THEN Reaction([r EXCEPT !.ph = "buEnd"], <<BlockUploadEnd(s.obj)>>)
        ELSE Reaction(r, SubBlock(r))}

Serve(s, q, kind) ==
  CASE q.op \in {"ul", "dlX", "dl", "bd", "bu"} -> ServeInitiate(s, q, kind)
    [] q.op = "ulSeg" -> ServeUploadSeg(s, q)
    [] q.op = "dlSeg" -> ServeDownloadSeg(s, q)
    [] q.op = "bdSeg" -> ServeBlockSeg(s, q)
    [] q.op = "bdEnd" -> ServeBlockEnd(s, q, kind)
    [] q.op = "buStart" -> IF s.ph = "bu" THEN {Reaction(s, SubBlock(s))} ELSE Refuses(s)
    [] q.op = "buAck" -> ServeBlockAck(s, q)
    [] q.op = "buEndAck" -> Ends(s, <<>>)
=============================================================================
