-------------------------- MODULE SdoSession_proofs --------------------------
(***************************************************************************)
(* Types of the SDO sessions of the monitor, and that what its front-end   *)
(* shows as pending follows the session's table: for any number of nodes,  *)
(* objects and commands, every user, kind of server and timeout, and any   *)
(* number of lost frames and refused sends; and that what the session      *)
(* reports as done is done, where one command is open at a time, answers   *)
(* are in time and the adapter stays in place.                             *)
(***************************************************************************)
EXTENDS SdoSession, SequenceTheorems, FiniteSetTheorems, WellFoundedInduction, TLAPS

Directions == {"read", "write"}
Data == Seq(Segments)
Codes ==
  {"none", "ok", "general", "timeout", "badCommand", "refused", "sequence", "memory", "crc"}

Requests ==
  [op : {"ul", "dlX", "dl", "bd"}, obj : Objects]
    \cup [op : {"ulSeg"}, t : BOOLEAN]
    \cup [op : {"dlSeg"}, t : BOOLEAN, dat : Data, last : BOOLEAN]
    \cup [op : {"bdSeg"}, seq : Nat, dat : Segments]
    \cup [op : {"bdEnd"}, crc : BOOLEAN]
    \cup [op : {"bu"}, obj : Objects, blk : Nat]
    \cup [op : {"buStart", "buEndAck"}]
    \cup [op : {"buAck"}, seq : Nat]

Responses ==
  [cs : {"abort"}, obj : Objects, code : Codes]
    \cup [cs : {"ulX"}, obj : Objects, dat : Data]
    \cup [cs : {"ulInit", "dlAck"}, obj : Objects]
    \cup [cs : {"ulSeg"}, dat : Data, last : BOOLEAN]
    \cup [cs : {"segAck"}, t : BOOLEAN]
    \cup [cs : {"bdInit"}, blk : Nat, crc : BOOLEAN]
    \cup [cs : {"bdAck"}, ack : Nat, blk : Nat]
    \cup [cs : {"bdEnd"}]
    \cup [cs : {"buInit"}, crc : BOOLEAN]
    \cup [cs : {"buSeg"}, seq : Nat, dat : Data, last : BOOLEAN]
    \cup [cs : {"buEnd"}, sum : Data \X BOOLEAN]

Phases == {"idle", "ul", "dl", "bd", "bu", "buEnd"}
Machines ==
  [ph : Phases, obj : Objects, got : Data, n : Nat, t : BOOLEAN, blk : Nat, done : SUBSET Objects]
Servers == {s \in Machines : s.ph = "ul" => s.n < SegCount(s.obj)}

Events ==
  [kind : {"sdo", "pending"}, node : Nodes, obj : Objects, dir : Directions, code : Codes,
   val : Data]

Slots ==
  [node : Nodes, obj : Objects, dir : Directions, st : States, sent : Nat, tog : BOOLEAN,
   crc : BOOLEAN, exp : 1..MaxBlk, buf : Data, started : Ages, active : Ages]
Records == {p \in Slots : p.sent <= SegCount(p.obj)}

\* The table: no record of a node, or one that names it.
Entries(n) == {None} \cup {<<p>> : p \in {q \in Records : q.node = n}}

\* A table of records.
Tables == {t \in [Nodes -> UNION {Entries(n) : n \in Nodes}] : \A n \in Nodes : t[n] \in Entries(n)}

Typed ==
  /\ world \in Worlds /\ asked \subseteq world.commands /\ shown \subseteq Nodes
  /\ cmds \in Seq(world.commands)
  /\ events \in Seq(Events)
  /\ pending \in Tables
  /\ link \in {"up", "down", "ended"} /\ noBlock \subseteq Nodes
  /\ reqs \in [Nodes -> Seq(Requests)]
  /\ rsps \in Seq([node : Nodes, rsp : Responses])
  /\ srv \in [Nodes -> Servers]
  /\ losses \in 0..world.maxLoss /\ faults \in 0..world.maxFaults
  /\ unplugs \in 0..world.maxUnplug

-----------------------------------------------------------------------------
(* Objects and segments                                                    *)

\* An object has at least one segment.
LEMMA SegCountIs == \A o \in Objects : SegCount(o) \in Nat \ {0}
  BY ServerConstantsOK DEF SegCount

\* Every number up to the count names a segment of the object.
LEMMA IsSegment ==
  ASSUME NEW o \in Objects, NEW i \in 1..SegCount(o)
  PROVE  <<o, i>> \in Segments
  BY DEF Segments

\* The whole of an object is data.
LEMMA WholeIsData == \A o \in Objects : Whole(o) \in Data
<1> SUFFICES ASSUME NEW o \in Objects PROVE Whole(o) \in Data
  OBVIOUS
<1>1. SegCount(o) \in Nat
  BY SegCountIs
<1>2. Whole(o) \in [1..SegCount(o) -> Segments]
  BY IsSegment DEF Whole
<1> QED
  BY <1>1, <1>2, IsASeq DEF Data

\* One element is a sequence.
LEMMA Singles ==
  ASSUME NEW S, NEW e \in S
  PROVE  <<e>> \in Seq(S)
  OBVIOUS

\* What the kinds of responses carry.
LEMMA ResponseFields ==
  ASSUME NEW m \in Responses
  PROVE  /\ m.cs = "abort" => m.obj \in Objects /\ m.code \in Codes
         /\ m.cs = "ulX" => m.obj \in Objects /\ m.dat \in Data
         /\ m.cs \in {"ulInit", "dlAck"} => m.obj \in Objects
         /\ m.cs = "ulSeg" => m.dat \in Data /\ m.last \in BOOLEAN
         /\ m.cs = "bdInit" => m.blk \in Nat /\ m.crc \in BOOLEAN
         /\ m.cs = "bdAck" => m.blk \in Nat
         /\ m.cs = "buInit" => m.crc \in BOOLEAN
         /\ m.cs = "buSeg" => m.seq \in Nat /\ m.dat \in Data /\ m.last \in BOOLEAN
  BY DEF Responses

\* What the kinds of requests carry.
LEMMA RequestFields ==
  ASSUME NEW q \in Requests
  PROVE  /\ q.op \in {"ul", "dlX", "dl", "bd", "ulSeg", "dlSeg", "bdSeg", "bdEnd", "bu", "buStart",
                      "buEndAck", "buAck"}
         /\ q.op \in {"ul", "dlX", "dl", "bd", "bu"} => q.obj \in Objects
         /\ q.op = "dlSeg" => q.dat \in Data /\ q.t \in BOOLEAN /\ q.last \in BOOLEAN
         /\ q.op = "bdSeg" => q.seq \in Nat /\ q.dat \in Segments
         /\ q.op = "bu" => q.blk \in Nat
         /\ q.op = "buAck" => q.seq \in Nat
  BY DEF Requests

\* Every request the session builds is one.
LEMMA RequestsAre ==
  /\ \A o \in Objects : {Upload(o), Expedited(o), Download(o), BlockDownload(o)} \subseteq Requests
  /\ \A t \in BOOLEAN : UploadSeg(t) \in Requests /\ BlockEnd(t) \in Requests
  /\ \A t, last \in BOOLEAN : \A d \in Data : DownloadSeg(t, d, last) \in Requests
  /\ \A i \in Nat : BlockAck(i) \in Requests /\ \A s \in Segments : BlockSeg(i, s) \in Requests
  /\ \A o \in Objects, b \in Nat : BlockUpload(o, b) \in Requests
  /\ BlockStart \in Requests /\ BlockEndAck \in Requests
  BY DEF Requests, Upload, Expedited, Download, BlockDownload, UploadSeg, BlockEnd, DownloadSeg,
         BlockAck, BlockSeg, BlockUpload, BlockStart, BlockEndAck

\* Every response a server builds is one.
LEMMA ResponsesAre ==
  /\ \A o \in Objects : /\ {ExpeditedRsp(o), UploadRsp(o), DownloadRsp(o)} \subseteq Responses
                        /\ BlockUploadEnd(o) \in Responses
                        /\ \A c \in Codes : AbortRsp(o, c) \in Responses
  /\ \A s \in Segments, last \in BOOLEAN : UploadSegRsp(s, last) \in Responses
  /\ \A s \in Segments, last \in BOOLEAN, i \in Nat : BlockSegRsp(i, s, last) \in Responses
  /\ \A t \in BOOLEAN : DownloadSegRsp(t) \in Responses
  /\ \A i \in Nat : SubBlockRsp(i) \in Responses
  /\ {BlockDownloadRsp, BlockEndRsp, BlockUploadRsp} \subseteq Responses
<1>1. SrvBlk \in Nat /\ SrvCrc \in BOOLEAN
  BY ServerConstantsOK
<1>2. ASSUME NEW o \in Objects
      PROVE  /\ {ExpeditedRsp(o), UploadRsp(o), DownloadRsp(o)} \subseteq Responses
             /\ \A c \in Codes : AbortRsp(o, c) \in Responses
  BY WholeIsData DEF Responses, ExpeditedRsp, UploadRsp, DownloadRsp, AbortRsp
<1>3. ASSUME NEW o \in Objects PROVE BlockUploadEnd(o) \in Responses
  BY WholeIsData DEF Responses, BlockUploadEnd
<1>4. ASSUME NEW s \in Segments PROVE <<s>> \in Data
  BY DEF Data
<1>5. \A s \in Segments, last \in BOOLEAN : UploadSegRsp(s, last) \in Responses
  BY <1>4 DEF Responses, UploadSegRsp
<1>6. \A s \in Segments, last \in BOOLEAN, i \in Nat : BlockSegRsp(i, s, last) \in Responses
  BY <1>4 DEF Responses, BlockSegRsp
<1>7. /\ \A t \in BOOLEAN : DownloadSegRsp(t) \in Responses
      /\ \A i \in Nat : SubBlockRsp(i) \in Responses
      /\ {BlockDownloadRsp, BlockEndRsp, BlockUploadRsp} \subseteq Responses
  BY <1>1 DEF Responses, DownloadSegRsp, SubBlockRsp, BlockDownloadRsp, BlockEndRsp, BlockUploadRsp
<1> QED
  BY <1>2, <1>3, <1>5, <1>6, <1>7

-----------------------------------------------------------------------------
(* The nodes                                                               *)

Reactions == [srv : Servers, out : Seq(Responses)]

\* What a server has.
LEMMA ServerFields ==
  ASSUME NEW s \in Servers
  PROVE  /\ s \in Machines
         /\ s.ph \in Phases /\ s.obj \in Objects /\ s.got \in Data /\ s.n \in Nat
         /\ s.t \in BOOLEAN /\ s.blk \in Nat /\ s.done \in SUBSET Objects
         /\ s.ph = "ul" => s.n < SegCount(s.obj)
         /\ SegCount(s.obj) \in Nat \ {0}
  BY SegCountIs DEF Servers, Machines

\* A server at rest, and one that begins a transfer.
LEMMA FreshServers ==
  ASSUME NEW done \in SUBSET Objects
  PROVE  /\ IdleServer(done) \in Servers
         /\ \A s \in Servers : s.done = done =>
              \A ph \in Phases, o \in Objects : Begin(s, ph, o) \in Servers
<1>1. (CHOOSE o \in Objects : TRUE) \in Objects
  BY ServerConstantsOK
<1>2. /\ IdleServer(done) \in Servers /\ IdleServer(done) \in Machines
      /\ IdleServer(done).n = 0
  BY <1>1 DEF IdleServer, Servers, Machines, Phases, Data
<1>3. ASSUME NEW s \in Servers, s.done = done, NEW ph \in Phases, NEW o \in Objects
      PROVE  Begin(s, ph, o) \in Servers
  <2> DEFINE idle == IdleServer(done)
  <2>1. Begin(s, ph, o) = [idle EXCEPT !.ph = ph, !.obj = o] /\ idle \in Machines /\ idle.n = 0
    BY <1>2, <1>3 DEF Begin
  <2> HIDE DEF idle
  <2>2. Begin(s, ph, o) \in Machines /\ Begin(s, ph, o).n = 0 /\ Begin(s, ph, o).obj = o
    BY <2>1 DEF Machines
  <2> QED
    BY <2>2, SegCountIs DEF Servers, Machines
<1> QED
  BY <1>2, <1>3

\* A server in its new state and what it sends make a reaction.
LEMMA ReactionIs ==
  ASSUME NEW s \in Servers, NEW out \in Seq(Responses)
  PROVE  Reaction(s, out) \in Reactions
  BY DEF Reaction, Reactions

\* The ends of a transfer.
LEMMA EndsAre ==
  ASSUME NEW s \in Servers
  PROVE  /\ \A out \in Seq(Responses) : Ends(s, out) \subseteq Reactions
         /\ \A out \in Seq(Responses), o \in Objects : Commits(s, o, out) \subseteq Reactions
         /\ Refuses(s) \subseteq Reactions
<1>1. s.done \in SUBSET Objects /\ s.obj \in Objects
  BY ServerFields
<1>2. ASSUME NEW out \in Seq(Responses) PROVE Ends(s, out) \subseteq Reactions
  BY <1>1, FreshServers, ReactionIs DEF Ends
<1>3. ASSUME NEW out \in Seq(Responses), NEW o \in Objects
      PROVE  Commits(s, o, out) \subseteq Reactions
  <2>1. s.done \cup {o} \in SUBSET Objects
    BY <1>1
  <2> QED
    BY <2>1, FreshServers, ReactionIs DEF Commits
<1>4. AbortRsp(s.obj, "badCommand") \in Responses
  BY <1>1, ResponsesAre DEF Codes
<1>5. <<AbortRsp(s.obj, "badCommand")>> \in Seq(Responses)
  BY <1>4, Singles
<1> QED
  BY <1>2, <1>3, <1>5 DEF Refuses

\* The segments of a sub-block are responses, as many as are left or asked for.
LEMMA SubBlockIs ==
  ASSUME NEW s \in Servers
  PROVE  SubBlock(s) \in Seq(Responses)
<1> DEFINE rest == SegCount(s.obj) - s.n
           len == IF rest < s.blk THEN rest ELSE s.blk
           F(i) == BlockSegRsp(i, <<s.obj, s.n + i>>, s.n + i = SegCount(s.obj))
<1>1. s.n \in Nat /\ s.blk \in Nat /\ s.obj \in Objects /\ SegCount(s.obj) \in Nat
  BY ServerFields
<1>2. ASSUME NEW i \in 1..len PROVE F(i) \in Responses
  <2>1. s.n + i \in 1..SegCount(s.obj) /\ i \in Nat
    BY <1>1
  <2> QED
    BY <1>1, <2>1, IsSegment, ResponsesAre
<1>3. SubBlock(s) = [i \in 1..len |-> F(i)]
  BY DEF SubBlock
<1>4. len \in Int
  BY <1>1
<1> HIDE DEF len, F
<1>5. CASE len \in Nat
  <2>1. SubBlock(s) \in [1..len -> Responses]
    BY <1>2, <1>3
  <2> QED
    BY <1>5, <2>1, IsASeq
<1>6. CASE len \notin Nat
  <2>1. 1..len = 1..0
    BY <1>4, <1>6
  <2>2. SubBlock(s) \in [1..0 -> Responses]
    BY <1>2, <1>3, <2>1
  <2> QED
    BY <2>2, IsASeq
<1> QED
  BY <1>5, <1>6

\* An initiate request is answered.
LEMMA InitiateReacts ==
  ASSUME NEW s \in Servers, NEW q \in Requests, q.op \in {"ul", "dlX", "dl", "bd", "bu"}, NEW kind
  PROVE  ServeInitiate(s, q, kind) \subseteq Reactions
<1>1. q.obj \in Objects /\ s.done \in SUBSET Objects /\ (q.op = "bu" => q.blk \in Nat)
  BY RequestFields, ServerFields
<1>2. \A c \in Codes : <<AbortRsp(q.obj, c)>> \in Seq(Responses)
  BY <1>1, ResponsesAre, Singles
<1>3. /\ <<ExpeditedRsp(q.obj)>> \in Seq(Responses) /\ <<UploadRsp(q.obj)>> \in Seq(Responses)
      /\ <<DownloadRsp(q.obj)>> \in Seq(Responses) /\ <<BlockDownloadRsp>> \in Seq(Responses)
      /\ <<BlockUploadRsp>> \in Seq(Responses)
  BY <1>1, ResponsesAre, Singles
<1>4. \A ph \in Phases : Begin(s, ph, q.obj) \in Servers
  BY <1>1, FreshServers
<1>5. CASE q.obj \in Missing
  <2>1. Ends(s, <<AbortRsp(q.obj, "refused")>>) \subseteq Reactions
    BY <1>2, EndsAre DEF Codes
  <2> QED
    BY <1>5, <2>1 DEF ServeInitiate
<1>6. CASE q.obj \notin Missing /\ q.op = "ul"
  <2>1. Ends(s, <<ExpeditedRsp(q.obj)>>) \subseteq Reactions
    BY <1>3, EndsAre
  <2>2. Reaction(Begin(s, "ul", q.obj), <<UploadRsp(q.obj)>>) \in Reactions
    BY <1>3, <1>4, ReactionIs DEF Phases
  <2>3. CASE Segs[q.obj] = 0
    BY <1>6, <2>1, <2>3 DEF ServeInitiate
  <2>4. CASE Segs[q.obj] # 0
    BY <1>6, <2>2, <2>4 DEF ServeInitiate
  <2> QED
    BY <2>3, <2>4
<1>7. CASE q.obj \notin Missing /\ q.op = "dlX"
  <2>1. Commits(s, q.obj, <<DownloadRsp(q.obj)>>) \subseteq Reactions
    BY <1>1, <1>3, EndsAre
  <2> QED
    BY <1>7, <2>1 DEF ServeInitiate
<1>8. CASE q.obj \notin Missing /\ q.op = "dl"
  <2>1. Reaction(Begin(s, "dl", q.obj), <<DownloadRsp(q.obj)>>) \in Reactions
    BY <1>3, <1>4, ReactionIs DEF Phases
  <2> QED
    BY <1>8, <2>1 DEF ServeInitiate
<1>9. CASE q.obj \notin Missing /\ q.op \in {"bd", "bu"}
  <2>1. ASSUME NEW c \in Codes PROVE Ends(s, <<AbortRsp(q.obj, c)>>) \subseteq Reactions
    BY <1>2, EndsAre
  <2>2. Reaction(Begin(s, "bd", q.obj), <<BlockDownloadRsp>>) \in Reactions
    BY <1>3, <1>4, ReactionIs DEF Phases
  <2>3. ASSUME q.op = "bu"
        PROVE  Reaction([Begin(s, "bu", q.obj) EXCEPT !.blk = q.blk], <<BlockUploadRsp>>) \in Reactions
    <3>1. Begin(s, "bu", q.obj) \in Servers
      BY <1>4 DEF Phases
    <3>2. [Begin(s, "bu", q.obj) EXCEPT !.blk = q.blk] \in Servers
      BY <1>1, <2>3, <3>1 DEF Servers, Machines
    <3> QED
      BY <1>3, <3>2, ReactionIs
  <2>4. CASE kind = "segmented"
    <3>1. ServeInitiate(s, q, kind) =
            UNION {Ends(s, <<AbortRsp(q.obj, c)>>) : c \in {"badCommand", "timeout"}}
      BY <1>9, <2>4 DEF ServeInitiate
    <3> QED
      BY <2>1, <3>1 DEF Codes
  <2>5. CASE kind # "segmented" /\ q.op = "bd"
    BY <1>9, <2>2, <2>5 DEF ServeInitiate
  <2>6. CASE kind # "segmented" /\ q.op = "bu"
    BY <1>9, <2>3, <2>6 DEF ServeInitiate
  <2> QED
    BY <1>9, <2>4, <2>5, <2>6
<1> QED
  BY <1>5, <1>6, <1>7, <1>8, <1>9

\* A request for a segment of an upload is answered.
LEMMA UploadSegReacts ==
  ASSUME NEW s \in Servers, NEW q \in Requests
  PROVE  ServeUploadSeg(s, q) \subseteq Reactions
<1> DEFINE last == s.n + 1 = SegCount(s.obj)
           out == <<UploadSegRsp(<<s.obj, s.n + 1>>, last)>>
           next == [s EXCEPT !.n = @ + 1, !.t = ~@]
<1>1. CASE s.ph # "ul" \/ q.t # s.t
  BY <1>1, EndsAre DEF ServeUploadSeg
<1>2. CASE s.ph = "ul" /\ q.t = s.t
  <2>1. s.n \in Nat /\ s.obj \in Objects /\ s.n + 1 \in 1..SegCount(s.obj) /\ s.t \in BOOLEAN
    BY <1>2, ServerFields
  <2>2. out \in Seq(Responses)
    <3>1. <<s.obj, s.n + 1>> \in Segments /\ last \in BOOLEAN
      BY <2>1, IsSegment
    <3> QED
      BY <3>1, ResponsesAre, Singles
  <2>3. ASSUME ~last PROVE next \in Servers
    <3>1. next \in Machines /\ next.n = s.n + 1 /\ next.obj = s.obj
      <4> DEFINE t == ~s.t
      <4>1. t \in BOOLEAN /\ s.n + 1 \in Nat /\ s \in Machines
        BY <2>1, ServerFields
      <4>2. next = [s EXCEPT !.n = s.n + 1, !.t = t]
        OBVIOUS
      <4> HIDE DEF t, next
      <4> QED
        BY <4>1, <4>2 DEF Machines
    <3>2. s.n + 1 < SegCount(s.obj)
      BY <2>1, <2>3, SegCountIs
    <3> HIDE DEF next
    <3> QED
      BY <3>1, <3>2 DEF Servers
  <2>4. ServeUploadSeg(s, q) = IF last THEN Ends(s, out) ELSE {Reaction(next, out)}
    BY <1>2 DEF ServeUploadSeg
  <2> HIDE DEF last, out, next
  <2> QED
    BY <2>2, <2>3, <2>4, EndsAre, ReactionIs
<1> QED
  BY <1>1, <1>2

\* A segment of a download is answered.
LEMMA DownloadSegReacts ==
  ASSUME NEW s \in Servers, NEW q \in Requests, q.op = "dlSeg"
  PROVE  ServeDownloadSeg(s, q) \subseteq Reactions
<1> DEFINE got == s.got \o q.dat
           next == [s EXCEPT !.got = got, !.t = ~@]
<1>1. CASE s.ph # "dl" \/ q.t # s.t
  BY <1>1, EndsAre DEF ServeDownloadSeg
<1>2. CASE s.ph = "dl" /\ q.t = s.t
  <2>1. s.obj \in Objects /\ got \in Data
    BY ServerFields, RequestFields, ConcatProperties DEF Data
  <2>2. next \in Servers
    BY <1>2, <2>1, ServerFields DEF Servers, Machines
  <2>3. <<DownloadSegRsp(q.t)>> \in Seq(Responses)
    BY RequestFields, ResponsesAre, Singles
  <2>4. ServeDownloadSeg(s, q) =
          IF ~q.last THEN {Reaction(next, <<DownloadSegRsp(q.t)>>)}
          ELSE IF got = Whole(s.obj) THEN Commits(s, s.obj, <<DownloadSegRsp(q.t)>>)
          ELSE Refuses(s)
    BY <1>2 DEF ServeDownloadSeg
  <2> HIDE DEF got, next
  <2>5. /\ Reaction(next, <<DownloadSegRsp(q.t)>>) \in Reactions /\ Refuses(s) \subseteq Reactions
        /\ Commits(s, s.obj, <<DownloadSegRsp(q.t)>>) \subseteq Reactions
    BY <2>1, <2>2, <2>3, EndsAre, ReactionIs
  <2> QED
    BY <2>4, <2>5
<1> QED
  BY <1>1, <1>2

\* A segment of a block download is taken, and the last of a sub-block answered.
LEMMA BlockSegReacts ==
  ASSUME NEW s \in Servers, NEW q \in Requests, q.op = "bdSeg"
  PROVE  ServeBlockSeg(s, q) \subseteq Reactions
<1> DEFINE inOrder == q.seq = s.n + 1
           n == IF inOrder THEN q.seq ELSE s.n
           r == [s EXCEPT !.got = IF inOrder THEN Append(@, q.dat) ELSE @, !.n = n]
           r0 == [r EXCEPT !.n = 0]
<1>1. CASE s.ph # "bd"
  BY <1>1, EndsAre DEF ServeBlockSeg
<1>2. CASE s.ph = "bd"
  <2>1. q.seq \in Nat /\ q.dat \in Segments /\ s.n \in Nat /\ s.got \in Data
    BY ServerFields, RequestFields
  <2>2. Append(s.got, q.dat) \in Data
    BY <2>1, AppendProperties DEF Data
  <2>3. n \in Nat
    BY <2>1
  <2>4. r \in Servers /\ r0 \in Servers
    BY <1>2, <2>1, <2>2, ServerFields DEF Servers, Machines
  <2>5. <<SubBlockRsp(n)>> \in Seq(Responses) /\ <<>> \in Seq(Responses)
    BY <2>3, ResponsesAre
  <2>6. ServeBlockSeg(s, q) = IF q.seq = SrvBlk THEN {Reaction(r0, <<SubBlockRsp(n)>>)}
                              ELSE {Reaction(r, <<>>)}
    BY <1>2 DEF ServeBlockSeg
  <2> HIDE DEF r, r0, n
  <2>7. Reaction(r0, <<SubBlockRsp(n)>>) \in Reactions /\ Reaction(r, <<>>) \in Reactions
    BY <2>4, <2>5, ReactionIs
  <2> QED
    BY <2>6, <2>7
<1> QED
  BY <1>1, <1>2

\* The end of a block download is answered, and so is a sub-block that stalls.
LEMMA BlockEndReacts ==
  ASSUME NEW s \in Servers, NEW q \in Requests, NEW kind
  PROVE  /\ ServeBlockEnd(s, q, kind) \subseteq Reactions
         /\ ServeStall(s) \in Reactions
<1> DEFINE r == [s EXCEPT !.n = 0]
<1>1. r \in Servers /\ s.n \in Nat /\ s.obj \in Objects
  BY ServerFields DEF Servers, Machines
<1>2. <<SubBlockRsp(s.n)>> \in Seq(Responses) /\ <<BlockEndRsp>> \in Seq(Responses)
  BY <1>1, ResponsesAre, Singles
<1>3. Reaction(r, <<SubBlockRsp(s.n)>>) \in Reactions
  BY <1>1, <1>2, ReactionIs
<1>4. Refuses(s) \subseteq Reactions /\ Commits(s, s.obj, <<BlockEndRsp>>) \subseteq Reactions
  BY <1>1, <1>2, EndsAre
<1> QED
  BY <1>3, <1>4 DEF ServeBlockEnd, ServeStall

\* The start of a block upload and the ack of a sub-block are answered.
LEMMA BlockAckReacts ==
  ASSUME NEW s \in Servers, NEW q \in Requests, q.op = "buAck"
  PROVE  ServeBlockAck(s, q) \subseteq Reactions
<1> DEFINE r == [s EXCEPT !.n = @ + q.seq]
           re == [r EXCEPT !.ph = "buEnd"]
<1>1. CASE s.ph # "bu"
  BY <1>1, EndsAre DEF ServeBlockAck
<1>2. CASE s.ph = "bu"
  <2>1. q.seq \in Nat
    BY RequestFields
  <2>2. r \in Servers /\ re \in Servers
    <3>1. r \in Machines /\ r.ph = "bu"
      BY <1>2, <2>1, ServerFields DEF Machines
    <3> HIDE DEF r
    <3>2. re \in Machines /\ re.ph = "buEnd"
      BY <3>1 DEF Machines, Phases
    <3> QED
      BY <3>1, <3>2 DEF Servers
  <2>3. <<BlockUploadEnd(s.obj)>> \in Seq(Responses)
    BY ServerFields, ResponsesAre, Singles
  <2>4. ServeBlockAck(s, q) = {IF r.n = SegCount(s.obj) THEN Reaction(re, <<BlockUploadEnd(s.obj)>>)
                               ELSE Reaction(r, SubBlock(r))}
    BY <1>2 DEF ServeBlockAck
  <2> HIDE DEF r, re
  <2>5. SubBlock(r) \in Seq(Responses)
    BY <2>2, SubBlockIs
  <2> QED
    BY <2>2, <2>3, <2>4, <2>5, ReactionIs
<1> QED
  BY <1>1, <1>2

\* A server reacts to every request with responses and stays a server.
LEMMA ServeReacts ==
  ASSUME NEW s \in Servers, NEW q \in Requests, NEW kind
  PROVE  Serve(s, q, kind) \subseteq Reactions
<1>1. CASE q.op \in {"ul", "dlX", "dl", "bd", "bu"}
  BY <1>1, InitiateReacts DEF Serve
<1>2. CASE q.op = "ulSeg"
  BY <1>2, UploadSegReacts DEF Serve
<1>3. CASE q.op = "dlSeg"
  BY <1>3, DownloadSegReacts DEF Serve
<1>4. CASE q.op = "bdSeg"
  BY <1>4, BlockSegReacts DEF Serve
<1>5. CASE q.op = "bdEnd"
  BY <1>5, BlockEndReacts DEF Serve
<1>6. CASE q.op = "buStart"
  <2>1. Reaction(s, SubBlock(s)) \in Reactions
    BY SubBlockIs, ReactionIs
  <2> QED
    BY <1>6, <2>1, EndsAre DEF Serve
<1>7. CASE q.op = "buAck"
  BY <1>7, BlockAckReacts DEF Serve
<1>8. CASE q.op = "buEndAck"
  <2>1. <<>> \in Seq(Responses)
    OBVIOUS
  <2>2. Ends(s, <<>>) \subseteq Reactions
    BY <2>1, EndsAre
  <2> QED
    BY <1>8, <2>2 DEF Serve
<1> QED
  BY <1>1, <1>2, <1>3, <1>4, <1>5, <1>6, <1>7, <1>8, RequestFields

-----------------------------------------------------------------------------
(* A record and a response                                                 *)

\* A response ends the transfer with one report of its node, or leaves a record of
\* the node and reports nothing.
Answers(p, r) ==
  /\ r.out \in Seq(Requests) /\ r.scan \in BOOLEAN
  /\ \/ r.next = None /\ \E e \in Events : e.node = p.node /\ e.kind = "sdo" /\ r.ev = <<e>>
     \/ \E q \in Records : q.node = p.node /\ r.next = <<q>> /\ r.ev = <<>>

\* What a record has.
LEMMA RecordFields ==
  ASSUME NEW p \in Records
  PROVE  /\ p \in Slots /\ p.node \in Nodes /\ p.obj \in Objects /\ p.dir \in Directions
         /\ p.st \in States /\ p.sent \in Nat /\ p.tog \in BOOLEAN /\ p.crc \in BOOLEAN
         /\ p.exp \in 1..MaxBlk /\ p.buf \in Data /\ p.started \in Ages /\ p.active \in Ages
         /\ SegCount(p.obj) \in Nat \ {0} /\ p.sent <= SegCount(p.obj)
  BY SegCountIs DEF Records, Slots

\* A transfer that begins has a record.
LEMMA EntryIs ==
  ASSUME NEW n \in Nodes, NEW o \in Objects, NEW dir \in Directions, NEW st \in States
  PROVE  Entry(n, o, dir, st) \in Records /\ Entry(n, o, dir, st).node = n
<1>1. 0 \in Ages /\ 1 \in 1..MaxBlk
  BY PendingConstantsOK DEF Ages
<1>2. <<>> \in Data
  BY DEF Data
<1>3. SegCount(o) \in Nat
  BY SegCountIs
<1> QED
  BY <1>1, <1>2, <1>3 DEF Entry, Records, Slots

\* The reports of a transfer.
LEMMA EventsAre ==
  ASSUME NEW n \in Nodes, NEW o \in Objects
  PROVE  /\ \A d \in Data : Read(n, o, d) \in Events /\ Read(n, o, d).node = n /\ Read(n, o, d).kind = "sdo"
         /\ Written(n, o) \in Events /\ Written(n, o).node = n /\ Written(n, o).kind = "sdo"
         /\ \A dir \in Directions, c \in Codes :
              /\ Aborted(n, o, dir, c) \in Events /\ Aborted(n, o, dir, c).node = n
              /\ Aborted(n, o, dir, c).kind = "sdo"
<1>1. <<>> \in Data
  BY DEF Data
<1> QED
  BY <1>1 DEF Read, Written, Aborted, Entered, Events, Directions, Codes

\* The transfer goes on.
LEMMA Remains ==
  ASSUME NEW p \in Records, NEW q \in Records, q.node = p.node, NEW out \in Seq(Requests)
  PROVE  /\ Answers(p, GoOn(q, out)) /\ Answers(p, Keep(q))
         /\ Answers(p, Outcome(<<q>>, out, <<>>, FALSE))
<1>1. <<>> \in Seq(Requests)
  OBVIOUS
<1> QED
  BY <1>1 DEF Answers, GoOn, Keep, Outcome

\* The transfer is over.
LEMMA Finishes ==
  ASSUME NEW p \in Records, NEW e \in Events, e.node = p.node, e.kind = "sdo"
  PROVE  /\ Answers(p, Done(e))
         /\ Answers(p, [Done(e) EXCEPT !.scan = FALSE])
         /\ Answers(p, [Done(e) EXCEPT !.out = <<BlockEndAck>>])
<1>1. <<>> \in Seq(Requests) /\ <<BlockEndAck>> \in Seq(Requests)
  BY RequestsAre
<1> QED
  BY <1>1 DEF Answers, Done, Outcome, None

\* A refused send ends it as well.
LEMMA SendFails == \A p \in Records : Answers(p, SendFailed(p))
<1> SUFFICES ASSUME NEW p \in Records PROVE Answers(p, SendFailed(p))
  OBVIOUS
<1> DEFINE e == Aborted(p.node, p.obj, p.dir, "general")
<1>1. e \in Events /\ e.node = p.node /\ e.kind = "sdo"
  BY RecordFields, EventsAre DEF Codes
<1>2. <<>> \in Seq(Requests)
  OBVIOUS
<1>3. SendFailed(p) = Outcome(<<>>, <<>>, <<e>>, FALSE)
  BY DEF SendFailed
<1> HIDE DEF e
<1> QED
  BY <1>1, <1>2, <1>3 DEF Answers, Outcome, None

\* An abort ends a transfer or starts it again, segmented.
LEMMA AbortAnswers ==
  ASSUME NEW p \in Records, NEW m \in Responses, m.cs = "abort", NEW ok \in BOOLEAN
  PROVE  Answers(p, OnAbort(p, m, ok))
<1>1. CASE FallsBack(p, m) /\ ok
  <2> DEFINE f == Fallback(p)
  <2>1. f.p \in Records /\ f.p.node = p.node /\ f.out \in Requests
    <3>1. CASE p.st = "bdInit"
      BY <3>1, RecordFields, EntryIs, RequestsAre DEF Fallback, States
    <3>2. CASE p.st # "bdInit"
      BY <3>2, RecordFields, EntryIs, RequestsAre DEF Fallback, States
    <3> QED
      BY <3>1, <3>2
  <2>2. OnAbort(p, m, ok) = Outcome(<<f.p>>, <<f.out>>, <<>>, FALSE)
    BY <1>1 DEF OnAbort
  <2> HIDE DEF f
  <2> QED
    BY <2>1, <2>2, Remains, Singles
<1>2. CASE ~(FallsBack(p, m) /\ ok)
  <2> DEFINE e == Aborted(p.node, p.obj, p.dir, m.code)
  <2>1. e \in Events /\ e.node = p.node /\ e.kind = "sdo"
    BY RecordFields, ResponseFields, EventsAre
  <2>2. OnAbort(p, m, ok) = Done(e)
    BY <1>2 DEF OnAbort
  <2> HIDE DEF e
  <2> QED
    BY <2>1, <2>2, Finishes
<1> QED
  BY <1>1, <1>2

\* A transfer that waits for its first response.
LEMMA WaitingAnswers ==
  ASSUME NEW p \in Records, NEW m \in Responses
  PROVE  Answers(p, OnWaiting(p, m))
<1>1. CASE m.cs = "ulX"
  <2> DEFINE e == Read(p.node, m.obj, m.dat)
  <2>1. e \in Events /\ e.node = p.node /\ e.kind = "sdo"
    BY <1>1, RecordFields, ResponseFields, EventsAre
  <2>2. OnWaiting(p, m) = Done(e)
    BY <1>1 DEF OnWaiting
  <2> HIDE DEF e
  <2> QED
    BY <2>1, <2>2, Finishes
<1>2. CASE m.cs = "dlAck"
  <2> DEFINE e == Written(p.node, p.obj)
  <2>1. e \in Events /\ e.node = p.node /\ e.kind = "sdo"
    BY RecordFields, EventsAre
  <2>2. OnWaiting(p, m) = Done(e)
    BY <1>2 DEF OnWaiting
  <2> HIDE DEF e
  <2> QED
    BY <2>1, <2>2, Finishes
<1>3. CASE m.cs = "ulInit"
  <2> DEFINE q == [p EXCEPT !.st = "ulSeg", !.tog = FALSE, !.buf = <<>>]
  <2>1. <<>> \in Data
    BY DEF Data
  <2>2. q \in Records /\ q.node = p.node
    BY <2>1, RecordFields DEF Records, Slots, States
  <2>3. UploadSeg(FALSE) \in Requests
    BY RequestsAre
  <2>4. OnWaiting(p, m) = GoOn(q, <<UploadSeg(FALSE)>>)
    BY <1>3 DEF OnWaiting
  <2> HIDE DEF q
  <2> QED
    BY <2>2, <2>3, <2>4, Remains, Singles
<1>4. CASE m.cs \notin {"ulX", "dlAck", "ulInit"}
  <2>1. <<>> \in Seq(Requests)
    OBVIOUS
  <2> QED
    BY <1>4, <2>1, Remains DEF OnWaiting
<1> QED
  BY <1>1, <1>2, <1>3, <1>4

\* A segmented upload.
LEMMA UploadAnswers ==
  ASSUME NEW p \in Records, NEW m \in Responses
  PROVE  Answers(p, OnUploadSegmented(p, m))
<1> DEFINE buf == p.buf \o m.dat
           tog == ~p.tog
           q == [p EXCEPT !.tog = tog, !.buf = buf]
           e == Read(p.node, p.obj, buf)
<1>1. CASE m.cs # "ulSeg"
  <2>1. <<>> \in Seq(Requests)
    OBVIOUS
  <2> QED
    BY <1>1, <2>1, Remains DEF OnUploadSegmented
<1>2. CASE m.cs = "ulSeg"
  <2>1. buf \in Data /\ tog \in BOOLEAN
    BY <1>2, RecordFields, ResponseFields, ConcatProperties DEF Data
  <2>2. OnUploadSegmented(p, m) = IF m.last THEN Done(e) ELSE GoOn(q, <<UploadSeg(tog)>>)
    BY <1>2 DEF OnUploadSegmented
  <2> HIDE DEF buf, tog
  <2>3. q \in Records /\ q.node = p.node
    BY <2>1, RecordFields DEF Records, Slots
  <2>4. e \in Events /\ e.node = p.node /\ e.kind = "sdo"
    BY <2>1, RecordFields, EventsAre
  <2>5. UploadSeg(tog) \in Requests
    BY <2>1, RequestsAre
  <2> HIDE DEF q, e
  <2>6. Answers(p, Done(e)) /\ Answers(p, GoOn(q, <<UploadSeg(tog)>>))
    BY <2>3, <2>4, <2>5, Remains, Finishes, Singles
  <2> QED
    BY <2>2, <2>6
<1> QED
  BY <1>1, <1>2

\* A response that is not awaited changes nothing.
LEMMA Kept == \A p \in Records : Answers(p, Keep(p))
<1>1. <<>> \in Seq(Requests)
  OBVIOUS
<1> QED
  BY <1>1, Remains

\* A write ends well.
LEMMA WriteEnds == \A p \in Records : Answers(p, Done(Written(p.node, p.obj)))
<1> SUFFICES ASSUME NEW p \in Records PROVE Answers(p, Done(Written(p.node, p.obj)))
  OBVIOUS
<1> DEFINE e == Written(p.node, p.obj)
<1>1. e \in Events /\ e.node = p.node /\ e.kind = "sdo"
  BY RecordFields, EventsAre
<1> HIDE DEF e
<1> QED
  BY <1>1, Finishes DEF e

\* A read ends in an abort of the session's own.
LEMMA ReadAborts ==
  ASSUME NEW p \in Records, NEW c \in Codes
  PROVE  /\ Answers(p, Done(Aborted(p.node, p.obj, "read", c)))
         /\ Answers(p, [Done(Aborted(p.node, p.obj, "read", c)) EXCEPT !.scan = FALSE])
<1> DEFINE e == Aborted(p.node, p.obj, "read", c)
<1>1. e \in Events /\ e.node = p.node /\ e.kind = "sdo"
  BY RecordFields, EventsAre DEF Directions
<1> HIDE DEF e
<1> QED
  BY <1>1, Finishes DEF e

\* A segmented download.
LEMMA DownloadAnswers ==
  ASSUME NEW p \in Records, NEW m \in Responses
  PROVE  Answers(p, OnDownloadSegmented(p, m))
<1> DEFINE chunk == IF Remaining(p) > 0 THEN <<<<p.obj, p.sent + 1>>>> ELSE <<>>
           sent == p.sent + Len(chunk)
           last == sent = SegCount(p.obj)
           tog == IF last THEN p.tog ELSE ~p.tog
           q == [p EXCEPT !.sent = sent, !.tog = tog]
           next == m.cs = "dlAck" \/ (m.cs = "segAck" /\ m.t = ~p.tog)
           over == Remaining(p) = 0 /\ m.cs = "segAck" /\ m.t = p.tog
           seg == DownloadSeg(p.tog, chunk, last)
<1>1. OnDownloadSegmented(p, m) =
        IF next THEN GoOn(q, <<seg>>)
        ELSE IF over THEN Done(Written(p.node, p.obj)) ELSE Keep(p)
  BY DEF OnDownloadSegmented
<1>2. chunk \in Data /\ sent \in Nat /\ sent <= SegCount(p.obj)
  <2>1. CASE Remaining(p) > 0
    <3>1. p.sent + 1 \in 1..SegCount(p.obj) /\ p.obj \in Objects /\ p.sent \in Nat
      BY <2>1, RecordFields DEF Remaining
    <3>2. <<p.obj, p.sent + 1>> \in Segments
      BY <3>1, IsSegment
    <3>3. <<<<p.obj, p.sent + 1>>>> \in Data /\ Len(<<<<p.obj, p.sent + 1>>>>) = 1
      BY <3>2, Singles DEF Data
    <3> QED
      BY <2>1, <3>1, <3>3
  <2>2. CASE ~(Remaining(p) > 0)
    <3>1. <<>> \in Data /\ Len(<<>>) = 0
      BY DEF Data
    <3> QED
      BY <2>2, <3>1, RecordFields
  <2> QED
    BY <2>1, <2>2
<1> HIDE DEF chunk, sent
<1>3. tog \in BOOLEAN /\ last \in BOOLEAN /\ p.tog \in BOOLEAN
  BY RecordFields
<1> HIDE DEF tog, last
<1>4. q \in Records /\ q.node = p.node
  BY <1>2, <1>3, RecordFields DEF Records, Slots
<1>5. seg \in Requests
  BY <1>2, <1>3, RequestsAre
<1> HIDE DEF q, seg, next, over
<1>6. Answers(p, GoOn(q, <<seg>>))
  BY <1>4, <1>5, Remains, Singles
<1> QED
  BY <1>1, <1>6, WriteEnds, Kept

\* The start of a block download.
LEMMA BlockDownloadInitAnswers ==
  ASSUME NEW p \in Records, NEW m \in Responses, NEW ok \in BOOLEAN
  PROVE  Answers(p, OnBlockDownloadInitiating(p, m, ok))
<1> DEFINE q == [p EXCEPT !.st = "bdProg", !.crc = m.crc, !.sent = 1, !.active = 0]
           seg == BlockSeg(1, <<p.obj, 1>>)
<1>1. ASSUME m.cs = "bdInit" PROVE Answers(p, GoOn(q, <<seg>>))
  <2>1. m.crc \in BOOLEAN /\ 0 \in Ages /\ 1 <= SegCount(p.obj) /\ 1 \in 1..SegCount(p.obj)
    BY <1>1, ResponseFields, RecordFields, PendingConstantsOK DEF Ages
  <2>2. q \in Slots /\ q.sent = 1 /\ q.obj = p.obj /\ q.node = p.node
    BY <2>1, RecordFields DEF Slots, States
  <2>3. seg \in Requests
    BY <2>1, RecordFields, IsSegment, RequestsAre
  <2> HIDE DEF q, seg
  <2>4. q \in Records
    BY <2>1, <2>2 DEF Records
  <2> QED
    BY <2>2, <2>3, <2>4, Remains, Singles
<1>2. OnBlockDownloadInitiating(p, m, ok) =
        IF m.cs # "bdInit" THEN Keep(p) ELSE IF ~ok THEN SendFailed(p) ELSE GoOn(q, <<seg>>)
  BY DEF OnBlockDownloadInitiating
<1> HIDE DEF q, seg
<1> QED
  BY <1>1, <1>2, Kept, SendFails

\* The least of three numbers is one of them.
LEMMA LeastOfThree ==
  ASSUME NEW a \in Nat, NEW b \in Nat, NEW c \in Nat
  PROVE  Least({a, b, c}) \in Nat /\ Least({a, b, c}) <= a /\ Least({a, b, c}) <= b
<1>1. \E k \in {a, b, c} : \A j \in {a, b, c} : k <= j
  <2>1. CASE a <= b /\ a <= c
    BY <2>1
  <2>2. CASE b <= a /\ b <= c
    BY <2>2
  <2>3. CASE c <= a /\ c <= b
    BY <2>3
  <2> QED
    BY <2>1, <2>2, <2>3
<1>2. Least({a, b, c}) \in {a, b, c} /\ \A j \in {a, b, c} : Least({a, b, c}) <= j
  BY <1>1, Zenon DEF Least
<1> QED
  BY <1>2

\* The sub-blocks of a block download.
LEMMA BlockDownloadAnswers ==
  ASSUME NEW p \in Records, NEW m \in Responses
  PROVE  Answers(p, OnBlockDownloadInProgress(p, m))
<1> DEFINE burst == Least({Remaining(p), m.blk, MaxBlk})
           q == [p EXCEPT !.sent = @ + burst, !.active = 0]
           F(i) == BlockSeg(i, <<p.obj, p.sent + i>>)
           out == [i \in 1..burst |-> F(i)]
           ending == [p EXCEPT !.st = "bdEnd", !.active = 0]
<1>1. OnBlockDownloadInProgress(p, m) =
        IF m.cs # "bdAck" THEN Keep(p)
        ELSE IF Remaining(p) = 0 THEN GoOn(ending, <<BlockEnd(p.crc)>>) ELSE GoOn(q, out)
  BY DEF OnBlockDownloadInProgress
<1>2. 0 \in Ages
  BY PendingConstantsOK DEF Ages
<1>3. Answers(p, GoOn(ending, <<BlockEnd(p.crc)>>))
  <2>1. ending \in Records /\ ending.node = p.node
    BY <1>2, RecordFields DEF Records, Slots, States
  <2>2. BlockEnd(p.crc) \in Requests
    BY RecordFields, RequestsAre
  <2> HIDE DEF ending
  <2> QED
    BY <2>1, <2>2, Remains, Singles
<1>4. ASSUME m.cs = "bdAck" PROVE Answers(p, GoOn(q, out))
  <2>1. Remaining(p) \in Nat /\ Remaining(p) = SegCount(p.obj) - p.sent /\ m.blk \in Nat /\ MaxBlk \in Nat
    BY <1>4, RecordFields, ResponseFields, PendingConstantsOK DEF Remaining
  <2>2. burst \in Nat /\ burst <= Remaining(p)
    BY <2>1, LeastOfThree
  <2> HIDE DEF burst
  <2>3. q \in Slots /\ q.sent = p.sent + burst /\ q.obj = p.obj /\ q.node = p.node
    <3> DEFINE sent == p.sent + burst
    <3>1. sent \in Nat /\ p \in Slots
      BY <2>2, RecordFields
    <3>2. q = [p EXCEPT !.sent = sent, !.active = 0]
      BY <3>1 DEF Slots
    <3> HIDE DEF sent, q
    <3>3. q \in Slots /\ q.sent = sent /\ q.obj = p.obj /\ q.node = p.node
      BY <1>2, <3>1, <3>2 DEF Slots
    <3> QED
      BY <3>3 DEF sent
  <2>4. ASSUME NEW i \in 1..burst PROVE F(i) \in Requests
    <3>1. p.sent + i \in 1..SegCount(p.obj) /\ i \in Nat
      BY <2>1, <2>2, RecordFields
    <3> QED
      BY <3>1, RecordFields, IsSegment, RequestsAre
  <2> HIDE DEF F
  <2>5. out \in [1..burst -> Requests]
    BY <2>4
  <2>6. out \in Seq(Requests)
    BY <2>2, <2>5, IsASeq
  <2> HIDE DEF q, out
  <2>7. q \in Records
    BY <2>1, <2>2, <2>3, RecordFields DEF Records
  <2> QED
    BY <2>3, <2>6, <2>7, Remains
<1> HIDE DEF q, out, ending
<1> QED
  BY <1>1, <1>3, <1>4, Kept

\* The end of a block download.
LEMMA BlockDownloadEndAnswers ==
  ASSUME NEW p \in Records, NEW m \in Responses
  PROVE  Answers(p, OnBlockDownloadEnding(p, m))
  BY Kept, WriteEnds DEF OnBlockDownloadEnding

\* The start of a block upload.
LEMMA BlockUploadInitAnswers ==
  ASSUME NEW p \in Records, NEW m \in Responses
  PROVE  Answers(p, OnBlockUploadInitiating(p, m))
<1> DEFINE q == [p EXCEPT !.st = "buProg", !.crc = m.crc, !.exp = 1, !.buf = <<>>, !.active = 0]
<1>1. ASSUME m.cs = "buInit" PROVE Answers(p, GoOn(q, <<BlockStart>>))
  <2>1. m.crc \in BOOLEAN /\ 0 \in Ages /\ 1 \in 1..MaxBlk /\ <<>> \in Data
    BY <1>1, ResponseFields, PendingConstantsOK DEF Ages, Data
  <2>2. q \in Records /\ q.node = p.node
    BY <2>1, RecordFields DEF Records, Slots, States
  <2>3. BlockStart \in Requests
    BY RequestsAre
  <2> HIDE DEF q
  <2> QED
    BY <2>2, <2>3, Remains, Singles
<1>2. OnBlockUploadInitiating(p, m) = IF m.cs # "buInit" THEN Keep(p) ELSE GoOn(q, <<BlockStart>>)
  BY DEF OnBlockUploadInitiating
<1> HIDE DEF q
<1> QED
  BY <1>1, <1>2, Kept

\* The segments of a block upload.
LEMMA BlockUploadAnswers ==
  ASSUME NEW p \in Records, NEW m \in Responses, NEW ok \in BOOLEAN
  PROVE  Answers(p, OnBlockUploadInProgress(p, m, ok))
<1> DEFINE buf == p.buf \o m.dat
           q == [p EXCEPT !.buf = buf, !.active = 0]
           wait == [q EXCEPT !.exp = IF @ = MaxBlk THEN 1 ELSE @ + 1]
           block == [q EXCEPT !.st = IF m.last THEN "buEnd" ELSE @, !.exp = 1]
           off == m.cs # "buSeg" \/ m.seq # p.exp
           full == Len(p.buf) + 1 > MaxBuffer
           more == ~m.last /\ p.exp < BlockSize
<1>1. OnBlockUploadInProgress(p, m, ok) =
        IF off THEN Done(Aborted(p.node, p.obj, "read", "sequence"))
        ELSE IF full THEN [Done(Aborted(p.node, p.obj, "read", "memory")) EXCEPT !.scan = FALSE]
        ELSE IF more THEN GoOn(wait, <<>>)
        ELSE IF ~ok THEN SendFailed(p)
        ELSE GoOn(block, <<BlockAck(m.seq)>>)
  BY DEF OnBlockUploadInProgress
<1>2. ASSUME ~off PROVE Answers(p, GoOn(wait, <<>>)) /\ Answers(p, GoOn(block, <<BlockAck(m.seq)>>))
  <2>1. buf \in Data /\ 0 \in Ages /\ m.seq \in Nat
    BY <1>2, ResponseFields, RecordFields, ConcatProperties, PendingConstantsOK DEF Ages, Data
  <2>2. 1 \in 1..MaxBlk /\ (IF p.exp = MaxBlk THEN 1 ELSE p.exp + 1) \in 1..MaxBlk
    BY RecordFields, PendingConstantsOK
  <2> HIDE DEF buf
  <2>3. q \in Records /\ q.node = p.node /\ q.exp = p.exp
    BY <2>1, RecordFields DEF Records, Slots
  <2> HIDE DEF q
  <2>4. wait \in Records /\ wait.node = p.node
    BY <2>2, <2>3, RecordFields DEF Records, Slots
  <2>5. block \in Records /\ block.node = p.node
    BY <2>2, <2>3, RecordFields DEF Records, Slots, States
  <2>6. <<>> \in Seq(Requests) /\ BlockAck(m.seq) \in Requests
    BY <2>1, RequestsAre
  <2> HIDE DEF wait, block
  <2> QED
    BY <2>4, <2>5, <2>6, Remains, Singles
<1>3. \A c \in {"sequence", "memory"} : c \in Codes
  BY DEF Codes
<1> HIDE DEF buf, q, wait, block, off, full, more
<1> QED
  BY <1>1, <1>2, <1>3, ReadAborts, SendFails

\* The end of a block upload.
LEMMA BlockUploadEndAnswers ==
  ASSUME NEW p \in Records, NEW m \in Responses
  PROVE  Answers(p, OnBlockUploadEnding(p, m))
<1> DEFINE e == Read(p.node, p.obj, p.buf)
<1>1. e \in Events /\ e.node = p.node /\ e.kind = "sdo"
  BY RecordFields, EventsAre
<1>2. "crc" \in Codes
  BY DEF Codes
<1>3. OnBlockUploadEnding(p, m) =
        IF m.cs # "buEnd" THEN Keep(p)
        ELSE IF p.crc /\ m.sum # BufferSum(p.buf) THEN Done(Aborted(p.node, p.obj, "read", "crc"))
        ELSE [Done(e) EXCEPT !.out = <<BlockEndAck>>]
  BY DEF OnBlockUploadEnding
<1> HIDE DEF e
<1> QED
  BY <1>1, <1>2, <1>3, Kept, ReadAborts, Finishes

\* Every response is answered, whatever the state of the transfer.
LEMMA ResponseAnswers ==
  ASSUME NEW p \in Records, NEW m \in Responses, NEW ok \in BOOLEAN
  PROVE  Answers(p, OnResponse(p, m, ok))
<1>1. CASE m.cs = "abort"
  BY <1>1, AbortAnswers DEF OnResponse
<1>2. CASE m.cs # "abort"
  <2>1. OnResponse(p, m, ok) \in
          {OnWaiting(p, m), OnUploadSegmented(p, m), OnDownloadSegmented(p, m),
           OnBlockDownloadInitiating(p, m, ok), OnBlockDownloadInProgress(p, m),
           OnBlockDownloadEnding(p, m), OnBlockUploadInitiating(p, m),
           OnBlockUploadInProgress(p, m, ok), OnBlockUploadEnding(p, m)}
    BY <1>2, RecordFields DEF OnResponse, States
  <2> QED
    BY <2>1, WaitingAnswers, UploadAnswers, DownloadAnswers, BlockDownloadInitAnswers,
       BlockDownloadAnswers, BlockDownloadEndAnswers, BlockUploadInitAnswers, BlockUploadAnswers,
       BlockUploadEndAnswers
<1> QED
  BY <1>1, <1>2

\* A command begins with a request and a record of its node.
LEMMA StartIs ==
  ASSUME NEW c \in Asks, NEW without
  PROVE  /\ Start(c, without).p \in Records /\ Start(c, without).p.node = c.node
         /\ Start(c, without).out \in Requests
<1>1. /\ c.node \in Nodes /\ c.obj \in Objects /\ c.dir \in {"read", "write"}
      /\ Segs[c.obj] \in Nat /\ BlockSize \in Nat
  BY ServerConstantsOK, PendingConstantsOK DEF Asks
<1>2. /\ "read" \in Directions /\ "write" \in Directions
      /\ {"buInit", "wait", "bdInit", "dlSeg"} \subseteq States
  BY DEF Directions, States
<1>3. CASE c.dir = "read" /\ UseBlock(c, without)
  BY <1>1, <1>2, <1>3, EntryIs, RequestsAre DEF Start
<1>4. CASE c.dir = "read" /\ ~UseBlock(c, without)
  BY <1>1, <1>2, <1>4, EntryIs, RequestsAre DEF Start
<1>5. CASE c.dir = "write" /\ Segs[c.obj] = 0
  BY <1>1, <1>2, <1>5, EntryIs, RequestsAre DEF Start
<1>6. CASE c.dir = "write" /\ Segs[c.obj] > 0 /\ UseBlock(c, without)
  BY <1>1, <1>2, <1>6, EntryIs, RequestsAre DEF Start
<1>7. CASE c.dir = "write" /\ Segs[c.obj] > 0 /\ ~UseBlock(c, without)
  BY <1>1, <1>2, <1>7, EntryIs, RequestsAre DEF Start
<1> QED
  BY <1>1, <1>3, <1>4, <1>5, <1>6, <1>7

\* What is decoded without a transfer is reported of the node that sent it.
LEMMA PassiveIs ==
  ASSUME NEW n \in Nodes, NEW m \in Responses
  PROVE  Passive(n, m) = <<>> \/ \E e \in Events : e.node = n /\ e.kind = "sdo" /\ Passive(n, m) = <<e>>
<1>1. CASE m.cs = "ulX"
  BY <1>1, ResponseFields, EventsAre DEF Passive
<1>2. CASE m.cs = "dlAck"
  BY <1>2, ResponseFields, EventsAre DEF Passive
<1>3. CASE m.cs = "abort"
  BY <1>3, ResponseFields, EventsAre DEF Passive, Directions
<1>4. CASE m.cs \notin {"ulX", "dlAck", "abort"}
  BY <1>4 DEF Passive
<1> QED
  BY <1>1, <1>2, <1>3, <1>4

-----------------------------------------------------------------------------
(* The timeout scan                                                        *)

\* A finite set in some order is a sequence of its elements, of all of them.
LEMMA SetInOrder ==
  ASSUME NEW S, IsFiniteSet(S)
  PROVE  /\ SetToSeq(S) \in Seq(S)
         /\ \A e \in S : \E i \in 1..Len(SetToSeq(S)) : SetToSeq(S)[i] = e
<1> DEFINE c == Cardinality(S)
           q == SetToSeq(S)
<1>1. c \in Nat /\ ExistsBijection(1..c, S)
  BY FS_CardinalityType
<1>2. PICK f \in [1..c -> S] : IsInjective(f)
  BY <1>1 DEF ExistsBijection, Bijection, Injection
<1>3. q = CHOOSE g \in [1..c -> S] : IsInjective(g)
  BY DEF SetToSeq
<1> HIDE DEF c, q
<1>4. q \in [1..c -> S] /\ IsInjective(q)
  BY <1>2, <1>3, Zenon
<1>5. q \in Seq(S) /\ Len(q) = c
  BY <1>1, <1>4, IsASeq, LenProperties
<1>6. q \in Injection(1..c, S)
  BY <1>4 DEF Injection
<1>7. IsFiniteSet(1..c) /\ Cardinality(1..c) = c
  BY <1>1, FS_Interval
<1>8. q \in Surjection(1..c, S)
  BY <1>6, <1>7, FS_Injection DEF c
<1>9. \A e \in S : \E i \in 1..c : q[i] = e
  BY <1>8 DEF Surjection
<1> QED
  BY <1>5, <1>9 DEF q

\* An entry of the table is empty or a record of its node.
LEMMA EntryOfTable ==
  ASSUME NEW t \in Tables, NEW n \in Nodes
  PROVE  /\ t[n] \in Entries(n)
         /\ t[n] # None => t[n][1] \in Records /\ t[n][1].node = n /\ t[n] = <<t[n][1]>>
  BY DEF Tables, Entries, None

\* A table in which one entry is replaced.
LEMMA ReplacedEntry ==
  ASSUME NEW t \in Tables, NEW n \in Nodes, NEW e \in Entries(n)
  PROVE  [t EXCEPT ![n] = e] \in Tables
<1> DEFINE t1 == [t EXCEPT ![n] = e]
<1>1. t \in [Nodes -> UNION {Entries(k) : k \in Nodes}] /\ \A k \in Nodes : t[k] \in Entries(k)
  BY DEF Tables
<1>2. \A k \in Nodes : t1[k] \in Entries(k)
  BY <1>1
<1>3. t1 \in [Nodes -> UNION {Entries(k) : k \in Nodes}]
  BY <1>1, <1>2
<1> QED
  BY <1>2, <1>3 DEF Tables

\* A table that is computed entry by entry.
LEMMA TableOf ==
  ASSUME NEW t, t \in [Nodes -> UNION {Entries(k) : k \in Nodes}], \A n \in Nodes : t[n] \in Entries(n)
  PROVE  t \in Tables
  BY DEF Tables

\* The scan leaves a table, without the records that are overdue.
LEMMA ScannedIs ==
  ASSUME NEW t \in Tables
  PROVE  /\ Scanned(t) \in Tables
         /\ \A n \in Nodes : Scanned(t)[n] = IF n \in Overdue(t) THEN None ELSE t[n]
         /\ \A n \in Overdue(t) : n \in Nodes /\ t[n] # None
<1>1. \A n \in Nodes : Scanned(t)[n] = IF n \in Overdue(t) THEN None ELSE t[n]
  BY DEF Scanned
<1>2. \A n \in Nodes : t[n] \in Entries(n) /\ None \in Entries(n)
  BY DEF Tables, Entries
<1>3. Scanned(t) \in [Nodes -> UNION {Entries(k) : k \in Nodes}]
  BY <1>2 DEF Scanned
<1> QED
  BY <1>1, <1>2, <1>3, TableOf DEF Overdue

\* It reports the end of every overdue transfer and of no other.
LEMMA TimeoutsAre ==
  ASSUME NEW t \in Tables
  PROVE  /\ TimeoutEvents(t) \in Seq(Events)
         /\ \A i \in 1..Len(TimeoutEvents(t)) :
              TimeoutEvents(t)[i].node \in Overdue(t) /\ TimeoutEvents(t)[i].kind = "sdo"
              /\ TimeoutEvents(t)[i].code = "timeout"
         /\ \A n \in Overdue(t) : \E i \in 1..Len(TimeoutEvents(t)) : TimeoutEvents(t)[i].node = n
<1> DEFINE F(n) == Aborted(n, t[n][1].obj, t[n][1].dir, "timeout")
           E == {F(n) : n \in Overdue(t)}
           q == TimeoutEvents(t)
<1>1. q = SetToSeq(E)
  BY DEF TimeoutEvents
<1>2. ASSUME NEW n \in Overdue(t)
      PROVE  F(n) \in Events /\ F(n).node = n /\ F(n).kind = "sdo" /\ F(n).code = "timeout"
  <2>1. n \in Nodes /\ t[n][1].obj \in Objects /\ t[n][1].dir \in Directions
    BY EntryOfTable, RecordFields DEF Overdue
  <2>2. F(n).code = "timeout"
    BY DEF Aborted, Entered
  <2> QED
    BY <2>1, <2>2, EventsAre DEF Codes
<1>3. IsFiniteSet(Overdue(t))
  BY FS_Subset, SessionConstantsOK DEF Overdue
<1> HIDE DEF F
<1>4. IsFiniteSet(E)
  <2> DEFINE f == [n \in Overdue(t) |-> F(n)]
  <2>1. f \in Surjection(Overdue(t), E)
    BY DEF Surjection
  <2> HIDE DEF f, E
  <2> QED
    BY <1>3, <2>1, FS_Surjection
<1>5. \A e \in E : e \in Events /\ e.node \in Overdue(t) /\ e.kind = "sdo" /\ e.code = "timeout"
  BY <1>2
<1>6. \A n \in Overdue(t) : \E e \in E : e.node = n
  BY <1>2
<1> HIDE DEF E, q
<1>7. q \in Seq(E) /\ \A e \in E : \E i \in 1..Len(q) : q[i] = e
  BY <1>1, <1>4, SetInOrder
<1>8. q \in Seq(Events)
  BY <1>5, <1>7, SeqMonotonic
<1>9. \A i \in 1..Len(q) : q[i] \in E
  BY <1>7, ElementOfSeq
<1>10. \A i \in 1..Len(q) : q[i].node \in Overdue(t) /\ q[i].kind = "sdo" /\ q[i].code = "timeout"
  BY <1>5, <1>9
<1>11. \A n \in Overdue(t) : \E i \in 1..Len(q) : q[i].node = n
  BY <1>6, <1>7
<1> QED
  BY <1>8, <1>10, <1>11 DEF q

-----------------------------------------------------------------------------
(* Types                                                                   *)

\* The rest of a queue.
LEMMA TailIs ==
  ASSUME NEW S, NEW q \in Seq(S), q # <<>>
  PROVE  Tail(q) \in Seq(S) /\ Head(q) \in S
  BY HeadTailProperties

\* What gets out of the frames of a handler are the first of them.
LEMMA GetsOutIs ==
  ASSUME NEW q \in Seq(Requests), NEW ok \in BOOLEAN, NEW out \in GetsOut(q, ok)
  PROVE  out \in Seq(Requests)
<1>1. CASE ok
  BY <1>1 DEF GetsOut
<1>2. CASE ~ok
  <2>1. ASSUME NEW k \in 1..(Len(q) - 1) PROVE SubSeq(q, 1, k) \in Seq(Requests)
    <3>1. Len(q) \in Nat /\ \A i \in 1..Len(q) : q[i] \in Requests
      BY LenProperties, ElementOfSeq
    <3>2. 1 \in Int /\ k \in Int /\ \A i \in 1..k : q[i] \in Requests
      BY <3>1
    <3> QED
      BY <3>2, SubSeqProperties
  <2>2. <<>> \in Seq(Requests)
    OBVIOUS
  <2> QED
    BY <1>2, <2>1, <2>2 DEF GetsOut
<1> QED
  BY <1>1, <1>2

\* What a node sends arrives as responses of that node.
LEMMA ArrivesTyped ==
  ASSUME Typed, NEW n \in Nodes, NEW out \in Seq(Responses), Arrive(n, out)
  PROVE  rsps' \in Seq([node : Nodes, rsp : Responses])
<1> DEFINE S == [node : Nodes, rsp : Responses]
           q == [i \in DOMAIN out |-> [node |-> n, rsp |-> out[i]]]
<1>1. Len(out) \in Nat /\ DOMAIN out = 1..Len(out) /\ \A i \in 1..Len(out) : out[i] \in Responses
  BY LenProperties, ElementOfSeq
<1>2. q \in [1..Len(out) -> S]
  BY <1>1
<1>3. q \in Seq(S)
  BY <1>1, <1>2, IsASeq
<1>4. rsps \in Seq(S)
  BY DEF Typed
<1>5. rsps' = IF link = "up" THEN rsps \o q ELSE rsps
  BY DEF Arrive
<1> HIDE DEF q, S
<1>6. rsps \o q \in Seq(S)
  BY <1>3, <1>4, ConcatProperties
<1> QED
  BY <1>4, <1>5, <1>6 DEF S

\* A refused send is one more.
LEMMA FaultTyped ==
  ASSUME Typed, SendFault, world' = world
  PROVE  faults' \in 0..world'.maxFaults /\ UNCHANGED <<losses, unplugs>>
<1>1. world.maxFaults \in Nat
  BY SessionConstantsOK DEF Typed, World
<1> QED
  BY <1>1 DEF Typed, SendFault

\* Commands are those of the world.
LEMMA CommandsAre ==
  ASSUME Typed
  PROVE  /\ world \in World /\ world.commands \subseteq Asks
         /\ world.maxFaults \in Nat /\ world.maxLoss \in Nat /\ world.maxUnplug \in Nat
         /\ world.batch \in Nat \ {0}
  BY SessionConstantsOK DEF Typed, World

\* The initial state is well typed.
LEMMA InitTyped == Init => Typed
<1> SUFFICES ASSUME Init PROVE Typed
  OBVIOUS
<1>1. world \in World /\ world \in Worlds
  BY SessionConstantsOK DEF Init
<1>2. world.maxFaults \in Nat /\ world.maxLoss \in Nat /\ world.maxUnplug \in Nat
  BY <1>1 DEF World
<1>3. pending \in Tables
  <2>1. \A n \in Nodes : None \in Entries(n)
    BY DEF Entries
  <2>2. pending = [n \in Nodes |-> None]
    BY DEF Init
  <2>3. pending \in [Nodes -> UNION {Entries(k) : k \in Nodes}] /\ \A n \in Nodes : pending[n] \in Entries(n)
    BY <2>1, <2>2
  <2> QED
    BY <2>3, TableOf
<1>4. srv \in [Nodes -> Servers]
  <2>1. IdleServer({}) \in Servers
    BY FreshServers
  <2> QED
    BY <2>1 DEF Init
<1>5. reqs \in [Nodes -> Seq(Requests)]
  BY DEF Init
<1>6. /\ cmds \in Seq(world.commands) /\ events \in Seq(Events)
      /\ rsps \in Seq([node : Nodes, rsp : Responses])
  BY DEF Init
<1> QED
  BY <1>1, <1>2, <1>3, <1>4, <1>5, <1>6 DEF Init, Typed

\* The response at the head is of a node; its record, if there is one, is its own.
LEMMA HeadResponse ==
  ASSUME Typed, rsps # <<>>
  PROVE  /\ Head(rsps).node \in Nodes /\ Head(rsps).rsp \in Responses
         /\ Tail(rsps) \in Seq([node : Nodes, rsp : Responses])
<1>1. Head(rsps) \in [node : Nodes, rsp : Responses]
      /\ Tail(rsps) \in Seq([node : Nodes, rsp : Responses])
  BY TailIs DEF Typed
<1> QED
  BY <1>1

\* A response of n has the outcome r, which puts tbl in the place of the table.
Handled(n, r, tbl) ==
  /\ pending[n] # None /\ Answers(pending[n][1], r)
  /\ tbl = [pending EXCEPT ![n] = r.next]
  /\ pending' = IF r.scan THEN Scanned(tbl) ELSE tbl
  /\ events' = events \o r.ev \o (IF r.scan THEN TimeoutEvents(tbl) ELSE <<>>)
  /\ \E out \in Seq(Requests) : reqs' = [reqs EXCEPT ![n] = @ \o out]
  /\ noBlock' \subseteq noBlock \cup {n}
  /\ UNCHANGED mishaps \/ SendFault

\* What the handling of a response comes to.
LEMMA RespondDoes ==
  ASSUME Typed, Respond
  PROVE  \E n \in Nodes : \E r : \E tbl \in Tables : Handled(n, r, tbl)
<1> DEFINE n == Head(rsps).node
           m == Head(rsps).rsp
           p == pending[n][1]
<1>1. rsps # <<>> /\ pending[n] # None /\ n \in Nodes /\ m \in Responses
  BY HeadResponse DEF Respond
<1>2. p \in Records /\ p.node = n
  BY <1>1, EntryOfTable DEF Typed
<1>3. PICK ok \in BOOLEAN :
        LET r == OnResponse(p, m, ok)
            tbl == [pending EXCEPT ![n] = r.next]
        IN /\ IF ok THEN UNCHANGED mishaps ELSE SendFault /\ OnResponse(p, m, TRUE).out # <<>>
           /\ \E out \in GetsOut(r.out, ok) : reqs' = [reqs EXCEPT ![n] = @ \o out]
           /\ pending' = IF r.scan THEN Scanned(tbl) ELSE tbl
           /\ events' = events \o r.ev \o (IF r.scan THEN TimeoutEvents(tbl) ELSE <<>>)
           /\ noBlock' = IF m.cs = "abort" /\ FallsBack(p, m) THEN noBlock \cup {n} ELSE noBlock
  BY DEF Respond
<1> DEFINE r == OnResponse(p, m, ok)
           tbl == [pending EXCEPT ![n] = r.next]
<1> HIDE DEF n, m, p
<1>4. Answers(p, r)
  BY <1>1, <1>2, ResponseAnswers
<1> HIDE DEF r
<1>5. r.next \in Entries(n)
  BY <1>2, <1>4 DEF Answers, Entries
<1>6. tbl \in Tables
  BY <1>1, <1>5, ReplacedEntry DEF Typed
<1>7. \E out \in Seq(Requests) : reqs' = [reqs EXCEPT ![n] = @ \o out]
  <2>1. PICK out \in GetsOut(r.out, ok) : reqs' = [reqs EXCEPT ![n] = @ \o out]
    BY <1>3 DEF r
  <2>2. out \in Seq(Requests)
    BY <1>4, GetsOutIs DEF Answers
  <2> QED
    BY <2>1, <2>2
<1>8. /\ pending' = IF r.scan THEN Scanned(tbl) ELSE tbl
      /\ events' = events \o r.ev \o (IF r.scan THEN TimeoutEvents(tbl) ELSE <<>>)
      /\ noBlock' \subseteq noBlock \cup {n}
      /\ UNCHANGED mishaps \/ SendFault
  BY <1>3 DEF r
<1> HIDE DEF tbl
<1>9. tbl = [pending EXCEPT ![n] = r.next] /\ pending[n] # None /\ Answers(pending[n][1], r)
  BY <1>1, <1>4 DEF tbl, n, p
<1>10. Handled(n, r, tbl)
  BY <1>7, <1>8, <1>9 DEF Handled
<1> QED
  BY <1>1, <1>6, <1>10

\* The events of a response and of the scan after it are events.
LEMMA ReportsTyped ==
  ASSUME Typed, NEW tbl \in Tables, NEW ev \in Seq(Events), NEW scan \in BOOLEAN
  PROVE  /\ events \o ev \o (IF scan THEN TimeoutEvents(tbl) ELSE <<>>) \in Seq(Events)
         /\ (IF scan THEN Scanned(tbl) ELSE tbl) \in Tables
<1>1. events \o ev \in Seq(Events) /\ <<>> \in Seq(Events) /\ TimeoutEvents(tbl) \in Seq(Events)
  BY ConcatProperties, TimeoutsAre DEF Typed
<1>2. (events \o ev) \o TimeoutEvents(tbl) \in Seq(Events) /\ (events \o ev) \o <<>> \in Seq(Events)
  BY <1>1, ConcatProperties
<1> QED
  BY <1>2, ScannedIs

\* Commands.
LEMMA AskTyped == Typed /\ Ask => Typed'
<1> SUFFICES ASSUME Typed, Ask PROVE Typed'
  OBVIOUS
<1>1. PICK n \in Nodes, k \in 1..world.batch :
        \E batch \in [1..k -> {c \in world.commands \ asked : c.node = n}] :
          /\ asked' = asked \cup {batch[i] : i \in 1..k} /\ cmds' \in {cmds \o batch, Tail(batch)}
          /\ UNCHANGED <<shown, answered, events, session, link, bus, srv, losses, faults, unplugs, world>>
  BY DEF Ask
<1>2. PICK batch \in [1..k -> {c \in world.commands \ asked : c.node = n}] :
        /\ asked' = asked \cup {batch[i] : i \in 1..k} /\ cmds' \in {cmds \o batch, Tail(batch)}
        /\ UNCHANGED <<shown, answered, events, session, link, bus, srv, losses, faults, unplugs, world>>
  BY <1>1
<1>3. k \in Nat /\ batch \in [1..k -> world.commands]
  BY CommandsAre
<1>4. batch \in Seq(world.commands) /\ \A i \in 1..k : batch[i] \in world.commands
  BY <1>3, IsASeq
<1>5. batch # <<>>
  <2>1. Len(batch) = k /\ k # 0
    BY <1>3
  <2> QED
    BY <2>1
<1>6. cmds' \in Seq(world.commands)
  <2>1. Tail(batch) \in Seq(world.commands)
    BY <1>4, <1>5, TailIs
  <2>2. cmds \in Seq(world.commands)
    BY DEF Typed
  <2>3. cmds \o batch \in Seq(world.commands)
    BY <1>4, <2>2, ConcatProperties
  <2> QED
    BY <1>2, <2>1, <2>3
<1> QED
  BY <1>2, <1>4, <1>6 DEF Typed, session, bus

\* A command.
LEMMA CommandTyped == Typed /\ Command => Typed'
<1> SUFFICES ASSUME Typed, Command PROVE Typed'
  OBVIOUS
<1> DEFINE c == Head(cmds)
           s == Start(c, noBlock)
<1>1. /\ cmds # <<>> /\ cmds' = Tail(cmds) /\ UNCHANGED <<frontEnd, noBlock, link, rsps, srv, world>>
      /\ \/ /\ pending' = [pending EXCEPT ![c.node] = <<s.p>>]
            /\ reqs' = [reqs EXCEPT ![c.node] = Append(@, s.out)]
            /\ events' = Append(events, Pending(c))
            /\ UNCHANGED mishaps
         \/ /\ SendFault
            /\ events' = Append(events, Aborted(c.node, c.obj, c.dir, "general"))
            /\ UNCHANGED <<session, reqs>>
  BY DEF Command
<1>2. c \in Asks /\ cmds' \in Seq(world.commands)
  BY <1>1, TailIs, CommandsAre DEF Typed
<1>3. s.p \in Records /\ s.p.node = c.node /\ s.out \in Requests
  BY <1>2, StartIs
<1>4. c.node \in Nodes /\ c.obj \in Objects /\ c.dir \in Directions
  BY <1>2 DEF Asks, Directions
<1>5. Pending(c) \in Events /\ Aborted(c.node, c.obj, c.dir, "general") \in Events
  <2>1. Pending(c) \in Events
    BY <1>4 DEF Pending, Events, Directions, Codes, Data
  <2> QED
    BY <1>4, <2>1, EventsAre DEF Codes
<1>6. events' \in Seq(Events)
  <2>1. Append(events, Pending(c)) \in Seq(Events)
        /\ Append(events, Aborted(c.node, c.obj, c.dir, "general")) \in Seq(Events)
    BY <1>5, AppendProperties DEF Typed
  <2> QED
    BY <1>1, <2>1
<1> HIDE DEF c, s
<1>7. CASE /\ pending' = [pending EXCEPT ![c.node] = <<s.p>>]
           /\ reqs' = [reqs EXCEPT ![c.node] = Append(@, s.out)]
           /\ UNCHANGED mishaps
  <2>1. <<s.p>> \in Entries(c.node)
    BY <1>3 DEF Entries
  <2>2. pending' \in Tables
    BY <1>4, <1>7, <2>1, ReplacedEntry DEF Typed
  <2>3. Append(reqs[c.node], s.out) \in Seq(Requests)
    BY <1>3, <1>4, AppendProperties DEF Typed
  <2>4. reqs' \in [Nodes -> Seq(Requests)]
    BY <1>7, <2>3 DEF Typed
  <2> QED
    BY <1>1, <1>2, <1>6, <1>7, <2>2, <2>4 DEF Typed, frontEnd, mishaps
<1>8. CASE SendFault /\ UNCHANGED <<session, reqs>>
  <2>1. faults' \in 0..world'.maxFaults /\ UNCHANGED <<losses, unplugs>>
    BY <1>1, <1>8, FaultTyped
  <2> QED
    BY <1>1, <1>2, <1>6, <1>8, <2>1 DEF Typed, frontEnd, session
<1> QED
  BY <1>1, <1>7, <1>8

\* A response.
LEMMA RespondTyped == Typed /\ Respond => Typed'
<1> SUFFICES ASSUME Typed, Respond PROVE Typed'
  OBVIOUS
<1>a. \E n \in Nodes : \E r : \E tbl \in Tables : Handled(n, r, tbl)
  BY RespondDoes
<1>b. PICK n \in Nodes : \E r : \E tbl \in Tables : Handled(n, r, tbl)
  BY <1>a
<1>c. PICK r : \E tbl \in Tables : Handled(n, r, tbl)
  BY <1>b
<1>1. PICK tbl \in Tables : Handled(n, r, tbl)
  BY <1>c
<1>2. r.scan \in BOOLEAN /\ r.ev \in Seq(Events)
  <2>1. r.ev = <<>> \/ \E e \in Events : r.ev = <<e>>
    BY <1>1 DEF Handled, Answers
  <2>2. <<>> \in Seq(Events)
    OBVIOUS
  <2> QED
    BY <1>1, <2>1, <2>2, Singles DEF Handled, Answers
<1>3. events' \in Seq(Events) /\ pending' \in Tables
  BY <1>1, <1>2, ReportsTyped DEF Handled
<1>4. reqs' \in [Nodes -> Seq(Requests)]
  <2>1. PICK out \in Seq(Requests) : reqs' = [reqs EXCEPT ![n] = @ \o out]
    BY <1>1 DEF Handled
  <2>2. reqs[n] \o out \in Seq(Requests)
    BY ConcatProperties DEF Typed
  <2> QED
    BY <2>1, <2>2 DEF Typed
<1>5. rsps' \in Seq([node : Nodes, rsp : Responses]) /\ UNCHANGED <<frontEnd, cmds, link, srv, world>>
  BY HeadResponse DEF Respond
<1>6. /\ losses' \in 0..world'.maxLoss /\ faults' \in 0..world'.maxFaults
      /\ unplugs' \in 0..world'.maxUnplug
  BY <1>1, <1>5, FaultTyped DEF Handled, Typed, mishaps
<1>7. noBlock' \subseteq Nodes
  BY <1>1 DEF Handled, Typed
<1> QED
  BY <1>3, <1>4, <1>5, <1>6, <1>7 DEF Typed, frontEnd

\* A response of a node without a transfer, and any other frame.
LEMMA OverhearTyped == Typed /\ (Overhear \/ OtherFrame) => Typed'
<1> SUFFICES ASSUME Typed, Overhear \/ OtherFrame PROVE Typed'
  OBVIOUS
<1>1. pending \in Tables /\ Scanned(pending) \in Tables /\ TimeoutEvents(pending) \in Seq(Events)
  BY ScannedIs, TimeoutsAre DEF Typed
<1>2. CASE Overhear
  <2> DEFINE ev == Passive(Head(rsps).node, Head(rsps).rsp)
  <2>1. rsps # <<>>
    BY <1>2 DEF Overhear
  <2>2. ev \in Seq(Events) /\ Tail(rsps) \in Seq([node : Nodes, rsp : Responses])
    <3>1. ev = <<>> \/ \E e \in Events : ev = <<e>>
      BY <2>1, HeadResponse, PassiveIs
    <3>2. <<>> \in Seq(Events)
      OBVIOUS
    <3> QED
      BY <2>1, <3>1, <3>2, HeadResponse, Singles
  <2>3. (events \o ev) \o TimeoutEvents(pending) \in Seq(Events)
    BY <1>1, <2>2, ConcatProperties DEF Typed
  <2> QED
    BY <1>1, <1>2, <2>2, <2>3 DEF Overhear, Typed, frontEnd, mishaps
<1>3. CASE OtherFrame
  <2>1. events \o TimeoutEvents(pending) \in Seq(Events)
    BY <1>1, ConcatProperties DEF Typed
  <2> QED
    BY <1>1, <1>3, <2>1 DEF OtherFrame, Typed, frontEnd, mishaps, bus
<1> QED
  BY <1>2, <1>3

\* The front-end takes an event.
LEMMA ApplyTyped == Typed /\ ApplyEvent => Typed'
<1> SUFFICES ASSUME Typed, ApplyEvent PROVE Typed'
  OBVIOUS
<1>1. Head(events) \in Events /\ Tail(events) \in Seq(Events)
  BY TailIs DEF ApplyEvent, Typed
<1>2. Head(events).node \in Nodes
  BY <1>1 DEF Events
<1>3. shown' \subseteq Nodes
  BY <1>2 DEF ApplyEvent, Typed
<1> QED
  BY <1>1, <1>3 DEF ApplyEvent, Typed, session, bus, mishaps

\* The adapter goes, comes back or fails.
LEMMA AdapterTyped == Typed /\ (Unplug \/ RecvError \/ Reopen \/ PollInVain \/ GiveUp) => Typed'
<1> SUFFICES ASSUME Typed, Unplug \/ RecvError \/ Reopen \/ PollInVain \/ GiveUp PROVE Typed'
  OBVIOUS
<1>1. world.maxUnplug \in Nat /\ unplugs \in 0..world.maxUnplug
  BY CommandsAre DEF Typed
<1>2. cmds # <<>> => Tail(cmds) \in Seq(world.commands)
  BY TailIs DEF Typed
<1>3. CASE Unplug
  <2>1. pending' \in Tables
    <3>1. \A n \in Nodes : None \in Entries(n)
      BY DEF Entries
    <3>2. pending' = [n \in Nodes |-> None]
      BY <1>3 DEF Unplug
    <3>3. /\ pending' \in [Nodes -> UNION {Entries(k) : k \in Nodes}]
          /\ \A n \in Nodes : pending'[n] \in Entries(n)
      BY <3>1, <3>2
    <3> QED
      BY <3>3, TableOf
  <2>2. unplugs' \in 0..world'.maxUnplug
    BY <1>1, <1>3 DEF Unplug
  <2>3. rsps' \in Seq([node : Nodes, rsp : Responses]) /\ noBlock' \subseteq Nodes
    BY <1>3 DEF Unplug
  <2> QED
    BY <1>3, <2>1, <2>2, <2>3 DEF Unplug, Typed, frontEnd
<1>4. CASE RecvError
  <2>1. /\ cmds' = Tail(cmds) /\ cmds # <<>>
        /\ unplugs < world.maxUnplug /\ unplugs' = unplugs + 1
        /\ UNCHANGED <<frontEnd, events, session, link, bus, srv, losses, faults, world>>
    BY <1>4 DEF RecvError, Swallow
  <2>2. unplugs' \in 0..world.maxUnplug
    BY <1>1, <2>1
  <2> QED
    BY <1>2, <2>1, <2>2 DEF Typed, frontEnd, session, bus
<1>5. CASE Reopen \/ PollInVain \/ GiveUp
  <2>1. cmds' \in Seq(world.commands)
    <3>1. cmds' = IF cmds = <<>> THEN <<>> ELSE Tail(cmds)
      BY <1>5 DEF Reopen, PollInVain, GiveUp, Swallow
    <3>2. <<>> \in Seq(world.commands)
      OBVIOUS
    <3> QED
      BY <1>2, <3>1, <3>2
  <2>2. /\ UNCHANGED <<frontEnd, events, session, bus, srv, losses, faults, unplugs, world>>
        /\ link' \in {"up", "down", "ended"}
    BY <1>5 DEF Reopen, PollInVain, GiveUp, Typed
  <2> QED
    BY <2>1, <2>2 DEF Typed, frontEnd, session, bus
<1> QED
  BY <1>3, <1>4, <1>5

\* A node.
LEMMA NodeTyped == Typed /\ NodeNext => Typed'
<1> SUFFICES ASSUME Typed, NEW n \in Nodes, NodeServe(n) \/ NodeStall(n) PROVE Typed'
  BY DEF NodeNext
<1>1. srv[n] \in Servers /\ reqs[n] \in Seq(Requests)
  BY DEF Typed
<1>2. CASE NodeServe(n)
  <2>1. reqs[n] # <<>> /\ reqs' = [reqs EXCEPT ![n] = Tail(@)]
        /\ UNCHANGED <<frontEnd, cmds, events, session, link, mishaps, world>>
    BY <1>2 DEF NodeServe
  <2>2. PICK r \in Serve(srv[n], Head(reqs[n]), world.kind[n]) :
          srv' = [srv EXCEPT ![n] = r.srv] /\ Arrive(n, r.out)
    BY <1>2 DEF NodeServe
  <2>3. Head(reqs[n]) \in Requests /\ Tail(reqs[n]) \in Seq(Requests)
    BY <1>1, <2>1, TailIs
  <2>4. r \in Reactions
    BY <1>1, <2>3, ServeReacts
  <2>5. r.srv \in Servers /\ r.out \in Seq(Responses)
    BY <2>4 DEF Reactions
  <2>6. rsps' \in Seq([node : Nodes, rsp : Responses])
    BY <2>2, <2>5, ArrivesTyped
  <2>7. reqs' \in [Nodes -> Seq(Requests)] /\ srv' \in [Nodes -> Servers]
    BY <2>1, <2>2, <2>3, <2>5 DEF Typed
  <2> QED
    BY <2>1, <2>6, <2>7 DEF Typed, frontEnd, session, mishaps
<1>3. CASE NodeStall(n)
  <2>1. ServeStall(srv[n]) \in Reactions
    <3>1. BlockEndAck \in Requests
      BY RequestsAre
    <3> QED
      BY <1>1, <3>1, BlockEndReacts
  <2>2. ServeStall(srv[n]).srv \in Servers /\ ServeStall(srv[n]).out \in Seq(Responses)
    BY <2>1 DEF Reactions
  <2>3. srv' = [srv EXCEPT ![n] = ServeStall(srv[n]).srv] /\ Arrive(n, ServeStall(srv[n]).out)
        /\ UNCHANGED <<frontEnd, cmds, events, session, link, reqs, mishaps, world>>
    BY <1>3 DEF NodeStall
  <2>4. rsps' \in Seq([node : Nodes, rsp : Responses])
    BY <2>2, <2>3, ArrivesTyped
  <2>5. srv' \in [Nodes -> Servers]
    BY <2>2, <2>3 DEF Typed
  <2> QED
    BY <2>3, <2>4, <2>5 DEF Typed, frontEnd, session, mishaps
<1> QED
  BY <1>2, <1>3

\* The bus loses a frame.
LEMMA LoseTyped == Typed /\ Lose => Typed'
<1> SUFFICES ASSUME Typed, Lose PROVE Typed'
  OBVIOUS
<1>1. losses' \in 0..world'.maxLoss
  BY CommandsAre DEF Lose, Typed
<1>2. reqs' \in [Nodes -> Seq(Requests)] /\ rsps' \in Seq([node : Nodes, rsp : Responses])
  <2>1. ASSUME NEW n \in Nodes, reqs[n] # <<>> PROVE Tail(reqs[n]) \in Seq(Requests)
    BY <2>1, TailIs DEF Typed
  <2>2. CASE \E n \in Nodes : reqs[n] # <<>> /\ reqs' = [reqs EXCEPT ![n] = Tail(@)] /\ UNCHANGED rsps
    BY <2>1, <2>2 DEF Typed
  <2>3. CASE rsps # <<>> /\ rsps' = Tail(rsps) /\ UNCHANGED reqs
    BY <2>3, HeadResponse DEF Typed
  <2> QED
    BY <2>2, <2>3 DEF Lose
<1> QED
  BY <1>1, <1>2 DEF Lose, Typed, frontEnd, session

\* Time passes.
LEMMA TickTyped == Typed /\ Tick => Typed'
<1> SUFFICES ASSUME Typed, Tick PROVE Typed'
  OBVIOUS
<1>1. ASSUME NEW a \in Ages PROVE Older(a) \in Ages
  BY PendingConstantsOK DEF Older, Ages
<1>2. ASSUME NEW q \in Records PROVE Aged(q) \in Records /\ Aged(q).node = q.node
  <2>1. Older(q.started) \in Ages /\ Older(q.active) \in Ages
    BY <1>1, RecordFields
  <2> QED
    BY <2>1, RecordFields DEF Aged, Records, Slots
<1>3. pending' = [n \in Nodes |-> IF pending[n] = None THEN None ELSE <<Aged(pending[n][1])>>]
  BY DEF Tick
<1>4. ASSUME NEW n \in Nodes PROVE pending'[n] \in Entries(n)
  <2>1. CASE pending[n] = None
    BY <1>3, <2>1 DEF Entries
  <2>2. CASE pending[n] # None
    <3>1. pending[n][1] \in Records /\ pending[n][1].node = n
      BY <2>2, EntryOfTable DEF Typed
    <3> QED
      BY <1>2, <1>3, <2>2, <3>1 DEF Entries
  <2> QED
    BY <2>1, <2>2
<1>5. pending' \in [Nodes -> UNION {Entries(k) : k \in Nodes}]
  BY <1>3, <1>4
<1>6. pending' \in Tables
  BY <1>4, <1>5, TableOf
<1> QED
  BY <1>6 DEF Tick, Typed, frontEnd, bus, mishaps

\* Every step keeps the variables well typed.
LEMMA NextTyped == Typed /\ [Next]_vars => Typed'
<1>1. Typed /\ UNCHANGED vars => Typed'
  BY DEF vars, frontEnd, session, bus, mishaps, Typed
<1> QED
  BY <1>1, AskTyped, CommandTyped, RespondTyped, OverhearTyped, ApplyTyped, AdapterTyped,
     NodeTyped, LoseTyped, TickTyped DEF Next, SessionNext

\* The types are those of the module.
LEMMA TypedIsTypeOK == Typed => TypeOK
<1> SUFFICES ASSUME Typed PROVE TypeOK
  OBVIOUS
<1>1. ASSUME NEW n \in Nodes, pending[n] # None
      PROVE  LET p == pending[n][1] IN
               /\ p.node = n /\ p.obj \in Objects /\ p.dir \in {"read", "write"} /\ p.st \in States
               /\ p.sent \in 0..SegCount(p.obj) /\ p.exp \in 1..MaxBlk
               /\ p.buf \in Seq(Segments) /\ {p.started, p.active} \subseteq Ages
  <2>1. pending[n][1] \in Records /\ pending[n][1].node = n
    BY <1>1, EntryOfTable DEF Typed
  <2> QED
    BY <2>1, RecordFields DEF Directions, Data
<1> QED
  BY <1>1 DEF Typed, TypeOK

\* In every session the variables have their types, and so has every record, request
\* and response, however transfers are overwritten, aborted or timed out.
THEOREM TypeCorrect == Spec => []TypeOK
<1>1. Spec => []Typed
  BY InitTyped, NextTyped, PTL DEF Spec
<1> QED
  BY <1>1, TypedIsTypeOK, PTL

-----------------------------------------------------------------------------
(* The indicator                                                           *)

\* Nothing in a queue is about node n.
Silent(q, n) == \A k \in 1..Len(q) : q[k].node # n

\* The last event about n in a queue.
IsLast(q, k, n) ==
  k \in 1..Len(q) /\ q[k].node = n /\ \A j \in 1..Len(q) : j > k => q[j].node # n

\* When the events of q have been applied to the nodes sh that are shown as pending,
\* n is shown exactly if it has a record in table t.
Tells(q, sh, t, n) ==
  /\ Silent(q, n) => (n \in sh <=> t[n] # None)
  /\ \A k \in 1..Len(q) : IsLast(q, k, n) => (q[k].kind = "pending" <=> t[n] # None)

\* The events ev are what there is to tell about n when table u replaces t.
Reported(ev, t, u, n) ==
  /\ Silent(ev, n) => (t[n] # None <=> u[n] # None)
  /\ \A k \in 1..Len(ev) : ev[k].node = n => (ev[k].kind = "pending" <=> u[n] # None)

\* Where no command overlaps another, the one under way is for a node without a record.
Alone ==
  OneAtATime => cmds = <<>> \/ \E c \in world.commands : cmds = <<c>> /\ pending[c.node] = None

Settled == unplugs = 0 /\ (faults = 0 \/ OneAtATime)
IndicatorInv == Alone /\ (Settled => \A n \in Nodes : Tells(events, shown, pending, n))

\* A set of positions of a queue has a greatest one.
LEMMA Greatest ==
  ASSUME NEW m \in Nat, NEW I \in SUBSET (1..m), I # {}
  PROVE  \E i \in I : \A j \in I : j <= i
<1> DEFINE R == OpToRel(<, Nat)
           T == {m - k : k \in I}
<1> HIDE DEF R
<1>1. T \subseteq Nat /\ T # {}
  <2>1. ASSUME NEW k \in I PROVE m - k \in Nat
    OBVIOUS
  <2>2. PICK k \in I : TRUE
    OBVIOUS
  <2>3. m - k \in T
    OBVIOUS
  <2> QED
    BY <2>1, <2>3
<1>2. PICK x \in T : \A y \in T : ~ (<<y, x>> \in R)
  <2> HIDE DEF T
  <2> QED
    BY <1>1, NatLessThanWellFounded, WFMin DEF R
<1>3. ASSUME NEW y \in Nat, NEW z \in Nat, y < z
      PROVE  <<y, z>> \in R
  BY <1>3, Zenon DEF R, OpToRel
<1>4. PICK i \in I : x = m - i
  OBVIOUS
<1>5. ASSUME NEW j \in I PROVE j <= i
  <2>1. ~ (<<m - j, x>> \in R)
    BY <1>2
  <2>2. ~ (m - j < x)
    BY <2>1, <1>1, <1>3
  <2> QED
    BY <2>2, <1>4
<1> QED
  BY <1>5

\* What the front-end will show of n is what the last event about it says.
LEMMA WillShowIs ==
  ASSUME Typed, NEW n \in Nodes, Tells(events, shown, pending, n)
  PROVE  WillShow(n) <=> pending[n] # None
<1> DEFINE about == {i \in DOMAIN events : events[i].node = n}
<1>1. Len(events) \in Nat /\ DOMAIN events = 1..Len(events)
  BY LenProperties DEF Typed
<1>2. CASE about = {}
  <2>1. Silent(events, n)
    BY <1>1, <1>2 DEF Silent
  <2> QED
    BY <1>2, <2>1 DEF WillShow, Tells
<1>3. CASE about # {}
  <2> DEFINE k == CHOOSE i \in about : \A j \in about : j <= i
  <2>1. \E i \in about : \A j \in about : j <= i
    BY <1>1, <1>3, Greatest
  <2>2. k \in about /\ \A j \in about : j <= k
    <3> HIDE DEF about
    <3> QED
      BY <2>1, Zenon
  <2>3. WillShow(n) <=> events[k].kind = "pending"
    BY <1>3 DEF WillShow
  <2> HIDE DEF k
  <2>4. k \in 1..Len(events) /\ events[k].node = n
    BY <1>1, <2>2
  <2>5. ASSUME NEW j \in 1..Len(events), j > k PROVE events[j].node # n
    BY <1>1, <2>2, <2>4, <2>5
  <2>6. IsLast(events, k, n)
    BY <2>4, <2>5 DEF IsLast
  <2> QED
    BY <2>3, <2>4, <2>6 DEF Tells
<1> QED
  BY <1>2, <1>3

\* Events that report a change of the table keep the indicator true.
LEMMA ReportsTell ==
  ASSUME NEW q \in Seq(Events), NEW ev \in Seq(Events), NEW sh, NEW t, NEW u, NEW n,
         Tells(q, sh, t, n), Reported(ev, t, u, n)
  PROVE  Tells(q \o ev, sh, u, n)
<1> DEFINE a == q \o ev
<1>1. /\ Len(q) \in Nat /\ Len(ev) \in Nat /\ Len(a) = Len(q) + Len(ev)
      /\ \A k \in 1..Len(q) : a[k] = q[k]
      /\ \A k \in 1..Len(ev) : a[Len(q) + k] = ev[k]
  BY ConcatProperties, LenProperties
<1> HIDE DEF a
<1>2. ASSUME NEW k \in 1..Len(a), k > Len(q)
      PROVE  k - Len(q) \in 1..Len(ev) /\ a[k] = ev[k - Len(q)]
  <2>1. k - Len(q) \in 1..Len(ev) /\ Len(q) + (k - Len(q)) = k
    BY <1>1, <1>2
  <2> QED
    BY <1>1, <2>1
<1>3. CASE Silent(ev, n)
  <2>1. Silent(a, n) => Silent(q, n)
    BY <1>1 DEF Silent
  <2>2. ASSUME NEW k \in 1..Len(a), IsLast(a, k, n) PROVE k \in 1..Len(q) /\ IsLast(q, k, n) /\ a[k] = q[k]
    <3>1. ~(k > Len(q))
      BY <1>2, <1>3, <2>2 DEF Silent, IsLast
    <3>2. k \in 1..Len(q)
      BY <1>1, <3>1
    <3> QED
      BY <1>1, <2>2, <3>2 DEF IsLast
  <2> QED
    BY <1>3, <2>1, <2>2 DEF Tells, Reported, a
<1>4. CASE ~Silent(ev, n)
  <2>1. PICK j \in 1..Len(ev) : ev[j].node = n
    BY <1>4 DEF Silent
  <2>2. Len(q) + j \in 1..Len(a) /\ a[Len(q) + j].node = n /\ Len(q) + j > Len(q)
    BY <1>1, <2>1
  <2>3. ~Silent(a, n)
    BY <2>2 DEF Silent
  <2>4. ASSUME NEW k \in 1..Len(a), IsLast(a, k, n) PROVE a[k].kind = "pending" <=> u[n] # None
    <3>1. a[k].node = n /\ ~(Len(q) + j > k)
      BY <2>2, <2>4 DEF IsLast
    <3>2. k > Len(q)
      BY <1>1, <3>1
    <3>3. k - Len(q) \in 1..Len(ev) /\ a[k] = ev[k - Len(q)]
      BY <1>2, <3>2
    <3> QED
      BY <3>1, <3>3 DEF Reported
  <2> QED
    BY <2>3, <2>4 DEF Tells, a
<1> QED
  BY <1>3, <1>4

\* An event that is applied is told by the indicator itself.
LEMMA AppliedTells ==
  ASSUME NEW q \in Seq(Events), q # <<>>, NEW sh, NEW t, NEW n, Tells(q, sh, t, n)
  PROVE  Tells(Tail(q), IF Head(q).kind = "pending" THEN sh \cup {Head(q).node} ELSE sh \ {Head(q).node}, t, n)
<1> DEFINE a == Tail(q)
           e == Head(q)
           sh1 == IF e.kind = "pending" THEN sh \cup {e.node} ELSE sh \ {e.node}
<1>1. /\ Len(q) \in Nat /\ 1 \in 1..Len(q) /\ q[1] = e /\ Len(a) = Len(q) - 1
      /\ \A k \in 1..Len(a) : a[k] = q[k + 1]
  BY HeadTailProperties, LenProperties, EmptySeq
<1> HIDE DEF a, e
<1>2. ASSUME NEW k \in 1..Len(q), k > 1 PROVE k - 1 \in 1..Len(a) /\ a[k - 1] = q[k]
  <2>1. k - 1 \in 1..Len(a) /\ (k - 1) + 1 = k
    BY <1>1, <1>2
  <2> QED
    BY <1>1, <2>1
<1>3. Silent(a, n) => (n \in sh1 <=> t[n] # None)
  <2> SUFFICES ASSUME Silent(a, n) PROVE n \in sh1 <=> t[n] # None
    OBVIOUS
  <2>1. \A j \in 1..Len(q) : j > 1 => q[j].node # n
    BY <1>2 DEF Silent
  <2>2. CASE e.node = n
    <3>1. IsLast(q, 1, n)
      BY <1>1, <2>1, <2>2 DEF IsLast
    <3>2. e.kind = "pending" <=> t[n] # None
      BY <1>1, <3>1 DEF Tells
    <3> QED
      BY <2>2, <3>2
  <2>3. CASE e.node # n
    <3>1. Silent(q, n)
      <4> SUFFICES ASSUME NEW k \in 1..Len(q) PROVE q[k].node # n
        BY DEF Silent
      <4>1. k = 1 \/ k > 1
        BY <1>1
      <4> QED
        BY <1>1, <2>1, <2>3, <4>1
    <3> QED
      BY <2>3, <3>1 DEF Tells
  <2> QED
    BY <2>2, <2>3
<1>4. ASSUME NEW k \in 1..Len(a), IsLast(a, k, n) PROVE a[k].kind = "pending" <=> t[n] # None
  <2>1. k + 1 \in 1..Len(q) /\ a[k] = q[k + 1] /\ a[k].node = n
    BY <1>1, <1>4 DEF IsLast
  <2>2. ASSUME NEW j \in 1..Len(q), j > k + 1 PROVE q[j].node # n
    <3>1. j > 1 /\ j - 1 > k
      BY <1>1, <2>2
    <3> QED
      BY <1>2, <1>4, <3>1 DEF IsLast
  <2>3. IsLast(q, k + 1, n)
    BY <2>1, <2>2 DEF IsLast
  <2> QED
    BY <2>1, <2>3 DEF Tells
<1> QED
  BY <1>3, <1>4 DEF Tells, a, e


\* One event reports a change at its own node.
LEMMA OneReport ==
  ASSUME NEW e \in Events, NEW t, NEW u, NEW n,
         n # e.node => (t[n] # None <=> u[n] # None),
         n = e.node => (e.kind = "pending" <=> u[n] # None)
  PROVE  Reported(<<e>>, t, u, n)
<1>1. Len(<<e>>) = 1 /\ <<e>>[1] = e
  OBVIOUS
<1>2. CASE n = e.node
  <2>1. ~Silent(<<e>>, n)
    BY <1>1, <1>2 DEF Silent
  <2> QED
    BY <1>1, <1>2, <2>1 DEF Reported
<1>3. CASE n # e.node
  BY <1>1, <1>3 DEF Reported
<1> QED
  BY <1>2, <1>3

\* No event reports that nothing changes.
LEMMA NoReport ==
  ASSUME NEW t, NEW u, NEW n, t[n] # None <=> u[n] # None
  PROVE  Reported(<<>>, t, u, n)
  BY DEF Reported

\* The scan reports what it takes out.
LEMMA ScanReports ==
  ASSUME NEW t \in Tables, NEW n \in Nodes
  PROVE  Reported(TimeoutEvents(t), t, Scanned(t), n)
<1> DEFINE ev == TimeoutEvents(t)
           u == Scanned(t)
<1>1. /\ \A i \in 1..Len(ev) : ev[i].node \in Overdue(t) /\ ev[i].kind = "sdo"
      /\ \A j \in Overdue(t) : \E i \in 1..Len(ev) : ev[i].node = j
  BY TimeoutsAre
<1>2. u[n] = IF n \in Overdue(t) THEN None ELSE t[n]
  BY ScannedIs
<1> HIDE DEF ev, u
<1>3. Silent(ev, n) => (t[n] # None <=> u[n] # None)
  BY <1>1, <1>2 DEF Silent
<1>4. ASSUME NEW k \in 1..Len(ev), ev[k].node = n PROVE ev[k].kind = "pending" <=> u[n] # None
  BY <1>1, <1>2, <1>4
<1> QED
  BY <1>3, <1>4 DEF Reported, ev, u

\* What a session reports together with the scan that follows.
LEMMA ThenScanned ==
  ASSUME Typed, NEW n \in Nodes, NEW ev \in Seq(Events), NEW tbl \in Tables, NEW scan \in BOOLEAN,
         Tells(events, shown, pending, n), Reported(ev, pending, tbl, n)
  PROVE  Tells(events \o ev \o (IF scan THEN TimeoutEvents(tbl) ELSE <<>>), shown,
               IF scan THEN Scanned(tbl) ELSE tbl, n)
<1>1. events \in Seq(Events) /\ events \o ev \in Seq(Events) /\ <<>> \in Seq(Events)
      /\ TimeoutEvents(tbl) \in Seq(Events)
  BY ConcatProperties, TimeoutsAre DEF Typed
<1>2. Tells(events \o ev, shown, tbl, n)
  BY <1>1, ReportsTell
<1>3. Tells((events \o ev) \o TimeoutEvents(tbl), shown, Scanned(tbl), n)
  BY <1>1, <1>2, ReportsTell, ScanReports
<1>4. Tells((events \o ev) \o <<>>, shown, tbl, n)
  BY <1>1, <1>2, ReportsTell, NoReport
<1> QED
  BY <1>3, <1>4

\* The command under way stays alone.
LEMMA AloneKept ==
  ASSUME Typed, Alone, UNCHANGED world,
         \/ UNCHANGED cmds /\ \A n \in Nodes : pending[n] = None => pending'[n] = None
         \/ cmds' = <<>>
         \/ cmds # <<>> /\ cmds' = Tail(cmds)
  PROVE  Alone'
<1> SUFFICES ASSUME OneAtATime PROVE cmds' = <<>> \/ \E c \in world.commands : cmds' = <<c>> /\ pending'[c.node] = None
  BY DEF Alone, OneAtATime
<1>1. cmds = <<>> \/ \E c \in world.commands : cmds = <<c>> /\ pending[c.node] = None
  BY DEF Alone
<1>2. \A c \in world.commands : c.node \in Nodes
  BY CommandsAre DEF Asks
<1>3. \A c : Tail(<<c>>) = <<>>
  OBVIOUS
<1> QED
  BY <1>1, <1>2, <1>3

\* A step that changes neither the events nor which nodes have a record.
LEMMA IndicatorUntouched ==
  ASSUME Typed, IndicatorInv, UNCHANGED <<world, events, shown>>, Alone', Settled' => Settled,
         Settled' => \A n \in Nodes : pending[n] # None <=> pending'[n] # None
  PROVE  IndicatorInv'
  BY DEF IndicatorInv, Tells

\* A step that leaves the front-end alone and reports what it changes.
LEMMA IndicatorReported ==
  ASSUME Typed, IndicatorInv, UNCHANGED <<world, shown>>, Alone', Settled' => Settled,
         NEW ev \in Seq(Events), NEW tbl \in Tables, NEW scan \in BOOLEAN,
         events' = events \o ev \o (IF scan THEN TimeoutEvents(tbl) ELSE <<>>),
         pending' = IF scan THEN Scanned(tbl) ELSE tbl,
         Settled' => \A n \in Nodes : Reported(ev, pending, tbl, n)
  PROVE  IndicatorInv'
<1> SUFFICES ASSUME Settled', NEW n \in Nodes PROVE Tells(events', shown', pending', n)
  BY DEF IndicatorInv
<1>1. Tells(events, shown, pending, n) /\ Reported(ev, pending, tbl, n)
  BY DEF IndicatorInv
<1> QED
  BY <1>1, ThenScanned

\* One event is added.
LEMMA OneMore ==
  ASSUME NEW q \in Seq(Events), NEW e \in Events
  PROVE  Append(q, e) = q \o <<e>> \o <<>> /\ <<e>> \in Seq(Events)
<1>1. <<e>> \in Seq(Events)
  BY Singles
<1>2. Append(q, e) = q \o <<e>> /\ q \o <<e>> \in Seq(Events)
  BY <1>1, ConcatProperties
<1> QED
  BY <1>1, <1>2

\* A new command.
LEMMA AskIndicates == Typed /\ IndicatorInv /\ Ask => IndicatorInv'
<1> SUFFICES ASSUME Typed, IndicatorInv, Ask PROVE IndicatorInv'
  OBVIOUS
<1>1. UNCHANGED <<world, events, shown, pending, unplugs, faults>>
  BY DEF Ask, session
<1>2. Alone'
  <2> SUFFICES ASSUME OneAtATime
               PROVE  cmds' = <<>> \/ \E c \in world.commands : cmds' = <<c>> /\ pending[c.node] = None
    BY <1>1 DEF Alone, OneAtATime
  <2>1. PICK n \in Nodes, k \in 1..world.batch :
          \E batch \in [1..k -> {c \in world.commands \ asked : c.node = n}] :
            cmds = <<>> /\ pending[n] = None /\ cmds' \in {cmds \o batch, Tail(batch)}
    BY DEF Ask, OneAtATime
  <2>2. PICK batch \in [1..k -> {c \in world.commands \ asked : c.node = n}] :
          cmds = <<>> /\ pending[n] = None /\ cmds' \in {cmds \o batch, Tail(batch)}
    BY <2>1
  <2>3. k = 1
    BY DEF OneAtATime
  <2>4. batch[1] \in world.commands /\ batch[1].node = n
    BY <2>3
  <2>5. batch = <<batch[1]>>
    BY <2>3
  <2>6. cmds' \in {<<>>, <<batch[1]>>}
    <3>1. \A b \in world.commands : <<>> \o <<b>> = <<b>> /\ Tail(<<b>>) = <<>>
      OBVIOUS
    <3> QED
      BY <2>2, <2>4, <2>5, <3>1
  <2> QED
    BY <2>2, <2>4, <2>6
<1> QED
  BY <1>1, <1>2, IndicatorUntouched DEF Settled, OneAtATime

\* The session takes a command.
LEMMA CommandIndicates == Typed /\ IndicatorInv /\ Command => IndicatorInv'
<1> SUFFICES ASSUME Typed, IndicatorInv, Command PROVE IndicatorInv'
  OBVIOUS
<1> DEFINE c == Head(cmds)
           s == Start(c, noBlock)
<1>1. cmds # <<>> /\ cmds' = Tail(cmds) /\ UNCHANGED <<world, shown>>
  BY DEF Command, frontEnd
<1>2. c \in world.commands /\ c \in Asks /\ c.node \in Nodes /\ c.obj \in Objects /\ c.dir \in Directions
  <2>1. c \in world.commands
    BY <1>1, TailIs DEF Typed
  <2>2. c \in Asks
    BY <2>1, CommandsAre
  <2> QED
    BY <2>1, <2>2 DEF Asks, Directions
<1>3. Alone'
  BY <1>1, AloneKept DEF IndicatorInv
<1>4. s.p \in Records /\ s.p.node = c.node
  BY <1>2, StartIs
<1>5. \/ /\ pending' = [pending EXCEPT ![c.node] = <<s.p>>]
         /\ events' = Append(events, Pending(c)) /\ UNCHANGED mishaps
      \/ /\ SendFault /\ UNCHANGED pending
         /\ events' = Append(events, Aborted(c.node, c.obj, c.dir, "general"))
  BY DEF Command, session
<1> HIDE DEF c, s
<1>6. CASE /\ pending' = [pending EXCEPT ![c.node] = <<s.p>>]
           /\ events' = Append(events, Pending(c)) /\ UNCHANGED mishaps
  <2> DEFINE e == Pending(c)
  <2>1. e \in Events /\ e.node = c.node /\ e.kind = "pending"
    <3>1. <<>> \in Data
      BY DEF Data
    <3> QED
      BY <1>2, <3>1 DEF Pending, Events, Codes
  <2>2. <<s.p>> \in Entries(c.node) /\ <<s.p>> # None
    BY <1>4 DEF Entries, None
  <2>3. pending' \in Tables
    BY <1>2, <1>6, <2>2, ReplacedEntry DEF Typed
  <2>4. pending \in [Nodes -> UNION {Entries(n) : n \in Nodes}]
    BY DEF Typed, Tables
  <2>5. events' = events \o <<e>> \o <<>> /\ <<e>> \in Seq(Events)
    BY <1>6, <2>1, OneMore DEF Typed
  <2> HIDE DEF e
  <2>6. ASSUME NEW n \in Nodes PROVE Reported(<<e>>, pending, pending', n)
    BY <1>2, <1>6, <2>1, <2>2, <2>4, OneReport
  <2>7. Settled' => Settled
    BY <1>1, <1>6 DEF Settled, OneAtATime, mishaps
  <2> QED
    BY <1>1, <1>3, <2>3, <2>5, <2>6, <2>7, IndicatorReported
<1>7. CASE /\ SendFault /\ UNCHANGED pending
           /\ events' = Append(events, Aborted(c.node, c.obj, c.dir, "general"))
  <2> DEFINE e == Aborted(c.node, c.obj, c.dir, "general")
  <2>1. e \in Events /\ e.node = c.node /\ e.kind = "sdo"
    BY <1>2, EventsAre DEF Codes
  <2>2. events' = events \o <<e>> \o <<>> /\ <<e>> \in Seq(Events)
    BY <1>7, <2>1, OneMore DEF Typed
  <2> HIDE DEF e
  <2>3. Settled' => Settled /\ OneAtATime
    BY <1>1, <1>7 DEF Settled, OneAtATime, SendFault, Typed
  <2>4. ASSUME OneAtATime PROVE pending[c.node] = None
    <3>1. PICK d \in world.commands : cmds = <<d>> /\ pending[d.node] = None
      BY <1>1, <2>4 DEF IndicatorInv, Alone
    <3>2. c = d
      BY <3>1 DEF c
    <3> QED
      BY <3>1, <3>2
  <2>5. Settled' => \A n \in Nodes : Reported(<<e>>, pending, pending', n)
    BY <1>2, <1>7, <2>1, <2>3, <2>4, OneReport
  <2>6. pending' \in Tables
    BY <1>7 DEF Typed
  <2> QED
    BY <1>1, <1>3, <2>2, <2>3, <2>5, <2>6, IndicatorReported
<1> QED
  BY <1>5, <1>6, <1>7


\* The session handles a response.
LEMMA RespondIndicates == Typed /\ IndicatorInv /\ Respond => IndicatorInv'
<1> SUFFICES ASSUME Typed, IndicatorInv, Respond PROVE IndicatorInv'
  OBVIOUS
<1>a. \E n \in Nodes : \E r : \E tbl \in Tables : Handled(n, r, tbl)
  BY RespondDoes
<1>b. PICK n \in Nodes : \E r : \E tbl \in Tables : Handled(n, r, tbl)
  BY <1>a
<1>c. PICK r : \E tbl \in Tables : Handled(n, r, tbl)
  BY <1>b
<1>1. PICK tbl \in Tables : Handled(n, r, tbl)
  BY <1>c
<1>2. UNCHANGED <<world, shown, cmds>>
  BY DEF Respond, frontEnd
<1>3. pending[n] # None /\ pending[n][1].node = n /\ r.scan \in BOOLEAN
  BY <1>1, EntryOfTable DEF Handled, Answers, Typed
<1>4. tbl = [pending EXCEPT ![n] = r.next] /\ pending \in [Nodes -> UNION {Entries(k) : k \in Nodes}]
  BY <1>1 DEF Handled, Typed, Tables
<1>5. \/ r.next = None /\ \E e \in Events : e.node = n /\ e.kind = "sdo" /\ r.ev = <<e>>
      \/ r.next # None /\ r.ev = <<>>
  BY <1>1, <1>3 DEF Handled, Answers, None
<1>6. r.ev \in Seq(Events) /\ \A k \in Nodes : Reported(r.ev, pending, tbl, k)
  <2>1. CASE r.next = None /\ \E e \in Events : e.node = n /\ e.kind = "sdo" /\ r.ev = <<e>>
    <3>1. PICK e \in Events : e.node = n /\ e.kind = "sdo" /\ r.ev = <<e>>
      BY <2>1
    <3>2. <<e>> \in Seq(Events)
      BY Singles
    <3>3. ASSUME NEW k \in Nodes PROVE Reported(<<e>>, pending, tbl, k)
      BY <1>4, <2>1, <3>1, OneReport
    <3> QED
      BY <3>1, <3>2, <3>3
  <2>2. CASE r.next # None /\ r.ev = <<>>
    <3>1. <<>> \in Seq(Events)
      OBVIOUS
    <3>2. ASSUME NEW k \in Nodes PROVE Reported(<<>>, pending, tbl, k)
      BY <1>3, <1>4, <2>2, NoReport
    <3> QED
      BY <2>2, <3>1, <3>2
  <2> QED
    BY <1>5, <2>1, <2>2
<1>7. pending' = (IF r.scan THEN Scanned(tbl) ELSE tbl)
      /\ events' = events \o r.ev \o (IF r.scan THEN TimeoutEvents(tbl) ELSE <<>>)
  BY <1>1 DEF Handled
<1>8. Alone'
  <2>1. ASSUME NEW k \in Nodes, pending[k] = None PROVE pending'[k] = None
    <3>1. tbl[k] = None
      BY <1>3, <1>4, <2>1
    <3> QED
      BY <1>7, <3>1, ScannedIs
  <2> QED
    BY <1>2, <2>1, AloneKept DEF IndicatorInv
<1>9. Settled' => Settled
  BY <1>1, <1>2 DEF Settled, OneAtATime, Handled, SendFault, mishaps, Typed
<1> QED
  BY <1>2, <1>3, <1>6, <1>7, <1>8, <1>9, IndicatorReported

\* The session overhears a response, or scans the table after another frame.
LEMMA OverhearIndicates == Typed /\ IndicatorInv /\ (Overhear \/ OtherFrame) => IndicatorInv'
<1> SUFFICES ASSUME Typed, IndicatorInv, Overhear \/ OtherFrame PROVE IndicatorInv'
  OBVIOUS
<1>1. UNCHANGED <<world, shown, cmds, unplugs, faults>> /\ pending' = Scanned(pending)
  BY DEF Overhear, OtherFrame, frontEnd, mishaps
<1>2. pending \in Tables
  BY DEF Typed
<1>3. Alone'
  BY <1>1, <1>2, ScannedIs, AloneKept DEF IndicatorInv
<1>4. Settled' => Settled
  BY <1>1 DEF Settled, OneAtATime
<1>5. ASSUME NEW ev \in Seq(Events), events' = events \o ev \o TimeoutEvents(pending),
             \A n \in Nodes : Reported(ev, pending, pending, n)
      PROVE  IndicatorInv'
  <2>1. /\ events' = events \o ev \o (IF TRUE THEN TimeoutEvents(pending) ELSE <<>>)
        /\ pending' = IF TRUE THEN Scanned(pending) ELSE pending
    BY <1>1, <1>5
  <2> QED
    BY <1>1, <1>2, <1>3, <1>4, <1>5, <2>1, IndicatorReported
<1>6. <<>> \in Seq(Events) /\ \A n \in Nodes : Reported(<<>>, pending, pending, n)
  BY NoReport
<1>7. CASE Overhear
  <2> DEFINE j == Head(rsps).node
             ev == Passive(j, Head(rsps).rsp)
  <2>1. j \in Nodes /\ pending[j] = None
    BY <1>7, HeadResponse DEF Overhear
  <2>2. ev = <<>> \/ \E e \in Events : e.node = j /\ e.kind = "sdo" /\ ev = <<e>>
    BY <1>7, HeadResponse, PassiveIs DEF Overhear
  <2>3. events' = events \o ev \o TimeoutEvents(pending)
    BY <1>7 DEF Overhear
  <2> HIDE DEF ev, j
  <2>4. CASE ev = <<>>
    BY <1>5, <1>6, <2>3, <2>4
  <2>5. ASSUME NEW e \in Events, e.node = j, e.kind = "sdo", ev = <<e>> PROVE IndicatorInv'
    <3>1. <<e>> \in Seq(Events)
      BY Singles
    <3>2. ASSUME NEW n \in Nodes PROVE Reported(<<e>>, pending, pending, n)
      BY <2>1, <2>5, OneReport
    <3> QED
      BY <1>5, <2>3, <2>5, <3>1, <3>2
  <2> QED
    BY <2>2, <2>4, <2>5
<1>8. CASE OtherFrame
  <2>1. events' = events \o TimeoutEvents(pending)
    BY <1>8 DEF OtherFrame
  <2>2. events \o <<>> = events
    BY DEF Typed
  <2> QED
    BY <1>5, <1>6, <2>1, <2>2
<1> QED
  BY <1>7, <1>8

\* The front-end takes an event.
LEMMA ApplyIndicates == Typed /\ IndicatorInv /\ ApplyEvent => IndicatorInv'
<1> SUFFICES ASSUME Typed, IndicatorInv, ApplyEvent PROVE IndicatorInv'
  OBVIOUS
<1>1. /\ events # <<>> /\ events' = Tail(events) /\ UNCHANGED <<world, cmds, pending, unplugs, faults>>
      /\ shown' = IF Head(events).kind = "pending" THEN shown \cup {Head(events).node}
                                                    ELSE shown \ {Head(events).node}
  BY DEF ApplyEvent, session, mishaps
<1>2. Alone'
  BY <1>1, AloneKept DEF IndicatorInv
<1>3. ASSUME Settled', NEW n \in Nodes PROVE Tells(events', shown', pending', n)
  <2>1. Tells(events, shown, pending, n)
    BY <1>1, <1>3 DEF IndicatorInv, Settled, OneAtATime
  <2> QED
    BY <1>1, <2>1, AppliedTells DEF Typed
<1> QED
  BY <1>2, <1>3 DEF IndicatorInv

\* The adapter goes, comes back or fails; time passes; the nodes and the bus.
LEMMA OthersIndicate ==
  Typed /\ IndicatorInv
    /\ (Unplug \/ RecvError \/ Reopen \/ PollInVain \/ GiveUp \/ Tick \/ NodeNext \/ Lose)
  => IndicatorInv'
<1> SUFFICES ASSUME Typed, IndicatorInv,
                    Unplug \/ RecvError \/ Reopen \/ PollInVain \/ GiveUp \/ Tick \/ NodeNext \/ Lose
             PROVE  IndicatorInv'
  OBVIOUS
<1>1. UNCHANGED <<world, events, shown>>
  BY DEF Unplug, RecvError, Reopen, PollInVain, GiveUp, Tick, NodeNext, NodeServe, NodeStall, Lose,
         frontEnd
<1>2. CASE Unplug
  <2>1. ~Settled' /\ UNCHANGED cmds /\ \A n \in Nodes : pending'[n] = None
    BY <1>2 DEF Unplug, Settled, Typed
  <2> QED
    BY <1>1, <2>1, AloneKept, IndicatorUntouched DEF IndicatorInv
<1>3. CASE RecvError
  <2>1. ~Settled' /\ cmds # <<>> /\ cmds' = Tail(cmds)
    BY <1>3 DEF RecvError, Swallow, Settled, Typed
  <2> QED
    BY <1>1, <2>1, AloneKept, IndicatorUntouched DEF IndicatorInv
<1>4. CASE Reopen \/ PollInVain \/ GiveUp
  <2>1. UNCHANGED <<pending, unplugs, faults>> /\ cmds' = IF cmds = <<>> THEN <<>> ELSE Tail(cmds)
    BY <1>4 DEF Reopen, PollInVain, GiveUp, Swallow, session
  <2>2. Alone'
    BY <1>1, <2>1, AloneKept DEF IndicatorInv
  <2> QED
    BY <1>1, <2>1, <2>2, IndicatorUntouched DEF Settled, OneAtATime
<1>5. CASE Tick
  <2>1. UNCHANGED <<unplugs, faults, cmds>>
        /\ \A n \in Nodes : pending[n] # None <=> pending'[n] # None
    BY <1>5 DEF Tick, mishaps, None
  <2>2. Alone'
    BY <1>1, <2>1, AloneKept DEF IndicatorInv
  <2> QED
    BY <1>1, <2>1, <2>2, IndicatorUntouched DEF Settled, OneAtATime
<1>6. CASE NodeNext \/ Lose
  <2>1. UNCHANGED <<unplugs, faults, cmds, pending>>
    BY <1>6 DEF NodeNext, NodeServe, NodeStall, Lose, mishaps, session
  <2>2. Alone'
    BY <1>1, <2>1, AloneKept DEF IndicatorInv
  <2> QED
    BY <1>1, <2>1, <2>2, IndicatorUntouched DEF Settled, OneAtATime
<1> QED
  BY <1>2, <1>3, <1>4, <1>5, <1>6

\* Every step keeps what the events tell true of the table.
LEMMA NextIndicates == Typed /\ IndicatorInv /\ [Next]_vars => IndicatorInv'
<1>1. Typed /\ IndicatorInv /\ UNCHANGED vars => IndicatorInv'
  BY DEF vars, frontEnd, session, mishaps, IndicatorInv, Alone, Settled, OneAtATime, Tells
<1> QED
  BY <1>1, AskIndicates, CommandIndicates, RespondIndicates, OverhearIndicates, ApplyIndicates,
     OthersIndicate DEF Next, SessionNext

\* At first nothing is under way, shown or pending.
LEMMA InitIndicates == Init => IndicatorInv
  BY DEF Init, IndicatorInv, Alone, Tells, Silent, IsLast

\* The indicator that enables the GUI's buttons follows the session's table of
\* transfers, whatever is asked, overwritten, answered late, overheard or timed out:
\* the events under way tell of every record that came and of every one that went.
THEOREM IndicatorFollows == Spec => []IndicatorMatches
<1>1. Typed /\ IndicatorInv => IndicatorMatches
  BY WillShowIs DEF IndicatorInv, IndicatorMatches, Settled
<1>2. Init => Typed /\ IndicatorInv
  BY InitTyped, InitIndicates
<1>3. Typed /\ IndicatorInv /\ [Next]_vars => (Typed /\ IndicatorInv)'
  BY NextTyped, NextIndicates
<1>4. Spec => [](Typed /\ IndicatorInv)
  BY <1>2, <1>3, PTL DEF Spec
<1> QED
  BY <1>1, <1>4, PTL

-----------------------------------------------------------------------------
(* What is reported as done                                                *)

\* Node n has sent nothing of what is in rs, or nothing but segments of an upload.
Silence(rs, n) == \A i \in 1..Len(rs) : rs[i].node # n
Noise(rs, n) == \A i \in 1..Len(rs) : rs[i].node = n => rs[i].rsp.cs = "buSeg"

\* Its last one is at i, and only such segments are before it.
Final(rs, i, n) ==
  /\ i \in 1..Len(rs) /\ rs[i].node = n
  /\ \A j \in 1..Len(rs) : rs[j].node = n /\ j # i => j < i /\ rs[j].rsp.cs = "buSeg"

\* All it has sent are segments of the sub-block of o that follows segment base.
Streams(rs, n, o, base) ==
  /\ \A i \in 1..Len(rs) : rs[i].node = n =>
       LET m == rs[i].rsp IN
         /\ m.cs = "buSeg" /\ m.seq \in 1..BlockSize /\ base + m.seq <= SegCount(o)
         /\ m.dat = <<<<o, base + m.seq>>>> /\ (m.last <=> base + m.seq = SegCount(o))
  /\ \A i, j \in 1..Len(rs) :
       i < j /\ rs[i].node = n /\ rs[j].node = n => rs[i].rsp.seq < rs[j].rsp.seq

\* Requests that ask for nothing any more; such requests and then q; a burst of
\* segments of which the node can acknowledge only the last.
OnlyEnds(rq) == \A k \in 1..Len(rq) : rq[k].op = "buEndAck"
EndsWith(rq, q) ==
  rq # <<>> /\ rq[Len(rq)] = q /\ \A k \in 1..(Len(rq) - 1) : rq[k].op = "buEndAck"
Burst(rq) ==
  \A k \in 1..Len(rq) : rq[k].op = "bdSeg" /\ (k < Len(rq) => rq[k].seq # SrvBlk)

\* The first k segments of an object.
Prefix(o, k) == [i \in 1..k |-> <<o, i>>]

\* The request that opens the transfer of a new record.
First(p) ==
  CASE p.st = "wait" /\ p.dir = "read" -> Upload(p.obj)
    [] p.st = "wait" /\ p.dir # "read" -> Expedited(p.obj)
    [] p.st = "dlSeg" -> Download(p.obj)
    [] p.st = "bdInit" -> BlockDownload(p.obj)
    [] p.st = "buInit" -> BlockUpload(p.obj, BlockSize)

\* The node is in a block upload of the record's object.
Uploads(p, s) == s.ph = "bu" /\ s.obj = p.obj /\ s.blk = BlockSize

\* Response m is of the transfer of record p, and says what is so.
Fits(p, m, s) ==
  \/ m.cs = "abort" /\ m.code # "ok"
  \/ m.cs = "ulX" /\ p.st = "wait" /\ m.dat = Whole(m.obj)
  \/ m.cs = "ulInit" /\ p.st = "wait" /\ p.dir = "read" /\ s.ph = "ul" /\ s.obj = p.obj /\ s.n = 0
  \/ /\ m.cs = "ulSeg" /\ p.st = "ulSeg" /\ p.buf = Prefix(p.obj, Len(p.buf))
     /\ m.dat = <<<<p.obj, Len(p.buf) + 1>>>>
     /\ IF m.last THEN Len(p.buf) + 1 = SegCount(p.obj)
                  ELSE s.ph = "ul" /\ s.obj = p.obj /\ s.n = Len(p.buf) + 1
  \/ m.cs = "dlAck" /\ p.st = "wait" /\ p.obj \in s.done
  \/ m.cs = "dlAck" /\ p.st = "dlSeg" /\ p.sent = 0 /\ (s.ph = "dl" => s.obj = p.obj)
  \/ /\ m.cs = "segAck" /\ p.st = "dlSeg" /\ (s.ph = "dl" => s.obj = p.obj)
     /\ p.sent = SegCount(p.obj) => p.obj \in s.done
  \/ m.cs = "bdInit" /\ p.st = "bdInit" /\ s.ph = "bd" /\ s.obj = p.obj
  \/ /\ m.cs = "bdAck" /\ p.st \in {"bdProg", "bdEnd"} /\ m.blk = SrvBlk
     /\ s.ph = "bd" /\ s.obj = p.obj
  \/ m.cs = "bdEnd" /\ p.st = "bdEnd" /\ p.obj \in s.done
  \/ m.cs = "buInit" /\ p.st = "buInit" /\ Uploads(p, s) /\ s.n = 0
  \/ m.cs = "buEnd" /\ p.st = "buEnd" /\ p.buf = Whole(p.obj)

\* Request q is the next of the transfer of record p.
Owed(p, q, s) ==
  \/ /\ q.op = "ulSeg" /\ p.st = "ulSeg" /\ p.buf = Prefix(p.obj, Len(p.buf))
     /\ s.ph = "ul" => s.obj = p.obj /\ s.n = Len(p.buf)
  \/ /\ q.op = "dlSeg" /\ p.st = "dlSeg" /\ (s.ph = "dl" => s.obj = p.obj)
     /\ q.last <=> p.sent = SegCount(p.obj)
  \/ q.op = "bdEnd" /\ p.st = "bdEnd" /\ (s.ph = "bd" => s.obj = p.obj)
  \/ q.op = "buStart" /\ p.st = "buProg" /\ Uploads(p, s) /\ s.n = 0 /\ p.buf = <<>> /\ p.exp = 1
  \/ /\ q.op = "buAck" /\ Uploads(p, s) /\ p.exp = 1 /\ p.buf = Prefix(p.obj, s.n + q.seq)
     /\ \/ p.st = "buEnd" /\ s.n + q.seq = SegCount(p.obj)
        \/ p.st = "buProg" /\ s.n + q.seq < SegCount(p.obj)

\* Between the session and node n nothing is under way that a transfer could take
\* for its own, or nothing at all.
Rest(n, rs, rq, s, kind) == Noise(rs, n) /\ OnlyEnds(rq) /\ ~SubBlockStalls(s, kind)
Quiet(n, rs, rq, s, kind) == Silence(rs, n) /\ rq = <<>> /\ ~SubBlockStalls(s, kind)

\* The exchange a transfer is in: the first request is out; one response is under way
\* or one request; a burst or a sub-block is; or a frame is lost.
Opening(n, p, rs, rq, s, kind) ==
  /\ p.st \in {"wait", "dlSeg", "bdInit", "buInit"} /\ p.sent = 0
  /\ Noise(rs, n) /\ EndsWith(rq, First(p)) /\ ~SubBlockStalls(s, kind)
Answered(n, p, rs, rq, s, kind) ==
  /\ rq = <<>> /\ ~SubBlockStalls(s, kind) /\ p.st # "buProg"
  /\ \E i \in 1..Len(rs) : Final(rs, i, n) /\ Fits(p, rs[i].rsp, s)
Requested(n, p, rs, rq, s, kind) ==
  Silence(rs, n) /\ ~SubBlockStalls(s, kind) /\ Len(rq) = 1 /\ Owed(p, rq[1], s)
Bursting(n, p, rs, rq, s) ==
  p.st = "bdProg" /\ Silence(rs, n) /\ s.ph = "bd" /\ s.obj = p.obj /\ Burst(rq)
Streaming(n, p, rs, rq, s) ==
  /\ p.st = "buProg" /\ rq = <<>> /\ Uploads(p, s) /\ p.buf = Prefix(p.obj, s.n + p.exp - 1)
  /\ Streams(rs, n, p.obj, s.n)
Lost(n, p, rs, rq, s, kind) ==
  Rest(n, rs, rq, s, kind) /\ (p.st = "buProg" => Silence(rs, n))

Exchange(n, p, rs, rq, s, kind) ==
  \/ Opening(n, p, rs, rq, s, kind) \/ Answered(n, p, rs, rq, s, kind)
  \/ Requested(n, p, rs, rq, s, kind) \/ Bursting(n, p, rs, rq, s)
  \/ Streaming(n, p, rs, rq, s) \/ Lost(n, p, rs, rq, s, kind)

\* Entry e of the table and what is under way fit together; a record grows older only
\* when nothing is.
InStep(n, e, rs, rq, s, kind) ==
  IF e = None THEN Rest(n, rs, rq, s, kind)
  ELSE LET p == e[1] IN
    /\ p.st \in {"ulSeg", "buInit", "buProg", "buEnd"} => p.dir = "read"
    /\ p.started > 0 \/ p.active > 0 => Quiet(n, rs, rq, s, kind)
    /\ Exchange(n, p, rs, rq, s, kind)

\* Event e reports no success that is none; done is what its node has stored.
Honest(e, done) ==
  e.kind = "sdo" /\ e.code = "ok" =>
    /\ e.dir = "read" => e.val = Whole(e.obj)
    /\ e.dir = "write" => e.obj \in done

\* Each node and the table are in step and no event tells what is not so.
ReportsInv ==
  Calm =>
    /\ link = "up"
    /\ \A n \in Nodes : InStep(n, pending[n], rsps, reqs[n], srv[n], world.kind[n])
    /\ \A i \in 1..Len(events) : Honest(events[i], srv[events[i].node].done)

\* The rest of a queue, when its first element is taken.
LEMMA TailKeeps ==
  ASSUME NEW n, NEW S, NEW rs \in Seq(S), rs # <<>>
  PROVE  /\ Silence(rs, n) => Silence(Tail(rs), n)
         /\ Noise(rs, n) => Noise(Tail(rs), n)
         /\ \A o, base : Streams(rs, n, o, base) => Streams(Tail(rs), n, o, base)
<1> DEFINE t == Tail(rs)
<1>1. /\ Len(rs) \in Nat \ {0} /\ Len(t) = Len(rs) - 1 /\ Head(rs) = rs[1]
      /\ \A i \in 1..Len(t) : t[i] = rs[i + 1]
  BY HeadTailProperties, EmptySeq, LenProperties
<1> HIDE DEF t
<1>2. \A i \in 1..Len(t) : i + 1 \in 1..Len(rs)
  BY <1>1
<1>3. (Silence(rs, n) => Silence(t, n)) /\ (Noise(rs, n) => Noise(t, n))
  BY <1>1, <1>2 DEF Silence, Noise
<1>4. ASSUME NEW o, NEW base, Streams(rs, n, o, base) PROVE Streams(t, n, o, base)
  <2>1. ASSUME NEW i \in 1..Len(t), NEW j \in 1..Len(t), i < j, t[i].node = n, t[j].node = n
        PROVE  t[i].rsp.seq < t[j].rsp.seq
    <3>1. i + 1 < j + 1 /\ i + 1 \in 1..Len(rs) /\ j + 1 \in 1..Len(rs)
      BY <1>1, <1>2, <2>1
    <3> QED
      BY <1>1, <1>4, <2>1, <3>1 DEF Streams
  <2> QED
    BY <1>1, <1>2, <1>4, <2>1 DEF Streams
<1> QED
  BY <1>3, <1>4 DEF t

\* The final response is the one that is taken, or is the final one of the rest.
LEMMA FinalPasses ==
  ASSUME NEW n, NEW S, NEW rs \in Seq(S), rs # <<>>, NEW i \in 1..Len(rs), Final(rs, i, n)
  PROVE  \/ i = 1 /\ Head(rs) = rs[i] /\ Silence(Tail(rs), n)
         \/ /\ \E j \in 1..Len(Tail(rs)) : Final(Tail(rs), j, n) /\ Tail(rs)[j] = rs[i]
            /\ Head(rs).node = n => Head(rs).rsp.cs = "buSeg"
<1> DEFINE t == Tail(rs)
<1>1. /\ Len(rs) \in Nat \ {0} /\ Len(t) = Len(rs) - 1 /\ Head(rs) = rs[1]
      /\ \A k \in 1..Len(t) : t[k] = rs[k + 1]
  BY HeadTailProperties, EmptySeq, LenProperties
<1> HIDE DEF t
<1>2. \A k \in 1..Len(t) : k + 1 \in 1..Len(rs)
  BY <1>1
<1>3. i \in 1..Len(rs) /\ rs[i].node = n
  BY DEF Final
<1>4. CASE i = 1
  <2>1. ASSUME NEW j \in 1..Len(t), t[j].node = n PROVE FALSE
    BY <1>1, <1>2, <1>4, <2>1 DEF Final
  <2> QED
    BY <1>1, <1>4, <2>1 DEF Silence, t
<1>5. CASE i # 1
  <2>1. i - 1 \in 1..Len(t) /\ t[i - 1] = rs[i]
    BY <1>1, <1>3, <1>5
  <2>2. ASSUME NEW j \in 1..Len(t), t[j].node = n, j # i - 1 PROVE j < i - 1 /\ t[j].rsp.cs = "buSeg"
    <3>1. j + 1 \in 1..Len(rs) /\ rs[j + 1].node = n /\ j + 1 # i /\ t[j] = rs[j + 1]
      BY <1>1, <1>2, <1>3, <2>2
    <3>2. j + 1 < i /\ rs[j + 1].rsp.cs = "buSeg"
      BY <3>1 DEF Final
    <3> QED
      BY <1>3, <3>1, <3>2
  <2>3. Head(rs).node = n => Head(rs).rsp.cs = "buSeg"
    BY <1>1, <1>3, <1>5 DEF Final
  <2> QED
    BY <1>3, <2>1, <2>2, <2>3 DEF Final, t
<1> QED
  BY <1>4, <1>5 DEF t

\* The responses of another node at the end of a queue.
LEMMA ConcatKeeps ==
  ASSUME NEW n, NEW S, NEW rs \in Seq(S), NEW out \in Seq(S), Silence(out, n)
  PROVE  /\ Silence(rs, n) => Silence(rs \o out, n)
         /\ Noise(rs, n) => Noise(rs \o out, n)
         /\ \A o, base : Streams(rs, n, o, base) => Streams(rs \o out, n, o, base)
         /\ \A i : Final(rs, i, n) =>
              i \in 1..Len(rs \o out) /\ Final(rs \o out, i, n) /\ (rs \o out)[i] = rs[i]
<1> DEFINE a == rs \o out
<1>1. /\ Len(rs) \in Nat /\ Len(out) \in Nat /\ Len(a) = Len(rs) + Len(out)
      /\ \A i \in 1..Len(rs) : a[i] = rs[i]
      /\ \A i \in 1..Len(out) : a[Len(rs) + i] = out[i]
  BY LenProperties, ConcatProperties
<1> HIDE DEF a
<1>2. ASSUME NEW i \in 1..Len(a), a[i].node = n PROVE i \in 1..Len(rs) /\ a[i] = rs[i]
  <2>1. CASE i \in 1..Len(rs)
    BY <1>1, <2>1
  <2>2. CASE i \notin 1..Len(rs)
    <3>1. i - Len(rs) \in 1..Len(out) /\ Len(rs) + (i - Len(rs)) = i
      BY <1>1, <2>2
    <3> QED
      BY <1>1, <1>2, <3>1 DEF Silence
  <2> QED
    BY <2>1, <2>2
<1>3. (Silence(rs, n) => Silence(a, n)) /\ (Noise(rs, n) => Noise(a, n))
  BY <1>2 DEF Silence, Noise
<1>4. ASSUME NEW o, NEW base, Streams(rs, n, o, base) PROVE Streams(a, n, o, base)
  BY <1>2, <1>4 DEF Streams
<1>5. ASSUME NEW i, Final(rs, i, n) PROVE i \in 1..Len(a) /\ Final(a, i, n) /\ a[i] = rs[i]
  <2>1. i \in 1..Len(rs) /\ i \in 1..Len(a) /\ a[i] = rs[i] /\ rs[i].node = n
    BY <1>1, <1>5 DEF Final
  <2>2. ASSUME NEW j \in 1..Len(a), a[j].node = n, j # i PROVE j < i /\ a[j].rsp.cs = "buSeg"
    BY <1>2, <1>5, <2>2 DEF Final
  <2> QED
    BY <2>1, <2>2 DEF Final
<1> QED
  BY <1>3, <1>4, <1>5 DEF a

\* One response of the node itself.
LEMMA OneArrives ==
  ASSUME NEW n, NEW S, NEW rs \in Seq(S), NEW e \in S, e.node = n, Noise(rs, n)
  PROVE  LET k == Len(rs) + 1 IN
           k \in 1..Len(rs \o <<e>>) /\ Final(rs \o <<e>>, k, n) /\ (rs \o <<e>>)[k] = e
<1> DEFINE k == Len(rs) + 1
           a == rs \o <<e>>
<1>1. /\ Len(rs) \in Nat /\ Len(a) = k /\ a[k] = e
      /\ \A i \in 1..Len(rs) : a[i] = rs[i]
  <2>1. <<e>> \in Seq(S) /\ Len(<<e>>) = 1 /\ <<e>>[1] = e
    OBVIOUS
  <2> QED
    BY <2>1, LenProperties, ConcatProperties
<1> HIDE DEF a
<1>2. ASSUME NEW j \in 1..Len(a), a[j].node = n, j # k PROVE j < k /\ a[j].rsp.cs = "buSeg"
  <2>1. j \in 1..Len(rs)
    BY <1>1, <1>2
  <2> QED
    BY <1>1, <1>2, <2>1 DEF Noise
<1>3. k \in 1..Len(a)
  BY <1>1
<1> QED
  BY <1>1, <1>2, <1>3 DEF Final, a

\* What a node sends, as it arrives.
From(n, out) == [i \in DOMAIN out |-> [node |-> n, rsp |-> out[i]]]

\* It arrives in that order, under the name of the node.
LEMMA FromIs ==
  ASSUME NEW n \in Nodes
  PROVE  /\ From(n, <<>>) = <<>>
         /\ \A m : From(n, <<m>>) = <<[node |-> n, rsp |-> m]>>
         /\ \A out \in Seq(Responses) :
              /\ From(n, out) \in Seq([node : Nodes, rsp : Responses]) /\ Len(From(n, out)) = Len(out)
              /\ \A i \in 1..Len(out) : From(n, out)[i] = [node |-> n, rsp |-> out[i]]
<1>1. From(n, <<>>) = <<>> /\ \A m : From(n, <<m>>) = <<[node |-> n, rsp |-> m]>>
  BY DEF From
<1>2. ASSUME NEW out \in Seq(Responses)
      PROVE  /\ From(n, out) \in Seq([node : Nodes, rsp : Responses]) /\ Len(From(n, out)) = Len(out)
             /\ \A i \in 1..Len(out) : From(n, out)[i] = [node |-> n, rsp |-> out[i]]
  <2>1. Len(out) \in Nat /\ DOMAIN out = 1..Len(out) /\ \A i \in 1..Len(out) : out[i] \in Responses
    BY LenProperties, ElementOfSeq
  <2>2. From(n, out) \in [1..Len(out) -> [node : Nodes, rsp : Responses]]
    BY <2>1 DEF From
  <2> QED
    BY <2>1, <2>2, IsASeq, LenProperties DEF From
<1> QED
  BY <1>1, <1>2

\* Requests that are served in order.
LEMMA RequestsPass ==
  ASSUME NEW rq \in Seq(Requests), rq # <<>>
  PROVE  /\ Head(rq) \in Requests /\ Tail(rq) \in Seq(Requests)
         /\ OnlyEnds(rq) => OnlyEnds(Tail(rq)) /\ Head(rq).op = "buEndAck"
         /\ Burst(rq) =>
              /\ Burst(Tail(rq)) /\ Head(rq).op = "bdSeg"
              /\ Tail(rq) # <<>> => Head(rq).seq # SrvBlk
         /\ Len(rq) = 1 => rq[1] = Head(rq) /\ Tail(rq) = <<>>
         /\ \A q : EndsWith(rq, q) =>
              \/ Head(rq) = q /\ Tail(rq) = <<>>
              \/ Head(rq).op = "buEndAck" /\ EndsWith(Tail(rq), q)
<1> DEFINE t == Tail(rq)
<1>1. /\ Len(rq) \in Nat \ {0} /\ Len(t) = Len(rq) - 1 /\ Head(rq) = rq[1] /\ Head(rq) \in Requests
      /\ t \in Seq(Requests) /\ \A i \in 1..Len(t) : t[i] = rq[i + 1] /\ i + 1 \in 1..Len(rq)
      /\ (t = <<>> <=> Len(t) = 0) /\ 1 \in 1..Len(rq)
  <2>1. Len(rq) \in Nat \ {0} /\ t \in Seq(Requests) /\ Len(t) = Len(rq) - 1
    BY HeadTailProperties, EmptySeq, LenProperties
  <2>2. Head(rq) = rq[1] /\ Head(rq) \in Requests /\ \A i \in 1..Len(t) : t[i] = rq[i + 1]
    BY HeadTailProperties
  <2>3. t = <<>> <=> Len(t) = 0
    BY <2>1, EmptySeq
  <2> HIDE DEF t
  <2> QED
    BY <2>1, <2>2, <2>3
<1> HIDE DEF t
<1>2. OnlyEnds(rq) => OnlyEnds(t) /\ Head(rq).op = "buEndAck"
  BY <1>1 DEF OnlyEnds
<1>3. ASSUME Burst(rq)
      PROVE  Burst(t) /\ Head(rq).op = "bdSeg" /\ (t # <<>> => Head(rq).seq # SrvBlk)
  <2>1. ASSUME NEW k \in 1..Len(t) PROVE t[k].op = "bdSeg" /\ (k < Len(t) => t[k].seq # SrvBlk)
    <3>1. k + 1 \in 1..Len(rq) /\ t[k] = rq[k + 1] /\ (k < Len(t) => k + 1 < Len(rq))
      BY <1>1
    <3> QED
      BY <1>3, <3>1 DEF Burst
  <2> QED
    BY <1>1, <1>3, <2>1 DEF Burst
<1>4. ASSUME NEW q, EndsWith(rq, q)
      PROVE  \/ Head(rq) = q /\ t = <<>>
             \/ Head(rq).op = "buEndAck" /\ EndsWith(t, q)
  <2>1. CASE Len(rq) = 1
    BY <1>1, <1>4, <2>1 DEF EndsWith
  <2>2. CASE Len(rq) # 1
    <3>1. t # <<>> /\ t[Len(t)] = q /\ Head(rq).op = "buEndAck"
      BY <1>1, <1>4, <2>2 DEF EndsWith
    <3>2. ASSUME NEW k \in 1..(Len(t) - 1) PROVE t[k].op = "buEndAck"
      <4>1. k \in 1..Len(t) /\ k + 1 \in 1..(Len(rq) - 1)
        BY <1>1
      <4> QED
        BY <1>1, <1>4, <4>1 DEF EndsWith
    <3> QED
      BY <3>1, <3>2 DEF EndsWith
  <2> QED
    BY <2>1, <2>2
<1> QED
  BY <1>1, <1>2, <1>3, <1>4 DEF t

\* An exchange goes on as long as its responses are there.
LEMMA InStepKept ==
  ASSUME NEW n, NEW e, NEW rs, NEW rs2, NEW rq, NEW s, NEW kind, InStep(n, e, rs, rq, s, kind),
         Silence(rs, n) => Silence(rs2, n), Noise(rs, n) => Noise(rs2, n),
         \A o, base : Streams(rs, n, o, base) => Streams(rs2, n, o, base),
         \A i : Final(rs, i, n) => \E j \in 1..Len(rs2) : Final(rs2, j, n) /\ rs2[j] = rs[i]
  PROVE  InStep(n, e, rs2, rq, s, kind)
<1>1. CASE e = None
  BY <1>1 DEF InStep, Rest
<1>2. CASE e # None
  <2> DEFINE p == e[1]
  <2>1. /\ p.st \in {"ulSeg", "buInit", "buProg", "buEnd"} => p.dir = "read"
        /\ p.started > 0 \/ p.active > 0 => Quiet(n, rs, rq, s, kind)
        /\ Exchange(n, p, rs, rq, s, kind)
    BY <1>2 DEF InStep
  <2> HIDE DEF p
  <2>2. Quiet(n, rs, rq, s, kind) => Quiet(n, rs2, rq, s, kind)
    BY DEF Quiet
  <2>3. Exchange(n, p, rs2, rq, s, kind)
    <3>1. CASE Opening(n, p, rs, rq, s, kind)
      BY <3>1 DEF Opening, Exchange
    <3>2. CASE Answered(n, p, rs, rq, s, kind)
      <4>1. PICK i \in 1..Len(rs) : Final(rs, i, n) /\ Fits(p, rs[i].rsp, s)
        BY <3>2 DEF Answered
      <4>2. PICK j \in 1..Len(rs2) : Final(rs2, j, n) /\ rs2[j] = rs[i]
        BY <4>1
      <4>3. Final(rs2, j, n) /\ Fits(p, rs2[j].rsp, s)
        BY <4>1, <4>2
      <4>4. Answered(n, p, rs2, rq, s, kind)
        BY <3>2, <4>3 DEF Answered
      <4> QED
        BY <4>4 DEF Exchange
    <3>3. CASE Requested(n, p, rs, rq, s, kind)
      BY <3>3 DEF Requested, Exchange
    <3>4. CASE Bursting(n, p, rs, rq, s)
      BY <3>4 DEF Bursting, Exchange
    <3>5. CASE Streaming(n, p, rs, rq, s)
      BY <3>5 DEF Streaming, Exchange
    <3>6. CASE Lost(n, p, rs, rq, s, kind)
      BY <3>6 DEF Lost, Rest, Exchange
    <3> QED
      BY <2>1, <3>1, <3>2, <3>3, <3>4, <3>5, <3>6 DEF Exchange
  <2> QED
    BY <1>2, <2>1, <2>2, <2>3 DEF InStep, p
<1> QED
  BY <1>1, <1>2

\* Responses of other nodes come and go.
LEMMA OthersPass ==
  ASSUME NEW n, NEW e, NEW S, NEW rs \in Seq(S), NEW rq, NEW s, NEW kind,
         InStep(n, e, rs, rq, s, kind)
  PROVE  /\ rs # <<>> /\ Head(rs).node # n => InStep(n, e, Tail(rs), rq, s, kind)
         /\ \A out \in Seq(S) : Silence(out, n) => InStep(n, e, rs \o out, rq, s, kind)
<1>1. ASSUME rs # <<>>, Head(rs).node # n PROVE InStep(n, e, Tail(rs), rq, s, kind)
  <2>1. rs[1] = Head(rs)
    BY <1>1, HeadTailProperties
  <2>2. ASSUME NEW i, Final(rs, i, n)
        PROVE  \E j \in 1..Len(Tail(rs)) : Final(Tail(rs), j, n) /\ Tail(rs)[j] = rs[i]
    <3>1. i # 1
      BY <1>1, <2>1, <2>2 DEF Final
    <3>2. rs \in Seq(S) /\ rs # <<>> /\ Head(rs) # rs[i] /\ i \in 1..Len(rs)
      BY <1>1, <2>1, <2>2 DEF Final
    <3>3. Final(rs, i, n)
      BY <2>2
    <3>4. \/ i = 1 /\ Head(rs) = rs[i] /\ Silence(Tail(rs), n)
          \/ /\ \E j \in 1..Len(Tail(rs)) : Final(Tail(rs), j, n) /\ Tail(rs)[j] = rs[i]
             /\ Head(rs).node = n => Head(rs).rsp.cs = "buSeg"
      BY <3>2, <3>3, FinalPasses
    <3> QED
      BY <3>2, <3>4
  <2> QED
    BY <1>1, <2>2, TailKeeps, InStepKept
<1>2. ASSUME NEW out \in Seq(S), Silence(out, n) PROVE InStep(n, e, rs \o out, rq, s, kind)
  <2>1. ASSUME NEW i, Final(rs, i, n)
        PROVE  \E j \in 1..Len(rs \o out) : Final(rs \o out, j, n) /\ (rs \o out)[j] = rs[i]
    BY <1>2, <2>1, ConcatKeeps
  <2> QED
    BY <1>2, <2>1, ConcatKeeps, InStepKept
<1> QED
  BY <1>1, <1>2

\* A response of the node itself at the head of the queue: the node is not quiet, so
\* the record is new, and no request nor burst is under way.
LEMMA OwnHead ==
  ASSUME NEW n, NEW p \in Records, NEW S, NEW rs \in Seq(S), NEW rq, NEW s, NEW kind,
         InStep(n, <<p>>, rs, rq, s, kind), rs # <<>>, Head(rs).node = n
  PROVE  /\ p.started = 0 /\ p.active = 0
         /\ p.st \in {"ulSeg", "buInit", "buProg", "buEnd"} => p.dir = "read"
         /\ Head(rs) = rs[1] /\ 1 \in 1..Len(rs)
         /\ \/ Opening(n, p, rs, rq, s, kind) \/ Answered(n, p, rs, rq, s, kind)
            \/ Streaming(n, p, rs, rq, s)
            \/ Lost(n, p, rs, rq, s, kind) /\ p.st # "buProg"
<1>1. Head(rs) = rs[1] /\ 1 \in 1..Len(rs)
  BY HeadTailProperties, EmptySeq, LenProperties
<1>2. ~Silence(rs, n)
  BY <1>1 DEF Silence
<1>3. /\ <<p>> # None /\ <<p>>[1] = p /\ p.started \in Nat /\ p.active \in Nat
  BY RecordFields, PendingConstantsOK DEF None, Ages
<1>4. /\ p.st \in {"ulSeg", "buInit", "buProg", "buEnd"} => p.dir = "read"
      /\ p.started > 0 \/ p.active > 0 => Quiet(n, rs, rq, s, kind)
      /\ Exchange(n, p, rs, rq, s, kind)
  BY <1>3 DEF InStep
<1>5. ~Quiet(n, rs, rq, s, kind)
  BY <1>2 DEF Quiet
<1> QED
  BY <1>1, <1>2, <1>3, <1>4, <1>5 DEF Exchange, Requested, Bursting, Lost

\* The entry of a new record is in step if its exchange is.
LEMMA InStepNew ==
  ASSUME NEW n, NEW p, NEW rs, NEW rq, NEW s, NEW kind, p.started = 0, p.active = 0,
         p.st \in {"ulSeg", "buInit", "buProg", "buEnd"} => p.dir = "read",
         Exchange(n, p, rs, rq, s, kind)
  PROVE  InStep(n, <<p>>, rs, rq, s, kind)
<1>1. <<p>> # None /\ <<p>>[1] = p
  BY DEF None
<1>2. ~(p.started > 0 \/ p.active > 0)
  OBVIOUS
<1> QED
  BY <1>1, <1>2 DEF InStep

\* The bus loses a response of the node.
LEMMA ResponseLost ==
  ASSUME NEW n, NEW p \in Records, NEW S, NEW rs \in Seq(S), NEW rq, NEW s, NEW kind,
         InStep(n, <<p>>, rs, rq, s, kind), rs # <<>>, Head(rs).node = n
  PROVE  InStep(n, <<p>>, Tail(rs), rq, s, kind)
<1>1. /\ p.started = 0 /\ p.active = 0
      /\ p.st \in {"ulSeg", "buInit", "buProg", "buEnd"} => p.dir = "read"
      /\ \/ Opening(n, p, rs, rq, s, kind) \/ Answered(n, p, rs, rq, s, kind)
         \/ Streaming(n, p, rs, rq, s)
         \/ Lost(n, p, rs, rq, s, kind) /\ p.st # "buProg"
  BY OwnHead
<1>2. /\ Noise(rs, n) => Noise(Tail(rs), n)
      /\ \A o, base : Streams(rs, n, o, base) => Streams(Tail(rs), n, o, base)
  BY TailKeeps
<1>3. Exchange(n, p, Tail(rs), rq, s, kind)
  <2>1. CASE Opening(n, p, rs, rq, s, kind)
    BY <1>2, <2>1 DEF Opening, Exchange
  <2>2. CASE Answered(n, p, rs, rq, s, kind)
    <3>1. PICK i \in 1..Len(rs) : Final(rs, i, n) /\ Fits(p, rs[i].rsp, s)
      BY <2>2 DEF Answered
    <3>2. CASE Silence(Tail(rs), n)
      <4>1. Lost(n, p, Tail(rs), rq, s, kind)
        BY <2>2, <3>2 DEF Answered, Lost, Rest, Silence, Noise, OnlyEnds
      <4> QED
        BY <4>1 DEF Exchange
    <3>3. ASSUME NEW j \in 1..Len(Tail(rs)), Final(Tail(rs), j, n), Tail(rs)[j] = rs[i]
          PROVE  Exchange(n, p, Tail(rs), rq, s, kind)
      <4>1. Answered(n, p, Tail(rs), rq, s, kind)
        BY <2>2, <3>1, <3>3 DEF Answered
      <4> QED
        BY <4>1 DEF Exchange
    <3>4. rs \in Seq(S) /\ rs # <<>> /\ Final(rs, i, n)
      BY <3>1
    <3> QED
      BY <3>2, <3>3, <3>4, FinalPasses
  <2>3. CASE Streaming(n, p, rs, rq, s)
    BY <1>2, <2>3 DEF Streaming, Exchange
  <2>4. CASE Lost(n, p, rs, rq, s, kind) /\ p.st # "buProg"
    BY <1>2, <2>4 DEF Lost, Rest, Exchange
  <2> QED
    BY <1>1, <2>1, <2>2, <2>3, <2>4 DEF Exchange
<1> QED
  BY <1>1, <1>3, InStepNew

\* The bus loses a request to the node.
LEMMA RequestLost ==
  ASSUME NEW n, NEW e, NEW rs, NEW rq \in Seq(Requests), rq # <<>>, NEW s, NEW kind,
         InStep(n, e, rs, rq, s, kind)
  PROVE  InStep(n, e, rs, Tail(rq), s, kind)
<1>1. CASE e = None
  BY <1>1, RequestsPass DEF InStep, Rest
<1>2. CASE e # None
  <2> DEFINE p == e[1]
  <2>1. /\ p.st \in {"ulSeg", "buInit", "buProg", "buEnd"} => p.dir = "read"
        /\ ~(p.started > 0 \/ p.active > 0)
        /\ Exchange(n, p, rs, rq, s, kind)
    BY <1>2 DEF InStep, Quiet
  <2> HIDE DEF p
  <2>2. OnlyEnds(<<>>)
    BY DEF OnlyEnds
  <2>3. Exchange(n, p, rs, Tail(rq), s, kind)
    <3>1. CASE Opening(n, p, rs, rq, s, kind)
      <4>1. CASE Tail(rq) = <<>>
        BY <2>2, <3>1, <4>1 DEF Opening, Lost, Rest, Exchange
      <4>2. CASE EndsWith(Tail(rq), First(p))
        BY <3>1, <4>2 DEF Opening, Exchange
      <4> QED
        BY <3>1, <4>1, <4>2, RequestsPass DEF Opening
    <3>2. CASE Requested(n, p, rs, rq, s, kind)
      BY <2>2, <3>2, RequestsPass DEF Requested, Lost, Rest, Exchange, Silence, Noise
    <3>3. CASE Bursting(n, p, rs, rq, s)
      BY <3>3, RequestsPass DEF Bursting, Exchange
    <3>4. CASE Lost(n, p, rs, rq, s, kind)
      BY <3>4, RequestsPass DEF Lost, Rest, Exchange
    <3> QED
      BY <2>1, <3>1, <3>2, <3>3, <3>4 DEF Exchange, Answered, Streaming
  <2> QED
    BY <1>2, <2>1, <2>3 DEF InStep, p
<1> QED
  BY <1>1, <1>2

\* Time passes while nothing is under way.
LEMMA QuietAges ==
  ASSUME NEW n, NEW p \in Records, NEW rs, NEW rq, NEW s, NEW kind, Quiet(n, rs, rq, s, kind),
         InStep(n, <<p>>, rs, rq, s, kind)
  PROVE  InStep(n, <<Aged(p)>>, rs, rq, s, kind)
<1> DEFINE a == Aged(p)
<1>1. a.st = p.st /\ a.dir = p.dir
  BY RecordFields DEF Aged, Records, Slots
<1> HIDE DEF a
<1>2. <<a>> # None /\ <<a>>[1] = a /\ <<p>> # None /\ <<p>>[1] = p
  BY DEF None
<1>3. Lost(n, a, rs, rq, s, kind)
  BY DEF Lost, Rest, Quiet, Silence, Noise, OnlyEnds
<1> QED
  BY <1>1, <1>2, <1>3 DEF InStep, Exchange, a

\* A record is overdue only when nothing is under way.
LEMMA DueIsQuiet ==
  ASSUME NEW n, NEW p \in Records, NEW rs, NEW rq, NEW s, NEW kind,
         InStep(n, <<p>>, rs, rq, s, kind), Due(p)
  PROVE  Rest(n, rs, rq, s, kind)
<1>1. <<p>> # None /\ <<p>>[1] = p /\ p.started \in Nat /\ p.active \in Nat
  BY RecordFields, PendingConstantsOK DEF None, Ages
<1>2. StageTimeout(p) \in Nat \ {0}
  BY PendingConstantsOK DEF StageTimeout
<1>3. p.started > 0 \/ p.active > 0
  BY <1>1, <1>2 DEF Due
<1> QED
  BY <1>1, <1>3 DEF InStep, Quiet, Rest, Silence, Noise, OnlyEnds

\* A command for a node without a record.
LEMMA CommandOpens ==
  ASSUME NEW n, NEW c \in Asks, NEW without, NEW rs, NEW rq \in Seq(Requests), NEW s, NEW kind,
         InStep(n, None, rs, rq, s, kind)
  PROVE  InStep(n, <<Start(c, without).p>>, rs, Append(rq, Start(c, without).out), s, kind)
<1> DEFINE p == Start(c, without).p
           q == Start(c, without).out
           a == Append(rq, q)
<1>1. Rest(n, rs, rq, s, kind)
  BY DEF InStep
<1>2. c.dir \in {"read", "write"} /\ Segs[c.obj] \in Nat
  BY ServerConstantsOK DEF Asks
<1>3. /\ p.st \in {"wait", "dlSeg", "bdInit", "buInit"} /\ p.sent = 0 /\ p.started = 0 /\ p.active = 0
      /\ p.st \in {"ulSeg", "buInit", "buProg", "buEnd"} => p.dir = "read"
      /\ q = First(p)
  <2>1. CASE c.dir = "read"
    BY <2>1 DEF Start, Entry, First
  <2>2. CASE c.dir = "write"
    BY <1>2, <2>2 DEF Start, Entry, First
  <2> QED
    BY <1>2, <2>1, <2>2
<1>4. q \in Requests
  BY StartIs
<1> HIDE DEF p, q
<1>5. EndsWith(a, q)
  <2>1. Len(a) = Len(rq) + 1 /\ a[Len(a)] = q /\ Len(rq) \in Nat /\ \A k \in 1..Len(rq) : a[k] = rq[k]
    BY <1>4, AppendProperties, LenProperties
  <2>2. a # <<>>
    BY <2>1
  <2> HIDE DEF a
  <2> QED
    BY <1>1, <2>1, <2>2 DEF EndsWith, Rest, OnlyEnds
<1> HIDE DEF a
<1>6. Opening(n, p, rs, a, s, kind)
  BY <1>1, <1>3, <1>5 DEF Opening, Rest
<1>7. InStep(n, <<p>>, rs, a, s, kind)
  BY <1>3, <1>6, InStepNew DEF Exchange
<1> QED
  BY <1>7 DEF p, q, a

\* The server at rest and at the start of a transfer: no sub-block to be late with.
LEMMA ServersStart ==
  ASSUME NEW s \in Servers
  PROVE  /\ \A done : /\ IdleServer(done).ph = "idle" /\ IdleServer(done).n = 0
                      /\ IdleServer(done).done = done
         /\ \A ph, o : /\ Begin(s, ph, o).ph = ph /\ Begin(s, ph, o).obj = o /\ Begin(s, ph, o).n = 0
                       /\ Begin(s, ph, o).done = s.done
         /\ \A t, kind : t.ph # "bd" \/ t.n = 0 => ~SubBlockStalls(t, kind)
  BY DEF IdleServer, Begin, SubBlockStalls

\* A single response, with which the node ends what it was doing or goes on.
Replies(p, r, kind) ==
  \E m \in Responses : r.out = <<m>> /\ Fits(p, m, r.srv) /\ ~SubBlockStalls(r.srv, kind)

\* The end of a transfer by an abort is a reply to any record.
LEMMA AbortReplies ==
  ASSUME NEW s \in Servers, NEW p, NEW kind, NEW o \in Objects, NEW c \in Codes,
         c # "ok", NEW r \in Ends(s, <<AbortRsp(o, c)>>)
  PROVE  Replies(p, r, kind)
<1>1. AbortRsp(o, c) \in Responses /\ AbortRsp(o, c).cs = "abort" /\ AbortRsp(o, c).code = c
  BY ResponsesAre DEF AbortRsp
<1>2. r.srv = IdleServer(s.done) /\ r.out = <<AbortRsp(o, c)>>
  BY DEF Ends, Reaction
<1>3. ~SubBlockStalls(r.srv, kind)
  BY <1>2, ServersStart
<1> QED
  BY <1>1, <1>2, <1>3 DEF Replies, Fits

\* So is a refusal of what does not belong to the transfer the node is in.
LEMMA RefusalReplies ==
  ASSUME NEW s \in Servers, NEW p, NEW kind, NEW r \in Refuses(s)
  PROVE  Replies(p, r, kind)
<1>1. s.obj \in Objects /\ "badCommand" \in Codes
  BY ServerFields DEF Codes
<1> QED
  BY <1>1, AbortReplies DEF Refuses

\* The first request of a transfer gets one reply, whatever the node was doing.
LEMMA FirstIsServed ==
  ASSUME NEW s \in Servers, NEW p \in Records, NEW kind, p.sent = 0,
         p.st \in {"wait", "dlSeg", "bdInit", "buInit"}, p.st = "buInit" => p.dir = "read",
         NEW r \in Serve(s, First(p), kind)
  PROVE  Replies(p, r, kind)
<1> DEFINE q == First(p)
           o == p.obj
<1>1. o \in Objects /\ p.dir \in {"read", "write"}
  BY RecordFields DEF Directions
<1>2. /\ q.op = CASE p.st = "wait" /\ p.dir = "read" -> "ul" [] p.st = "wait" /\ p.dir # "read" -> "dlX"
                  [] p.st = "dlSeg" -> "dl" [] p.st = "bdInit" -> "bd" [] p.st = "buInit" -> "bu"
      /\ q.obj = o /\ (p.st = "buInit" => q.blk = BlockSize)
  BY DEF First, Upload, Expedited, Download, BlockDownload, BlockUpload
<1> HIDE DEF q
<1>3. r \in ServeInitiate(s, q, kind)
  BY <1>2 DEF Serve, q
<1>4. /\ ExpeditedRsp(o) \in Responses /\ UploadRsp(o) \in Responses /\ DownloadRsp(o) \in Responses
      /\ BlockDownloadRsp \in Responses /\ BlockUploadRsp \in Responses
  BY <1>1, ResponsesAre
<1>5. CASE o \in Missing
  <2>1. r \in Ends(s, <<AbortRsp(o, "refused")>>)
    BY <1>2, <1>3, <1>5 DEF ServeInitiate
  <2> QED
    BY <1>1, <2>1, AbortReplies DEF Codes
<1>6. CASE o \notin Missing /\ p.st = "wait" /\ p.dir = "read"
  <2>1. CASE Segs[o] = 0
    <3>1. r = Reaction(IdleServer(s.done), <<ExpeditedRsp(o)>>)
      BY <1>2, <1>3, <1>6, <2>1 DEF ServeInitiate, Ends
    <3>2. r.out = <<ExpeditedRsp(o)>> /\ ~SubBlockStalls(r.srv, kind)
      BY <3>1, ServersStart DEF Reaction
    <3>3. Fits(p, ExpeditedRsp(o), r.srv)
      BY <1>6 DEF Fits, ExpeditedRsp
    <3> QED
      BY <1>4, <3>2, <3>3 DEF Replies
  <2>2. CASE Segs[o] # 0
    <3>1. r = Reaction(Begin(s, "ul", o), <<UploadRsp(o)>>)
      BY <1>2, <1>3, <1>6, <2>2 DEF ServeInitiate
    <3>2. /\ r.out = <<UploadRsp(o)>> /\ ~SubBlockStalls(r.srv, kind)
          /\ r.srv.ph = "ul" /\ r.srv.obj = o /\ r.srv.n = 0
      BY <3>1, ServersStart DEF Reaction
    <3>3. Fits(p, UploadRsp(o), r.srv)
      BY <1>6, <3>2 DEF Fits, UploadRsp
    <3> QED
      BY <1>4, <3>2, <3>3 DEF Replies
  <2> QED
    BY <2>1, <2>2
<1>7. CASE o \notin Missing /\ p.st = "wait" /\ p.dir # "read"
  <2>1. r = Reaction(IdleServer(s.done \cup {o}), <<DownloadRsp(o)>>)
    BY <1>2, <1>3, <1>7 DEF ServeInitiate, Commits
  <2>2. r.out = <<DownloadRsp(o)>> /\ ~SubBlockStalls(r.srv, kind) /\ o \in r.srv.done
    BY <2>1, ServersStart DEF Reaction
  <2>3. Fits(p, DownloadRsp(o), r.srv)
    BY <1>7, <2>2 DEF Fits, DownloadRsp
  <2> QED
    BY <1>4, <2>2, <2>3 DEF Replies
<1>8. CASE o \notin Missing /\ p.st = "dlSeg"
  <2>1. r = Reaction(Begin(s, "dl", o), <<DownloadRsp(o)>>)
    BY <1>2, <1>3, <1>8 DEF ServeInitiate
  <2>2. r.out = <<DownloadRsp(o)>> /\ ~SubBlockStalls(r.srv, kind) /\ r.srv.obj = o
    BY <2>1, ServersStart DEF Reaction
  <2>3. Fits(p, DownloadRsp(o), r.srv)
    BY <1>8, <2>2 DEF Fits, DownloadRsp
  <2> QED
    BY <1>4, <2>2, <2>3 DEF Replies
<1>9. CASE o \notin Missing /\ p.st \in {"bdInit", "buInit"}
  <2>1. CASE kind = "segmented"
    <3>1. \E c \in {"badCommand", "timeout"} : r \in Ends(s, <<AbortRsp(o, c)>>)
      BY <1>2, <1>3, <1>9, <2>1 DEF ServeInitiate
    <3> QED
      BY <1>1, <3>1, AbortReplies DEF Codes
  <2>2. CASE kind # "segmented" /\ p.st = "bdInit"
    <3>1. r = Reaction(Begin(s, "bd", o), <<BlockDownloadRsp>>)
      BY <1>2, <1>3, <1>9, <2>2 DEF ServeInitiate
    <3>2. /\ r.out = <<BlockDownloadRsp>> /\ ~SubBlockStalls(r.srv, kind)
          /\ r.srv.ph = "bd" /\ r.srv.obj = o
      BY <3>1, ServersStart DEF Reaction
    <3>3. Fits(p, BlockDownloadRsp, r.srv)
      BY <2>2, <3>2 DEF Fits, BlockDownloadRsp
    <3> QED
      BY <1>4, <3>2, <3>3 DEF Replies
  <2>3. CASE kind # "segmented" /\ p.st = "buInit"
    <3>1. r = Reaction([Begin(s, "bu", o) EXCEPT !.blk = BlockSize], <<BlockUploadRsp>>)
      BY <1>2, <1>3, <1>9, <2>3 DEF ServeInitiate
    <3>2. /\ r.out = <<BlockUploadRsp>> /\ ~SubBlockStalls(r.srv, kind)
          /\ r.srv.ph = "bu" /\ r.srv.obj = o /\ r.srv.n = 0 /\ r.srv.blk = BlockSize
      <4>1. r.srv = [Begin(s, "bu", o) EXCEPT !.blk = BlockSize] /\ r.out = <<BlockUploadRsp>>
        BY <3>1 DEF Reaction
      <4> QED
        BY <4>1 DEF Begin, IdleServer, SubBlockStalls
    <3>3. Fits(p, BlockUploadRsp, r.srv)
      BY <2>3, <3>2 DEF Fits, BlockUploadRsp, Uploads
    <3> QED
      BY <1>4, <3>2, <3>3 DEF Replies
  <2> QED
    BY <1>9, <2>1, <2>2, <2>3
<1> QED
  BY <1>1, <1>5, <1>6, <1>7, <1>8, <1>9

\* So does the next one of a segmented transfer, and the end of a block download.
LEMMA NextIsServed ==
  ASSUME NEW s \in Servers, NEW p \in Records, NEW kind, NEW q \in Requests, Owed(p, q, s),
         q.op \in {"ulSeg", "dlSeg", "bdEnd"}, NEW r \in Serve(s, q, kind)
  PROVE  Replies(p, r, kind)
<1>1. s.n \in Nat /\ s.obj \in Objects /\ SegCount(s.obj) \in Nat
  BY ServerFields
<1>2. CASE q.op = "ulSeg"
  <2>1. r \in ServeUploadSeg(s, q) /\ p.st = "ulSeg" /\ p.buf = Prefix(p.obj, Len(p.buf))
    BY <1>2 DEF Serve, Owed
  <2>2. CASE s.ph # "ul" \/ q.t # s.t
    BY <2>1, <2>2, RefusalReplies DEF ServeUploadSeg
  <2>3. CASE s.ph = "ul" /\ q.t = s.t
    <3> DEFINE last == s.n + 1 = SegCount(s.obj)
               m == UploadSegRsp(<<s.obj, s.n + 1>>, last)
               u == IF last THEN IdleServer(s.done) ELSE [s EXCEPT !.n = @ + 1, !.t = ~@]
    <3>1. r = Reaction(u, <<m>>)
      BY <2>1, <2>3 DEF ServeUploadSeg, Ends
    <3>2. s.obj = p.obj /\ s.n = Len(p.buf) /\ s.n < SegCount(s.obj)
      BY <1>2, <2>3, ServerFields DEF Owed
    <3>3. m \in Responses
      <4>1. s.n + 1 \in 1..SegCount(s.obj) /\ last \in BOOLEAN
        BY <1>1, <3>2
      <4>2. <<s.obj, s.n + 1>> \in Segments
        BY <1>1, <4>1, IsSegment
      <4> QED
        BY <4>1, <4>2, ResponsesAre
    <3>4. m.cs = "ulSeg" /\ m.dat = <<<<p.obj, Len(p.buf) + 1>>>> /\ (m.last <=> last)
      BY <3>2 DEF UploadSegRsp
    <3>5. /\ ~SubBlockStalls(u, kind)
          /\ ~last => u.ph = "ul" /\ u.obj = p.obj /\ u.n = Len(p.buf) + 1
      BY <2>3, <3>2, ServerFields DEF IdleServer, SubBlockStalls, Servers, Machines
    <3>6. r.srv = u /\ r.out = <<m>>
      BY <3>1 DEF Reaction
    <3> HIDE DEF m, u
    <3>7. Fits(p, m, u)
      BY <2>1, <3>2, <3>4, <3>5 DEF Fits
    <3> QED
      BY <3>3, <3>5, <3>6, <3>7 DEF Replies
  <2> QED
    BY <2>2, <2>3
<1>3. CASE q.op = "dlSeg"
  <2>1. r \in ServeDownloadSeg(s, q) /\ p.st = "dlSeg" /\ (q.last <=> p.sent = SegCount(p.obj))
    BY <1>3 DEF Serve, Owed
  <2>2. ASSUME s.ph = "dl", NEW u, r = Reaction(u, <<DownloadSegRsp(q.t)>>), u.ph # "bd",
               u.ph = "dl" => u.obj = p.obj, q.last => p.obj \in u.done
        PROVE  Replies(p, r, kind)
    <3>1. DownloadSegRsp(q.t) \in Responses /\ DownloadSegRsp(q.t).cs = "segAck"
      BY <1>3, RequestFields, ResponsesAre DEF DownloadSegRsp
    <3>2. Fits(p, DownloadSegRsp(q.t), u)
      BY <2>1, <2>2, <3>1 DEF Fits
    <3>3. r.srv = u /\ r.out = <<DownloadSegRsp(q.t)>> /\ ~SubBlockStalls(u, kind)
      BY <2>2 DEF Reaction, SubBlockStalls
    <3> QED
      BY <3>1, <3>2, <3>3 DEF Replies
  <2>3. CASE s.ph # "dl" \/ q.t # s.t
    BY <2>1, <2>3, RefusalReplies DEF ServeDownloadSeg
  <2>4. CASE s.ph = "dl" /\ q.t = s.t
    <3> DEFINE got == s.got \o q.dat
    <3>1. s.obj = p.obj /\ q.last \in BOOLEAN
      BY <1>3, <2>4, RequestFields DEF Owed
    <3>2. CASE ~q.last
      <4> DEFINE u == [s EXCEPT !.got = got, !.t = ~@]
      <4>1. r = Reaction(u, <<DownloadSegRsp(q.t)>>)
        BY <2>1, <2>4, <3>2 DEF ServeDownloadSeg
      <4>2. u.ph = "dl" /\ u.obj = p.obj
        BY <2>4, <3>1, ServerFields DEF Servers, Machines
      <4> HIDE DEF u
      <4> QED
        BY <2>2, <2>4, <3>2, <4>1, <4>2
    <3>3. CASE q.last /\ got = Whole(s.obj)
      <4> DEFINE u == IdleServer(s.done \cup {s.obj})
      <4>1. r = Reaction(u, <<DownloadSegRsp(q.t)>>)
        BY <2>1, <2>4, <3>3 DEF ServeDownloadSeg, Commits
      <4>2. u.ph = "idle" /\ p.obj \in u.done
        BY <3>1, ServersStart
      <4> HIDE DEF u
      <4> QED
        BY <2>2, <2>4, <4>1, <4>2
    <3>4. CASE q.last /\ got # Whole(s.obj)
      BY <2>1, <2>4, <3>4, RefusalReplies DEF ServeDownloadSeg
    <3> QED
      BY <3>1, <3>2, <3>3, <3>4
  <2> QED
    BY <2>3, <2>4
<1>4. CASE q.op = "bdEnd"
  <2>1. r \in ServeBlockEnd(s, q, kind) /\ p.st = "bdEnd"
    BY <1>4 DEF Serve, Owed
  <2>2. CASE s.ph # "bd"
    BY <2>1, <2>2, RefusalReplies DEF ServeBlockEnd
  <2>3. CASE s.ph = "bd" /\ kind = "strict"
    <3> DEFINE u == [s EXCEPT !.n = 0]
    <3>1. r.srv = u /\ r.out = <<SubBlockRsp(s.n)>>
      BY <2>1, <2>3 DEF ServeBlockEnd, Reaction
    <3>2. u.ph = "bd" /\ u.obj = p.obj /\ ~SubBlockStalls(u, kind)
      BY <1>4, <2>3, ServerFields DEF Owed, SubBlockStalls, Servers, Machines
    <3>3. SubBlockRsp(s.n) \in Responses
      BY <1>1, ResponsesAre
    <3>4. Fits(p, SubBlockRsp(s.n), u)
      BY <2>1, <3>2 DEF Fits, SubBlockRsp
    <3> QED
      BY <3>1, <3>2, <3>3, <3>4 DEF Replies
  <2>4. CASE s.ph = "bd" /\ kind # "strict"
    <3>1. \/ r \in Refuses(s)
          \/ r = Reaction(IdleServer(s.done \cup {s.obj}), <<BlockEndRsp>>)
      BY <2>1, <2>4 DEF ServeBlockEnd, Commits
    <3>2. CASE r = Reaction(IdleServer(s.done \cup {s.obj}), <<BlockEndRsp>>)
      <4>1. r.out = <<BlockEndRsp>> /\ s.obj \in r.srv.done /\ ~SubBlockStalls(r.srv, kind)
        BY <3>2, ServersStart DEF Reaction
      <4>2. Fits(p, BlockEndRsp, r.srv)
        BY <1>4, <2>1, <2>4, <4>1 DEF Fits, Owed, BlockEndRsp
      <4> QED
        BY <4>1, <4>2, ResponsesAre DEF Replies
    <3> QED
      BY <3>1, <3>2, RefusalReplies
  <2> QED
    BY <2>2, <2>3, <2>4
<1> QED
  BY <1>2, <1>3, <1>4

\* Reaction(s, out) by its parts.
LEMMA ReactionParts == \A s, out : Reaction(s, out).srv = s /\ Reaction(s, out).out = out
  BY DEF Reaction

\* The reply of a node is the final response.
LEMMA ReplyAnswers ==
  ASSUME NEW n \in Nodes, NEW p, NEW rs \in Seq([node : Nodes, rsp : Responses]), Noise(rs, n),
         NEW r, NEW kind, Replies(p, r, kind), p.st # "buProg"
  PROVE  Answered(n, p, rs \o From(n, r.out), <<>>, r.srv, kind)
<1> DEFINE S == [node : Nodes, rsp : Responses]
<1>1. PICK m \in Responses : r.out = <<m>> /\ Fits(p, m, r.srv) /\ ~SubBlockStalls(r.srv, kind)
  BY DEF Replies
<1> DEFINE e == [node |-> n, rsp |-> m]
           k == Len(rs) + 1
           a == rs \o <<e>>
<1>2. From(n, r.out) = <<e>> /\ e \in S /\ e.node = n /\ e.rsp = m
  BY <1>1, FromIs
<1> HIDE DEF e
<1>3. k \in 1..Len(a) /\ Final(a, k, n) /\ a[k] = e
  <2> HIDE DEF S
  <2>1. LET j == Len(rs) + 1 IN
          j \in 1..Len(rs \o <<e>>) /\ Final(rs \o <<e>>, j, n) /\ (rs \o <<e>>)[j] = e
    <3>1. rs \in Seq(S) /\ e \in S /\ e.node = n /\ Noise(rs, n)
      BY <1>2 DEF S
    <3> QED
      BY <3>1, OneArrives
  <2> QED
    BY <2>1
<1> HIDE DEF k, a
<1>4. Answered(n, p, a, <<>>, r.srv, kind)
  BY <1>1, <1>2, <1>3 DEF Answered
<1> QED
  BY <1>2, <1>4 DEF a

\* A sub-block of an upload is streamed.
LEMMA SubBlockStreams ==
  ASSUME NEW n \in Nodes, NEW p, NEW rs \in Seq([node : Nodes, rsp : Responses]), Silence(rs, n),
         NEW s \in Servers, p.st = "buProg", Uploads(p, s), p.exp = 1, p.buf = Prefix(p.obj, s.n)
  PROVE  Streaming(n, p, rs \o From(n, SubBlock(s)), <<>>, s)
<1> DEFINE out == SubBlock(s)
           o == s.obj
           f == From(n, out)
           a == rs \o f
<1>1. s.n \in Nat /\ SegCount(o) \in Nat /\ BlockSize \in Nat /\ s.blk = BlockSize /\ o = p.obj
  BY ServerFields, PendingConstantsOK DEF Uploads
<1>2. out \in Seq(Responses)
  BY SubBlockIs
<1>3. ASSUME NEW i \in 1..Len(out)
      PROVE  /\ out[i] = BlockSegRsp(i, <<o, s.n + i>>, s.n + i = SegCount(o))
             /\ i \in 1..BlockSize /\ s.n + i <= SegCount(o)
  <2> DEFINE rest == SegCount(o) - s.n
             k == IF rest < s.blk THEN rest ELSE s.blk
  <2>1. out = [j \in 1..k |-> BlockSegRsp(j, <<o, s.n + j>>, s.n + j = SegCount(o))]
    BY DEF SubBlock
  <2>2. k \in Int /\ k <= rest /\ k <= BlockSize
    BY <1>1
  <2>3. DOMAIN out = 1..k /\ DOMAIN out = 1..Len(out)
    BY <1>2, <2>1, LenProperties
  <2> HIDE DEF k, out
  <2>4. i \in 1..k
    BY <2>3
  <2> QED
    BY <1>1, <2>1, <2>2, <2>4
<1>4. /\ f \in Seq([node : Nodes, rsp : Responses]) /\ Len(f) = Len(out)
      /\ \A i \in 1..Len(out) : f[i] = [node |-> n, rsp |-> out[i]]
  BY <1>2, FromIs
<1> HIDE DEF out, f, o
<1>5. /\ Len(rs) \in Nat /\ Len(f) \in Nat /\ Len(a) = Len(rs) + Len(f)
      /\ \A i \in 1..Len(rs) : a[i] = rs[i]
      /\ \A i \in 1..Len(f) : a[Len(rs) + i] = f[i]
  <2> DEFINE S == [node : Nodes, rsp : Responses]
  <2>1. rs \in Seq(S) /\ f \in Seq(S)
    BY <1>4
  <2> HIDE DEF S
  <2> QED
    BY <2>1, LenProperties, ConcatProperties
<1> HIDE DEF a
<1>6. ASSUME NEW i \in 1..Len(a), a[i].node = n
      PROVE  i - Len(rs) \in 1..Len(out) /\ a[i].rsp = out[i - Len(rs)]
  <2>1. i \notin 1..Len(rs)
    BY <1>5, <1>6 DEF Silence
  <2>2. i - Len(rs) \in 1..Len(f) /\ Len(rs) + (i - Len(rs)) = i
    BY <1>5, <2>1
  <2>3. a[i] = f[i - Len(rs)]
    BY <1>5, <2>2
  <2>4. i - Len(rs) \in 1..Len(out)
    BY <1>4, <2>2
  <2>5. f[i - Len(rs)] = [node |-> n, rsp |-> out[i - Len(rs)]]
    BY <1>4, <2>4
  <2> QED
    BY <2>3, <2>4, <2>5
<1>7. ASSUME NEW i \in 1..Len(a), a[i].node = n
      PROVE  LET m == a[i].rsp IN
               /\ m.cs = "buSeg" /\ m.seq \in 1..BlockSize /\ s.n + m.seq <= SegCount(o)
               /\ m.dat = <<<<o, s.n + m.seq>>>> /\ (m.last <=> s.n + m.seq = SegCount(o))
               /\ m.seq = i - Len(rs)
  <2> DEFINE j == i - Len(rs)
  <2>1. j \in 1..Len(out) /\ a[i].rsp = out[j]
    BY <1>6, <1>7
  <2>2. /\ a[i].rsp = BlockSegRsp(j, <<o, s.n + j>>, s.n + j = SegCount(o))
        /\ j \in 1..BlockSize /\ s.n + j <= SegCount(o)
    BY <1>3, <2>1
  <2> HIDE DEF j
  <2>3. a[i].rsp.seq = j
    BY <2>2 DEF BlockSegRsp
  <2>4. /\ a[i].rsp.cs = "buSeg" /\ a[i].rsp.dat = <<<<o, s.n + j>>>>
        /\ a[i].rsp.last = (s.n + j = SegCount(o))
    BY <2>2 DEF BlockSegRsp
  <2> QED
    BY <2>2, <2>3, <2>4 DEF j
<1>8. ASSUME NEW i \in 1..Len(a), NEW j \in 1..Len(a), i < j, a[i].node = n, a[j].node = n
      PROVE  a[i].rsp.seq < a[j].rsp.seq
  <2>1. a[i].rsp.seq = i - Len(rs) /\ a[j].rsp.seq = j - Len(rs)
    BY <1>7, <1>8
  <2> QED
    BY <1>5, <1>8, <2>1
<1>9. Streams(a, n, o, s.n)
  BY <1>7, <1>8 DEF Streams
<1>10. s.n + p.exp - 1 = s.n
  BY <1>1
<1> QED
  BY <1>1, <1>9, <1>10 DEF Streaming, a, f, out, o

\* No segments.
LEMMA NoSegments == \A o : Prefix(o, 0) = <<>>
  BY DEF Prefix

\* The start of a sub-block, and the acknowledgement that asks for the next.
LEMMA BlocksAreServed ==
  ASSUME NEW n \in Nodes, NEW p \in Records, NEW rs \in Seq([node : Nodes, rsp : Responses]),
         Silence(rs, n), NEW s \in Servers, NEW q \in Requests, q.op \in {"buStart", "buAck"},
         Owed(p, q, s), NEW kind, NEW r \in Serve(s, q, kind)
  PROVE  Exchange(n, p, rs \o From(n, r.out), <<>>, r.srv, kind)
<1>1. CASE q.op = "buStart"
  <2>1. /\ p.st = "buProg" /\ Uploads(p, s) /\ p.buf = <<>> /\ p.exp = 1 /\ s.n = 0
        /\ r \in IF s.ph = "bu" THEN {Reaction(s, SubBlock(s))} ELSE Refuses(s)
    BY <1>1 DEF Owed, Serve
  <2>2. r.srv = s /\ r.out = SubBlock(s)
    BY <2>1, ReactionParts DEF Uploads
  <2>3. p.buf = Prefix(p.obj, s.n)
    BY <2>1, NoSegments
  <2> QED
    BY <2>1, <2>2, <2>3, SubBlockStreams DEF Exchange
<1>2. CASE q.op = "buAck"
  <2> DEFINE u == [s EXCEPT !.n = @ + q.seq]
  <2>1. /\ Uploads(p, s) /\ p.exp = 1 /\ p.buf = Prefix(p.obj, s.n + q.seq)
        /\ \/ p.st = "buEnd" /\ s.n + q.seq = SegCount(p.obj)
           \/ p.st = "buProg" /\ s.n + q.seq < SegCount(p.obj)
        /\ r \in ServeBlockAck(s, q)
    BY <1>2 DEF Owed, Serve
  <2>2. /\ u.n = s.n + q.seq /\ u.ph = "bu" /\ u.obj = p.obj /\ u.blk = BlockSize /\ u \in Servers
        /\ s.obj = p.obj /\ u.n \in Nat
    <3>1. s \in Machines /\ s.n \in Nat /\ q.seq \in Nat /\ s.ph = "bu"
      BY <1>2, <2>1, ServerFields, RequestFields DEF Uploads
    <3> QED
      BY <2>1, <3>1 DEF Machines, Servers, Uploads
  <2>3. r = IF u.n = SegCount(s.obj) THEN Reaction([u EXCEPT !.ph = "buEnd"], <<BlockUploadEnd(s.obj)>>)
            ELSE Reaction(u, SubBlock(u))
    BY <2>1 DEF ServeBlockAck, Uploads
  <2>4. CASE p.st = "buEnd" /\ s.n + q.seq = SegCount(p.obj)
    <3>1. r.srv = [u EXCEPT !.ph = "buEnd"] /\ r.out = <<BlockUploadEnd(p.obj)>>
      BY <2>2, <2>3, <2>4, ReactionParts
    <3>2. BlockUploadEnd(p.obj) \in Responses /\ BlockUploadEnd(p.obj).cs = "buEnd"
      BY RecordFields, ResponsesAre DEF BlockUploadEnd
    <3>3. p.buf = Whole(p.obj)
      BY <2>1, <2>4 DEF Whole, Prefix
    <3>4. r.srv.ph = "buEnd"
      BY <2>2, <3>1 DEF Servers, Machines
    <3>5. Replies(p, r, kind)
      BY <2>4, <3>1, <3>2, <3>3, <3>4 DEF Replies, Fits, SubBlockStalls
    <3>6. Noise(rs, n)
      BY DEF Silence, Noise
    <3> QED
      BY <2>4, <3>5, <3>6, ReplyAnswers DEF Exchange
  <2>5. CASE p.st = "buProg" /\ s.n + q.seq < SegCount(p.obj)
    <3>1. u.n # SegCount(s.obj)
      BY <2>2, <2>5, RecordFields
    <3>2. r.srv = u /\ r.out = SubBlock(u)
      BY <2>3, <3>1, ReactionParts
    <3> HIDE DEF u
    <3>3. Uploads(p, u) /\ p.buf = Prefix(p.obj, u.n)
      BY <2>1, <2>2 DEF Uploads
    <3> QED
      BY <2>1, <2>2, <2>5, <3>2, <3>3, SubBlockStreams DEF Exchange
  <2> QED
    BY <2>1, <2>4, <2>5
<1> QED
  BY <1>1, <1>2

\* A segment of a burst: the last one is acknowledged, if it ends the sub-block.
LEMMA BurstIsServed ==
  ASSUME NEW n \in Nodes, NEW p \in Records, NEW rs \in Seq([node : Nodes, rsp : Responses]),
         NEW rq \in Seq(Requests), rq # <<>>, NEW s \in Servers, Bursting(n, p, rs, rq, s),
         NEW kind, NEW r \in Serve(s, Head(rq), kind)
  PROVE  Exchange(n, p, rs \o From(n, r.out), Tail(rq), r.srv, kind)
<1> DEFINE q == Head(rq)
<1>1. /\ q \in Requests /\ q.op = "bdSeg" /\ Burst(Tail(rq)) /\ (Tail(rq) # <<>> => q.seq # SrvBlk)
      /\ p.st = "bdProg" /\ Silence(rs, n) /\ s.ph = "bd" /\ s.obj = p.obj
  BY RequestsPass DEF Bursting
<1>2. r \in ServeBlockSeg(s, q)
  BY <1>1 DEF Serve
<1> HIDE DEF q
<1> DEFINE inOrder == q.seq = s.n + 1
           k == IF inOrder THEN q.seq ELSE s.n
           u == [s EXCEPT !.got = IF inOrder THEN Append(@, q.dat) ELSE @, !.n = k]
<1>3. r = IF q.seq = SrvBlk THEN Reaction([u EXCEPT !.n = 0], <<SubBlockRsp(k)>>)
          ELSE Reaction(u, <<>>)
  BY <1>1, <1>2 DEF ServeBlockSeg
<1>4. u.ph = "bd" /\ u.obj = p.obj /\ k \in Nat
      /\ [u EXCEPT !.n = 0].ph = "bd" /\ [u EXCEPT !.n = 0].obj = p.obj /\ [u EXCEPT !.n = 0].n = 0
  BY <1>1, ServerFields, RequestFields DEF Servers, Machines
<1> HIDE DEF u, k
<1>5. CASE q.seq = SrvBlk
  <2>1. r.srv = [u EXCEPT !.n = 0] /\ r.out = <<SubBlockRsp(k)>> /\ Tail(rq) = <<>>
    BY <1>1, <1>3, <1>5, ReactionParts
  <2>2. SubBlockRsp(k) \in Responses /\ SubBlockRsp(k).cs = "bdAck" /\ SubBlockRsp(k).blk = SrvBlk
    BY <1>4, ResponsesAre DEF SubBlockRsp
  <2>3. r.srv.ph = "bd" /\ r.srv.obj = p.obj /\ ~SubBlockStalls(r.srv, kind)
    BY <1>4, <2>1 DEF SubBlockStalls
  <2>4. Replies(p, r, kind)
    BY <1>1, <2>1, <2>2, <2>3 DEF Replies, Fits
  <2>5. Noise(rs, n)
    BY <1>1 DEF Silence, Noise
  <2>6. Answered(n, p, rs \o From(n, r.out), <<>>, r.srv, kind)
    <3>1. p.st # "buProg"
      BY <1>1
    <3> QED
      BY <2>4, <2>5, <3>1, ReplyAnswers
  <2> QED
    BY <2>1, <2>6 DEF Exchange
<1>6. CASE q.seq # SrvBlk
  <2>1. r.srv = u /\ r.out = <<>>
    BY <1>3, <1>6, ReactionParts
  <2>2. rs \o From(n, r.out) = rs
    BY <2>1, FromIs, ConcatEmptySeq
  <2>3. Bursting(n, p, rs, Tail(rq), r.srv)
    BY <1>1, <1>4, <2>1 DEF Bursting
  <2> QED
    BY <2>2, <2>3 DEF Exchange
<1> QED
  BY <1>5, <1>6

\* A request that asks for nothing.
LEMMA EndAckIsServed ==
  ASSUME NEW s \in Servers, NEW q, q.op = "buEndAck", NEW kind, NEW r \in Serve(s, q, kind)
  PROVE  r.out = <<>> /\ ~SubBlockStalls(r.srv, kind)
<1>1. r = Reaction(IdleServer(s.done), <<>>)
  BY DEF Serve, Ends
<1> QED
  BY <1>1, ReactionParts, ServersStart

\* The node serves a request: the exchange goes on.
LEMMA ServedInStep ==
  ASSUME NEW n \in Nodes, NEW e, e # None => e[1] \in Records, NEW kind,
         NEW rs \in Seq([node : Nodes, rsp : Responses]), NEW rq \in Seq(Requests), rq # <<>>,
         NEW s \in Servers, InStep(n, e, rs, rq, s, kind), NEW r \in Serve(s, Head(rq), kind)
  PROVE  InStep(n, e, rs \o From(n, r.out), Tail(rq), r.srv, kind)
<1> DEFINE q == Head(rq)
<1>1. q \in Requests
  BY RequestsPass
<1>2. ASSUME q.op = "buEndAck" PROVE rs \o From(n, r.out) = rs /\ ~SubBlockStalls(r.srv, kind)
  <2>1. r.out = <<>> /\ ~SubBlockStalls(r.srv, kind)
    BY <1>2, EndAckIsServed
  <2> QED
    BY <2>1, FromIs, ConcatEmptySeq
<1>3. CASE e = None
  <2>1. Noise(rs, n) /\ OnlyEnds(Tail(rq)) /\ q.op = "buEndAck"
    BY <1>3, RequestsPass DEF InStep, Rest
  <2> QED
    BY <1>2, <1>3, <2>1 DEF InStep, Rest
<1>4. CASE e # None
  <2> DEFINE p == e[1]
             rs2 == rs \o From(n, r.out)
  <2>1. /\ p \in Records
        /\ p.st \in {"ulSeg", "buInit", "buProg", "buEnd"} => p.dir = "read"
        /\ ~(p.started > 0 \/ p.active > 0)
        /\ Exchange(n, p, rs, rq, s, kind)
    BY <1>4 DEF InStep, Quiet
  <2> HIDE DEF p
  <2>2. Exchange(n, p, rs2, Tail(rq), r.srv, kind)
    <3>1. CASE Opening(n, p, rs, rq, s, kind)
      <4>1. /\ p.st \in {"wait", "dlSeg", "bdInit", "buInit"} /\ p.sent = 0 /\ Noise(rs, n)
            /\ \/ q = First(p) /\ Tail(rq) = <<>>
               \/ q.op = "buEndAck" /\ EndsWith(Tail(rq), First(p))
        BY <3>1, RequestsPass DEF Opening
      <4>2. CASE q = First(p) /\ Tail(rq) = <<>>
        <5>1. r \in Serve(s, First(p), kind)
          BY <4>2
        <5>2. Replies(p, r, kind)
          BY <2>1, <4>1, <5>1, FirstIsServed
        <5>3. Answered(n, p, rs \o From(n, r.out), <<>>, r.srv, kind)
          BY <4>1, <5>2, ReplyAnswers
        <5> QED
          BY <4>2, <5>3 DEF Exchange
      <4>3. CASE q.op = "buEndAck" /\ EndsWith(Tail(rq), First(p))
        <5>1. Opening(n, p, rs2, Tail(rq), r.srv, kind)
          BY <1>2, <4>1, <4>3 DEF Opening
        <5> QED
          BY <5>1 DEF Exchange
      <4> QED
        BY <4>1, <4>2, <4>3
    <3>2. CASE Requested(n, p, rs, rq, s, kind)
      <4>1. Silence(rs, n) /\ Owed(p, q, s) /\ Tail(rq) = <<>>
        BY <3>2, RequestsPass DEF Requested
      <4>2. q.op \in {"ulSeg", "dlSeg", "bdEnd", "buStart", "buAck"}
        BY <4>1 DEF Owed
      <4>3. CASE q.op \in {"ulSeg", "dlSeg", "bdEnd"}
        <5>1. Replies(p, r, kind)
          BY <1>1, <2>1, <4>1, <4>3, NextIsServed
        <5>2. Noise(rs, n) /\ p.st # "buProg"
          BY <4>1, <4>3 DEF Silence, Noise, Owed
        <5>3. Answered(n, p, rs \o From(n, r.out), <<>>, r.srv, kind)
          BY <5>1, <5>2, ReplyAnswers
        <5> QED
          BY <4>1, <5>3 DEF Exchange
      <4>4. CASE q.op \in {"buStart", "buAck"}
        <5>1. Exchange(n, p, rs \o From(n, r.out), <<>>, r.srv, kind)
          BY <1>1, <2>1, <4>1, <4>4, BlocksAreServed
        <5> QED
          BY <4>1, <5>1
      <4> QED
        BY <4>2, <4>3, <4>4
    <3>3. CASE Bursting(n, p, rs, rq, s)
      BY <2>1, <3>3, BurstIsServed
    <3>4. CASE Lost(n, p, rs, rq, s, kind)
      <4>1. Noise(rs, n) /\ OnlyEnds(Tail(rq)) /\ q.op = "buEndAck" /\ (p.st = "buProg" => Silence(rs, n))
        BY <3>4, RequestsPass DEF Lost, Rest
      <4>2. Lost(n, p, rs2, Tail(rq), r.srv, kind)
        BY <1>2, <4>1 DEF Lost, Rest
      <4> QED
        BY <4>2 DEF Exchange
    <3> QED
      BY <2>1, <3>1, <3>2, <3>3, <3>4 DEF Exchange, Answered, Streaming
  <2> HIDE DEF rs2
  <2> QED
    BY <1>4, <2>1, <2>2 DEF InStep, p, rs2
<1> QED
  BY <1>3, <1>4

\* So it does when the node's timer runs out: only a burst was under way.
LEMMA StalledInStep ==
  ASSUME NEW n \in Nodes, NEW e, e # None => e[1] \in Records, NEW kind,
         NEW rs \in Seq([node : Nodes, rsp : Responses]), NEW s \in Servers,
         InStep(n, e, rs, <<>>, s, kind), SubBlockStalls(s, kind)
  PROVE  InStep(n, e, rs \o From(n, ServeStall(s).out), <<>>, ServeStall(s).srv, kind)
<1> DEFINE p == e[1]
           r == ServeStall(s)
<1>1. e # None
  BY DEF InStep, Rest
<1>2. /\ p \in Records
      /\ p.st \in {"ulSeg", "buInit", "buProg", "buEnd"} => p.dir = "read"
      /\ ~(p.started > 0 \/ p.active > 0)
      /\ Exchange(n, p, rs, <<>>, s, kind)
  BY <1>1 DEF InStep, Quiet
<1> HIDE DEF p
<1>3. Bursting(n, p, rs, <<>>, s)
  BY <1>2 DEF Exchange, Opening, Answered, Requested, Streaming, Lost, Rest, Uploads, SubBlockStalls
<1>4. p.st = "bdProg" /\ Silence(rs, n) /\ s.ph = "bd" /\ s.obj = p.obj /\ s.n \in Nat
  BY <1>3, ServerFields DEF Bursting
<1>5. r.srv = [s EXCEPT !.n = 0] /\ r.out = <<SubBlockRsp(s.n)>>
  BY ReactionParts DEF ServeStall
<1> HIDE DEF r
<1>6. r.srv.ph = "bd" /\ r.srv.obj = p.obj /\ r.srv.n = 0
  BY <1>4, <1>5 DEF Servers, Machines
<1>7. SubBlockRsp(s.n) \in Responses /\ SubBlockRsp(s.n).cs = "bdAck" /\ SubBlockRsp(s.n).blk = SrvBlk
  BY <1>4, ResponsesAre DEF SubBlockRsp
<1>8. Replies(p, r, kind)
  BY <1>4, <1>5, <1>6, <1>7 DEF Replies, Fits, SubBlockStalls
<1>9. Noise(rs, n)
  BY <1>4 DEF Silence, Noise
<1>10. Answered(n, p, rs \o From(n, r.out), <<>>, r.srv, kind)
  BY <1>4, <1>8, <1>9, ReplyAnswers
<1>11. Exchange(n, p, rs \o From(n, r.out), <<>>, r.srv, kind)
  BY <1>10 DEF Exchange
<1> QED
  BY <1>1, <1>2, <1>11 DEF InStep, p, r

\* A record that no time has passed for.
Fresh(p) ==
  /\ p.started = 0 /\ p.active = 0
  /\ p.st \in {"ulSeg", "buInit", "buProg", "buEnd"} => p.dir = "read"

\* Handling a response comes to r: whatever gets out, the exchange goes on, and what
\* is reported is so.
Goes(n, r, ok, rs, rq, s, kind) ==
  /\ \A out \in GetsOut(r.out, ok) : InStep(n, r.next, rs, rq \o out, s, kind)
  /\ \A i \in 1..Len(r.ev) : Honest(r.ev[i], s.done)

\* What gets out of no frame and of one.
LEMMA FewGetOut ==
  ASSUME NEW ok \in BOOLEAN
  PROVE  /\ GetsOut(<<>>, ok) = {<<>>}
         /\ \A x : GetsOut(<<x>>, ok) \subseteq {<<>>, <<x>>}
<1>1. 1..(Len(<<>>) - 1) = {} /\ \A x : 1..(Len(<<x>>) - 1) = {}
  OBVIOUS
<1> QED
  BY <1>1 DEF GetsOut

\* Nothing is under way after the transfer's last response.
LEMMA SilentIsLost ==
  ASSUME NEW n, NEW p, NEW rs, NEW s, NEW kind, Silence(rs, n), ~SubBlockStalls(s, kind)
  PROVE  Rest(n, rs, <<>>, s, kind) /\ Exchange(n, p, rs, <<>>, s, kind)
<1>1. Rest(n, rs, <<>>, s, kind)
  BY DEF Rest, Silence, Noise, OnlyEnds
<1>2. Lost(n, p, rs, <<>>, s, kind)
  BY <1>1 DEF Lost
<1> QED
  BY <1>1, <1>2 DEF Exchange

\* The transfer ends.
LEMMA Quits ==
  ASSUME NEW n, NEW rs, NEW rq \in Seq(Requests), NEW s, NEW kind, Rest(n, rs, rq, s, kind),
         NEW ok \in BOOLEAN, NEW r, NEW e, r.next = None, r.out = <<>>, r.ev = <<e>>, Honest(e, s.done)
  PROVE  Goes(n, r, ok, rs, rq, s, kind)
<1>1. \A out \in GetsOut(r.out, ok) : rq \o out = rq
  BY FewGetOut, ConcatEmptySeq
<1>2. InStep(n, r.next, rs, rq, s, kind)
  BY DEF InStep
<1>3. \A i \in 1..Len(r.ev) : r.ev[i] = e
  OBVIOUS
<1> QED
  BY <1>1, <1>2, <1>3 DEF Goes

\* The parts of an outcome.
LEMMA OutcomeParts ==
  /\ \A p : Keep(p).next = <<p>> /\ Keep(p).out = <<>> /\ Keep(p).ev = <<>>
  /\ \A p, out : GoOn(p, out).next = <<p>> /\ GoOn(p, out).out = out /\ GoOn(p, out).ev = <<>>
  /\ \A e : Done(e).next = None /\ Done(e).out = <<>> /\ Done(e).ev = <<e>>
  /\ \A p : /\ SendFailed(p).next = None /\ SendFailed(p).out = <<>>
            /\ SendFailed(p).ev = <<Aborted(p.node, p.obj, p.dir, "general")>>
  BY DEF Keep, GoOn, Done, SendFailed, Outcome, None

\* It does when it is done.
LEMMA DoneQuits ==
  ASSUME NEW n, NEW rs, NEW s, NEW kind, Rest(n, rs, <<>>, s, kind), NEW ok \in BOOLEAN,
         NEW e, Honest(e, s.done)
  PROVE  Goes(n, Done(e), ok, rs, <<>>, s, kind)
<1> DEFINE r == Done(e)
<1>1. r.next = None /\ r.out = <<>> /\ r.ev = <<e>> /\ <<>> \in Seq(Requests)
  BY OutcomeParts
<1> HIDE DEF r
<1>2. Goes(n, r, ok, rs, <<>>, s, kind)
  BY <1>1, Quits
<1> QED
  BY <1>2 DEF r

\* It goes on, and sends nothing.
LEMMA Waits ==
  ASSUME NEW n, NEW rs, NEW rq \in Seq(Requests), NEW s, NEW kind, NEW p, Fresh(p),
         Exchange(n, p, rs, rq, s, kind),
         NEW ok \in BOOLEAN, NEW r, r.next = <<p>>, r.out = <<>>, r.ev = <<>>
  PROVE  Goes(n, r, ok, rs, rq, s, kind)
<1>1. \A out \in GetsOut(r.out, ok) : rq \o out = rq
  BY FewGetOut, ConcatEmptySeq
<1>2. InStep(n, <<p>>, rs, rq, s, kind)
  BY InStepNew DEF Fresh
<1>3. 1..Len(r.ev) = {}
  OBVIOUS
<1> QED
  BY <1>1, <1>2, <1>3 DEF Goes

\* It goes on, and sends a request, or fails to.
LEMMA Proceeds ==
  ASSUME NEW n, NEW rs, Silence(rs, n), NEW s, NEW kind, ~SubBlockStalls(s, kind),
         NEW p, Fresh(p), NEW x \in Requests, Exchange(n, p, rs, <<x>>, s, kind),
         NEW ok \in BOOLEAN, NEW r, r.next = <<p>>, r.out = <<x>>, r.ev = <<>>
  PROVE  Goes(n, r, ok, rs, <<>>, s, kind)
<1>1. \A out \in GetsOut(r.out, ok) : <<>> \o out = <<>> \/ <<>> \o out = <<x>>
  <2>1. <<>> \o <<>> = <<>> /\ <<>> \o <<x>> = <<x>>
    OBVIOUS
  <2> QED
    BY <2>1, FewGetOut
<1>2. InStep(n, <<p>>, rs, <<x>>, s, kind) /\ InStep(n, <<p>>, rs, <<>>, s, kind)
  BY SilentIsLost, InStepNew DEF Fresh
<1>3. 1..Len(r.ev) = {}
  OBVIOUS
<1> QED
  BY <1>1, <1>2, <1>3 DEF Goes

\* A late segment of an upload that has failed is ignored.
LEMMA NoiseIsKept ==
  ASSUME NEW p \in Records, p.st # "buProg", NEW m, m.cs = "buSeg", NEW ok
  PROVE  OnResponse(p, m, ok) = Keep(p)
<1>1. p.st \in {"wait", "ulSeg", "dlSeg", "bdInit", "bdProg", "bdEnd", "buInit", "buEnd"}
  BY RecordFields DEF States
<1> QED
  BY <1>1 DEF OnResponse, OnWaiting, OnUploadSegmented, OnDownloadSegmented,
              OnBlockDownloadInitiating, OnBlockDownloadInProgress, OnBlockDownloadEnding,
              OnBlockUploadInitiating, OnBlockUploadEnding

\* Failures are honest, and so are the reads of a whole object and the writes of a
\* stored one.
LEMMA HonestEvents ==
  ASSUME NEW n, NEW o, NEW done
  PROVE  /\ \A dir, c : c # "ok" => Honest(Aborted(n, o, dir, c), done)
         /\ Honest(Read(n, o, Whole(o)), done)
         /\ o \in done => Honest(Written(n, o), done)
  BY DEF Honest, Aborted, Read, Written, Entered

\* The response that the transfer waits for has come, and nothing else is under way.
Taken(n, p, m, rs, s, kind) ==
  /\ p \in Records /\ Fresh(p) /\ m \in Responses /\ Fits(p, m, s) /\ s \in Servers
  /\ Silence(rs, n) /\ ~SubBlockStalls(s, kind)

\* It is an abort.
LEMMA AbortTaken ==
  ASSUME NEW n, NEW p, NEW m, NEW rs, NEW s, NEW kind, Taken(n, p, m, rs, s, kind), m.cs = "abort",
         NEW ok \in BOOLEAN
  PROVE  Goes(n, OnAbort(p, m, ok), ok, rs, <<>>, s, kind)
<1> DEFINE r == OnAbort(p, m, ok)
<1>1. CASE FallsBack(p, m) /\ ok
  <2> DEFINE q == Fallback(p).p
             x == Fallback(p).out
  <2>1. r.next = <<q>> /\ r.out = <<x>> /\ r.ev = <<>>
    BY <1>1 DEF OnAbort, Outcome
  <2>2. /\ Fresh(q) /\ x \in Requests /\ x = First(q)
        /\ q.st \in {"wait", "dlSeg", "bdInit", "buInit"} /\ q.sent = 0
    <3>1. p.obj \in Objects
      BY RecordFields DEF Taken
    <3>2. CASE p.st = "bdInit"
      <4>1. q = Entry(p.node, p.obj, p.dir, "dlSeg") /\ x = Download(p.obj)
        BY <3>2 DEF Fallback
      <4>2. x \in Requests
        BY <3>1, <4>1, RequestsAre
      <4> HIDE DEF q, x
      <4> QED
        BY <4>1, <4>2 DEF Entry, First, Fresh
    <3>3. CASE p.st = "buInit"
      <4>1. q = Entry(p.node, p.obj, p.dir, "wait") /\ x = Upload(p.obj) /\ p.dir = "read"
        BY <3>3 DEF Fallback, Taken, Fresh
      <4>2. x \in Requests
        BY <3>1, <4>1, RequestsAre
      <4> HIDE DEF q, x
      <4> QED
        BY <4>1, <4>2 DEF Entry, First, Fresh
    <3> QED
      BY <1>1, <3>2, <3>3 DEF FallsBack, Initiating
  <2> HIDE DEF q, x, r
  <2>3. EndsWith(<<x>>, First(q))
    BY <2>2 DEF EndsWith
  <2>4. Opening(n, q, rs, <<x>>, s, kind)
    BY <2>2, <2>3 DEF Opening, Taken, Silence, Noise
  <2>5. Exchange(n, q, rs, <<x>>, s, kind)
    BY <2>4 DEF Exchange
  <2>6. Goes(n, r, ok, rs, <<>>, s, kind)
    BY <2>1, <2>2, <2>5, Proceeds DEF Taken
  <2> QED
    BY <2>6 DEF r
<1>2. CASE ~(FallsBack(p, m) /\ ok)
  <2> DEFINE e == Aborted(p.node, p.obj, p.dir, m.code)
  <2>1. r = Done(e)
    BY <1>2 DEF OnAbort
  <2>2. m.code # "ok"
    BY DEF Taken, Fits
  <2>3. Honest(e, s.done) /\ Rest(n, rs, <<>>, s, kind)
    BY <2>2, HonestEvents, SilentIsLost DEF Taken
  <2> HIDE DEF e, r
  <2>4. Goes(n, Done(e), ok, rs, <<>>, s, kind)
    BY <2>3, DoneQuits
  <2> QED
    BY <2>1, <2>4 DEF r
<1> QED
  BY <1>1, <1>2

\* It answers an initiate.
LEMMA WaitingTaken ==
  ASSUME NEW n, NEW p, NEW m, NEW rs, NEW s, NEW kind, Taken(n, p, m, rs, s, kind), m.cs # "abort",
         p.st = "wait", NEW ok \in BOOLEAN
  PROVE  Goes(n, OnWaiting(p, m), ok, rs, <<>>, s, kind)
<1>1. Rest(n, rs, <<>>, s, kind)
  BY SilentIsLost DEF Taken
<1>2. CASE m.cs = "ulX"
  <2>1. m.dat = Whole(m.obj)
    BY <1>2 DEF Taken, Fits
  <2>2. OnWaiting(p, m) = Done(Read(p.node, m.obj, Whole(m.obj)))
    BY <1>2, <2>1 DEF OnWaiting
  <2>3. Honest(Read(p.node, m.obj, Whole(m.obj)), s.done)
    BY HonestEvents
  <2> QED
    BY <1>1, <2>2, <2>3, DoneQuits
<1>3. CASE m.cs = "dlAck"
  <2>1. p.obj \in s.done
    BY <1>3 DEF Taken, Fits
  <2>2. OnWaiting(p, m) = Done(Written(p.node, p.obj))
    BY <1>3 DEF OnWaiting
  <2>3. Honest(Written(p.node, p.obj), s.done)
    BY <2>1, HonestEvents
  <2> QED
    BY <1>1, <2>2, <2>3, DoneQuits
<1>4. CASE m.cs = "ulInit"
  <2> DEFINE q == [p EXCEPT !.st = "ulSeg", !.tog = FALSE, !.buf = <<>>]
             x == UploadSeg(FALSE)
  <2>1. OnWaiting(p, m) = GoOn(q, <<x>>)
    BY <1>4 DEF OnWaiting
  <2>2. p.dir = "read" /\ s.ph = "ul" /\ s.obj = p.obj /\ s.n = 0
    BY <1>4 DEF Taken, Fits
  <2>3. /\ q.st = "ulSeg" /\ q.dir = p.dir /\ q.started = p.started /\ q.active = p.active
        /\ q.obj = p.obj /\ q.buf = <<>>
    BY RecordFields DEF Taken, Slots
  <2>4. x.op = "ulSeg" /\ x \in Requests
    BY RequestsAre DEF UploadSeg
  <2> HIDE DEF q, x
  <2>5. Fresh(q)
    BY <2>2, <2>3 DEF Fresh, Taken
  <2>6. Len(q.buf) = 0 /\ q.buf = Prefix(q.obj, 0)
    BY <2>3, NoSegments
  <2>7. Owed(q, x, s)
    BY <2>2, <2>3, <2>4, <2>6 DEF Owed
  <2>8. Requested(n, q, rs, <<x>>, s, kind)
    BY <2>7 DEF Requested, Taken
  <2>9. Exchange(n, q, rs, <<x>>, s, kind)
    BY <2>8 DEF Exchange
  <2> QED
    BY <2>1, <2>4, <2>5, <2>9, OutcomeParts, Proceeds DEF Taken
<1> QED
  BY <1>2, <1>3, <1>4 DEF Taken, Fits

\* One more segment.
LEMMA OneMoreSegment ==
  ASSUME NEW o, NEW k \in Nat
  PROVE  /\ Prefix(o, k) \o <<<<o, k + 1>>>> = Prefix(o, k + 1)
         /\ Len(Prefix(o, k)) = k
<1> DEFINE S == {<<o, i>> : i \in 1..(k + 1)}
           a == Prefix(o, k)
           b == <<<<o, k + 1>>>>
           c == Prefix(o, k + 1)
<1>1. a \in Seq(S) /\ Len(a) = k /\ \A i \in 1..k : a[i] = <<o, i>>
  <2>1. a \in [1..k -> S]
    BY DEF Prefix
  <2> QED
    BY <2>1, IsASeq, LenProperties DEF Prefix
<1>2. c \in Seq(S) /\ Len(c) = k + 1 /\ \A i \in 1..(k + 1) : c[i] = <<o, i>>
  <2>1. c \in [1..(k + 1) -> S]
    BY DEF Prefix
  <2> QED
    BY <2>1, IsASeq, LenProperties DEF Prefix
<1>3. b \in Seq(S) /\ Len(b) = 1 /\ b[1] = <<o, k + 1>>
  <2>1. <<o, k + 1>> \in S
    OBVIOUS
  <2> HIDE DEF S
  <2> QED
    BY <2>1
<1> HIDE DEF a, b, c, S
<1>4. /\ a \o b \in Seq(S) /\ Len(a \o b) = k + 1 /\ \A i \in 1..k : (a \o b)[i] = a[i]
      /\ (a \o b)[k + 1] = b[1]
  <2>1. /\ a \o b \in Seq(S) /\ Len(a \o b) = Len(a) + Len(b)
        /\ \A i \in 1..Len(a) : (a \o b)[i] = a[i]
        /\ \A i \in 1..Len(b) : (a \o b)[Len(a) + i] = b[i]
    <3>1. a \in Seq(S) /\ b \in Seq(S)
      BY <1>1, <1>3
    <3> QED
      BY <3>1, LenProperties, ConcatProperties
  <2> QED
    BY <1>1, <1>3, <2>1
<1>5. ASSUME NEW i \in 1..(k + 1) PROVE (a \o b)[i] = c[i]
  <2>1. CASE i \in 1..k
    BY <1>1, <1>2, <1>4, <2>1
  <2>2. CASE i \notin 1..k
    <3>1. i = k + 1
      BY <2>2
    <3>2. c[k + 1] = <<o, k + 1>>
      BY <1>2
    <3> QED
      BY <1>3, <1>4, <3>1, <3>2
  <2> QED
    BY <2>1, <2>2
<1>6. a \o b = c
  BY <1>2, <1>4, <1>5, SeqEqual
<1> QED
  BY <1>1, <1>6 DEF a, b, c

\* It is a segment of an upload.
LEMMA UploadTaken ==
  ASSUME NEW n, NEW p, NEW m, NEW rs, NEW s, NEW kind, Taken(n, p, m, rs, s, kind), m.cs # "abort",
         p.st = "ulSeg", NEW ok \in BOOLEAN
  PROVE  Goes(n, OnUploadSegmented(p, m), ok, rs, <<>>, s, kind)
<1> DEFINE k == Len(p.buf)
<1>1. /\ m.cs = "ulSeg" /\ p.buf = Prefix(p.obj, k) /\ m.dat = <<<<p.obj, k + 1>>>>
      /\ IF m.last THEN k + 1 = SegCount(p.obj) ELSE s.ph = "ul" /\ s.obj = p.obj /\ s.n = k + 1
  BY DEF Taken, Fits
<1>2. k \in Nat /\ p.obj \in Objects
  BY RecordFields, LenProperties DEF Taken, Data
<1>3. p.buf \o m.dat = Prefix(p.obj, k + 1) /\ Len(p.buf \o m.dat) = k + 1
  <2> HIDE DEF k
  <2> QED
    BY <1>1, <1>2, OneMoreSegment
<1> HIDE DEF k
<1>4. CASE m.last
  <2>1. OnUploadSegmented(p, m) = Done(Read(p.node, p.obj, p.buf \o m.dat))
    BY <1>1, <1>4 DEF OnUploadSegmented
  <2>2. p.buf \o m.dat = Whole(p.obj)
    BY <1>1, <1>3, <1>4 DEF Prefix, Whole
  <2>3. Rest(n, rs, <<>>, s, kind)
    BY SilentIsLost DEF Taken
  <2>4. Honest(Read(p.node, p.obj, p.buf \o m.dat), s.done)
    BY <2>2, HonestEvents
  <2> QED
    BY <2>1, <2>3, <2>4, DoneQuits
<1>5. CASE ~m.last
  <2> DEFINE q == [p EXCEPT !.tog = ~@, !.buf = @ \o m.dat]
             x == UploadSeg(~p.tog)
  <2>1. OnUploadSegmented(p, m) = GoOn(q, <<x>>)
    BY <1>1, <1>5 DEF OnUploadSegmented
  <2>2. /\ q.st = p.st /\ q.dir = p.dir /\ q.started = p.started /\ q.active = p.active
        /\ q.obj = p.obj /\ q.buf = p.buf \o m.dat
    BY RecordFields DEF Taken, Slots
  <2>3. x.op = "ulSeg" /\ x \in Requests
    BY RecordFields, RequestsAre DEF UploadSeg, Taken
  <2> HIDE DEF q, x
  <2>4. Fresh(q)
    BY <2>2 DEF Fresh, Taken
  <2>5. q.buf = Prefix(q.obj, Len(q.buf)) /\ Len(q.buf) = s.n /\ s.obj = q.obj
    BY <1>1, <1>3, <1>5, <2>2
  <2>6. Owed(q, x, s)
    BY <2>2, <2>3, <2>5 DEF Owed
  <2>7. Requested(n, q, rs, <<x>>, s, kind)
    BY <2>6 DEF Requested, Taken
  <2>8. Exchange(n, q, rs, <<x>>, s, kind)
    BY <2>7 DEF Exchange
  <2> QED
    BY <2>1, <2>3, <2>4, <2>8, OutcomeParts, Proceeds DEF Taken
<1> QED
  BY <1>4, <1>5

\* The record stays as it is.
LEMMA KeepWaits ==
  ASSUME NEW n, NEW rs, NEW rq \in Seq(Requests), NEW s, NEW kind, NEW p, Fresh(p),
         Exchange(n, p, rs, rq, s, kind), NEW ok \in BOOLEAN
  PROVE  Goes(n, Keep(p), ok, rs, rq, s, kind)
<1> DEFINE r == Keep(p)
<1>1. r.next = <<p>> /\ r.out = <<>> /\ r.ev = <<>>
  BY OutcomeParts
<1> HIDE DEF r
<1>2. Goes(n, r, ok, rs, rq, s, kind)
  BY <1>1, Waits
<1> QED
  BY <1>2 DEF r

\* What the record ignores leaves it without anything under way.
LEMMA IgnoredIsKept ==
  ASSUME NEW n, NEW p, NEW m, NEW rs, NEW s, NEW kind, Taken(n, p, m, rs, s, kind), NEW ok \in BOOLEAN
  PROVE  Goes(n, Keep(p), ok, rs, <<>>, s, kind)
<1>1. Fresh(p) /\ Exchange(n, p, rs, <<>>, s, kind) /\ <<>> \in Seq(Requests)
  BY SilentIsLost DEF Taken
<1> QED
  BY <1>1, KeepWaits

\* It acknowledges the start or a segment of a segmented download.
LEMMA DownloadTaken ==
  ASSUME NEW n, NEW p, NEW m, NEW rs, NEW s, NEW kind, Taken(n, p, m, rs, s, kind), m.cs # "abort",
         p.st = "dlSeg", NEW ok \in BOOLEAN
  PROVE  Goes(n, OnDownloadSegmented(p, m), ok, rs, <<>>, s, kind)
<1> DEFINE chunk == IF Remaining(p) > 0 THEN <<<<p.obj, p.sent + 1>>>> ELSE <<>>
           sent == p.sent + Len(chunk)
           last == sent = SegCount(p.obj)
           tog == IF last THEN p.tog ELSE ~p.tog
           q == [p EXCEPT !.sent = sent, !.tog = tog]
           next == m.cs = "dlAck" \/ (m.cs = "segAck" /\ m.t = ~p.tog)
           over == Remaining(p) = 0 /\ m.cs = "segAck" /\ m.t = p.tog
           x == DownloadSeg(p.tog, chunk, last)
<1>1. OnDownloadSegmented(p, m) =
        IF next THEN GoOn(q, <<x>>)
        ELSE IF over THEN Done(Written(p.node, p.obj)) ELSE Keep(p)
  BY DEF OnDownloadSegmented
<1>2. p \in Records /\ Fresh(p) /\ Silence(rs, n) /\ ~SubBlockStalls(s, kind)
  BY DEF Taken
<1>3. CASE next
  <2>1. OnDownloadSegmented(p, m) = GoOn(q, <<x>>)
    BY <1>1, <1>3
  <2>2. s.ph = "dl" => s.obj = p.obj
    BY <1>3 DEF Taken, Fits
  <2>3. chunk \in Data
    <3>1. CASE Remaining(p) > 0
      <4>1. p.sent + 1 \in 1..SegCount(p.obj) /\ p.obj \in Objects
        BY <1>2, <3>1, RecordFields DEF Remaining
      <4>2. <<p.obj, p.sent + 1>> \in Segments
        BY <4>1, IsSegment
      <4> QED
        BY <3>1, <4>2, Singles DEF Data
    <3>2. CASE ~(Remaining(p) > 0)
      BY <3>2 DEF Data
    <3> QED
      BY <3>1, <3>2
  <2> HIDE DEF chunk, next, over
  <2>4. last \in BOOLEAN /\ tog \in BOOLEAN /\ p.tog \in BOOLEAN
    BY <1>2, RecordFields
  <2>5. x \in Requests
    BY <2>3, <2>4, RequestsAre
  <2>6. x.op = "dlSeg" /\ x.last = last
    BY DEF DownloadSeg
  <2>7. /\ q.st = "dlSeg" /\ q.dir = p.dir /\ q.started = p.started /\ q.active = p.active
        /\ q.obj = p.obj /\ q.sent = sent
    <3> HIDE DEF sent, tog
    <3> QED
      BY <1>2, RecordFields DEF Slots
  <2> HIDE DEF q, x, sent
  <2>8. Fresh(q)
    BY <1>2, <2>7 DEF Fresh
  <2>9. Owed(q, x, s)
    BY <2>2, <2>6, <2>7 DEF Owed
  <2>10. Requested(n, q, rs, <<x>>, s, kind)
    BY <1>2, <2>9 DEF Requested
  <2>11. Exchange(n, q, rs, <<x>>, s, kind)
    BY <2>10 DEF Exchange
  <2> QED
    BY <1>2, <2>1, <2>5, <2>8, <2>11, OutcomeParts, Proceeds
<1>4. CASE ~next /\ over
  <2>1. p.sent = SegCount(p.obj) /\ m.cs = "segAck"
    BY <1>2, <1>4, RecordFields DEF Remaining
  <2>2. p.obj \in s.done
    BY <2>1 DEF Taken, Fits
  <2>3. Rest(n, rs, <<>>, s, kind) /\ Honest(Written(p.node, p.obj), s.done)
    BY <1>2, <2>2, SilentIsLost, HonestEvents
  <2>4. OnDownloadSegmented(p, m) = Done(Written(p.node, p.obj))
    BY <1>1, <1>4
  <2> QED
    BY <2>3, <2>4, DoneQuits
<1>5. CASE ~next /\ ~over
  <2>1. OnDownloadSegmented(p, m) = Keep(p)
    BY <1>1, <1>5
  <2> QED
    BY <2>1, IgnoredIsKept
<1> QED
  BY <1>3, <1>4, <1>5

\* It opens a block download.
LEMMA BlockDownloadInitTaken ==
  ASSUME NEW n, NEW p, NEW m, NEW rs, NEW s, NEW kind, Taken(n, p, m, rs, s, kind), m.cs # "abort",
         p.st = "bdInit", NEW ok \in BOOLEAN
  PROVE  Goes(n, OnBlockDownloadInitiating(p, m, ok), ok, rs, <<>>, s, kind)
<1> DEFINE q == [p EXCEPT !.st = "bdProg", !.crc = m.crc, !.sent = 1, !.active = 0]
           x == BlockSeg(1, <<p.obj, 1>>)
           e == Aborted(p.node, p.obj, p.dir, "general")
<1>1. p \in Records /\ Fresh(p) /\ Silence(rs, n) /\ ~SubBlockStalls(s, kind)
  BY DEF Taken
<1>2. m.cs = "bdInit" /\ s.ph = "bd" /\ s.obj = p.obj
  BY DEF Taken, Fits
<1>3. CASE ~ok
  <2>1. OnBlockDownloadInitiating(p, m, ok) = SendFailed(p)
    BY <1>2, <1>3 DEF OnBlockDownloadInitiating
  <2>2. Rest(n, rs, <<>>, s, kind) /\ Honest(e, s.done) /\ <<>> \in Seq(Requests)
    <3>1. Rest(n, rs, <<>>, s, kind)
      BY <1>1, SilentIsLost
    <3>2. Honest(Aborted(p.node, p.obj, p.dir, "general"), s.done)
      BY HonestEvents
    <3> QED
      BY <3>1, <3>2
  <2> QED
    BY <2>1, <2>2, OutcomeParts, Quits
<1>4. CASE ok
  <2>1. OnBlockDownloadInitiating(p, m, ok) = GoOn(q, <<x>>)
    BY <1>2, <1>4 DEF OnBlockDownloadInitiating
  <2>2. x \in Requests /\ x.op = "bdSeg"
    <3>1. 1 \in 1..SegCount(p.obj) /\ p.obj \in Objects
      BY <1>1, RecordFields
    <3>2. <<p.obj, 1>> \in Segments
      BY <3>1, IsSegment
    <3> QED
      BY <3>2, RequestsAre DEF BlockSeg
  <2>3. q.st = "bdProg" /\ q.dir = p.dir /\ q.started = p.started /\ q.active = 0 /\ q.obj = p.obj
    BY <1>1, RecordFields DEF Slots
  <2> HIDE DEF q, x
  <2>4. Fresh(q)
    BY <1>1, <2>3 DEF Fresh
  <2>5. Bursting(n, q, rs, <<x>>, s)
    BY <1>1, <1>2, <2>2, <2>3 DEF Bursting, Burst
  <2>6. Exchange(n, q, rs, <<x>>, s, kind)
    BY <2>5 DEF Exchange
  <2> QED
    BY <1>1, <2>1, <2>2, <2>4, <2>6, OutcomeParts, Proceeds
<1> QED
  BY <1>3, <1>4

\* What gets out of a burst is one.
LEMMA BurstGetsOut ==
  ASSUME NEW q \in Seq(Requests), Len(q) <= SrvBlk,
         \A i \in 1..Len(q) : q[i].op = "bdSeg" /\ q[i].seq = i,
         NEW ok \in BOOLEAN, NEW out \in GetsOut(q, ok)
  PROVE  Burst(out)
<1> DEFINE b == Len(q)
<1>1. b \in Nat /\ b <= SrvBlk /\ \A i \in 1..b : q[i].op = "bdSeg" /\ q[i].seq = i /\ q[i] \in Requests
  BY LenProperties, ElementOfSeq
<1> HIDE DEF b
<1>2. SrvBlk \in Nat
  BY ServerConstantsOK
<1> HIDE DEF GetsOut
<1>3. CASE out = q
  BY <1>1, <1>2, <1>3 DEF Burst, b
<1>4. CASE out = <<>>
  BY <1>4 DEF Burst
<1>5. ASSUME NEW k \in 1..(b - 1), out = SubSeq(q, 1, k) PROVE Burst(out)
  <2>1. 1 \in Int /\ k \in Int /\ k < b /\ \A i \in 1..k : q[i] \in Requests
    BY <1>1
  <2>2. Len(out) = k /\ \A i \in 1..k : out[i] = q[i]
    BY <1>5, <2>1, SubSeqProperties
  <2>3. ASSUME NEW i \in 1..Len(out) PROVE out[i].op = "bdSeg" /\ (i < Len(out) => out[i].seq # SrvBlk)
    BY <1>1, <1>2, <2>1, <2>2
  <2> QED
    BY <2>3 DEF Burst
<1> QED
  BY <1>3, <1>4, <1>5 DEF GetsOut, b

\* It acknowledges a sub-block of a block download.
LEMMA BlockDownloadTaken ==
  ASSUME NEW n, NEW p, NEW m, NEW rs, NEW s, NEW kind, Taken(n, p, m, rs, s, kind), m.cs # "abort",
         p.st = "bdProg", NEW ok \in BOOLEAN
  PROVE  Goes(n, OnBlockDownloadInProgress(p, m), ok, rs, <<>>, s, kind)
<1> DEFINE burst == Least({Remaining(p), m.blk, MaxBlk})
           q == [p EXCEPT !.sent = @ + burst, !.active = 0]
           F(i) == BlockSeg(i, <<p.obj, p.sent + i>>)
           out == [i \in 1..burst |-> F(i)]
           ending == [p EXCEPT !.st = "bdEnd", !.active = 0]
           x == BlockEnd(p.crc)
<1>1. p \in Records /\ Fresh(p) /\ Silence(rs, n) /\ ~SubBlockStalls(s, kind) /\ m \in Responses
  BY DEF Taken
<1>2. m.cs = "bdAck" /\ m.blk = SrvBlk /\ s.ph = "bd" /\ s.obj = p.obj
  BY DEF Taken, Fits
<1>3. CASE Remaining(p) = 0
  <2>1. OnBlockDownloadInProgress(p, m) = GoOn(ending, <<x>>)
    BY <1>2, <1>3 DEF OnBlockDownloadInProgress
  <2>2. x \in Requests /\ x.op = "bdEnd"
    BY <1>1, RecordFields, RequestsAre DEF BlockEnd
  <2>3. /\ ending.st = "bdEnd" /\ ending.dir = p.dir /\ ending.started = p.started
        /\ ending.active = 0 /\ ending.obj = p.obj
    BY <1>1, RecordFields DEF Slots
  <2> HIDE DEF ending, x
  <2>4. Fresh(ending)
    BY <1>1, <2>3 DEF Fresh
  <2>5. Owed(ending, x, s)
    BY <1>2, <2>2, <2>3 DEF Owed
  <2>6. Requested(n, ending, rs, <<x>>, s, kind)
    BY <1>1, <2>5 DEF Requested
  <2>7. Exchange(n, ending, rs, <<x>>, s, kind)
    BY <2>6 DEF Exchange
  <2> QED
    BY <1>1, <2>1, <2>2, <2>4, <2>7, OutcomeParts, Proceeds
<1>4. CASE Remaining(p) # 0
  <2> DEFINE r == GoOn(q, out)
  <2>1. OnBlockDownloadInProgress(p, m) = r
    BY <1>2, <1>4 DEF OnBlockDownloadInProgress
  <2>2. Remaining(p) \in Nat /\ Remaining(p) = SegCount(p.obj) - p.sent /\ m.blk \in Nat /\ MaxBlk \in Nat
    BY <1>1, <1>2, RecordFields, ResponseFields, PendingConstantsOK DEF Remaining
  <2>3. burst \in Nat /\ burst <= Remaining(p) /\ burst <= SrvBlk
    BY <1>2, <2>2, LeastOfThree
  <2> HIDE DEF burst
  <2>4. /\ q.st = "bdProg" /\ q.dir = p.dir /\ q.started = p.started /\ q.active = 0
        /\ q.obj = p.obj
    BY <1>1, RecordFields DEF Slots
  <2>5. ASSUME NEW i \in 1..burst PROVE F(i) \in Requests /\ F(i).op = "bdSeg" /\ F(i).seq = i
    <3>1. p.sent + i \in 1..SegCount(p.obj) /\ i \in Nat /\ p.obj \in Objects
      BY <1>1, <2>2, <2>3, RecordFields
    <3>2. <<p.obj, p.sent + i>> \in Segments
      BY <3>1, IsSegment
    <3> QED
      BY <3>1, <3>2, RequestsAre DEF BlockSeg
  <2> HIDE DEF F, q
  <2>6. out \in Seq(Requests) /\ Len(out) = burst
    <3>1. out \in [1..burst -> Requests]
      BY <2>5
    <3> QED
      BY <2>3, <3>1, IsASeq, LenProperties
  <2>7. ASSUME NEW sub \in GetsOut(out, ok) PROVE InStep(n, <<q>>, rs, <<>> \o sub, s, kind)
    <3>1. Burst(sub)
      <4>1. Len(out) <= SrvBlk /\ \A i \in 1..Len(out) : out[i].op = "bdSeg" /\ out[i].seq = i
        BY <2>3, <2>5, <2>6
      <4> HIDE DEF out
      <4> QED
        BY <2>6, <2>7, <4>1, BurstGetsOut
    <3>2. sub \in Seq(Requests)
      BY <2>6, <2>7, GetsOutIs
    <3>3. <<>> \o sub = sub
      BY <3>2, ConcatEmptySeq
    <3>4. Bursting(n, q, rs, sub, s)
      BY <1>1, <1>2, <2>4, <3>1 DEF Bursting
    <3>5. Exchange(n, q, rs, sub, s, kind)
      BY <3>4 DEF Exchange
    <3>6. InStep(n, <<q>>, rs, sub, s, kind)
      BY <1>1, <2>4, <3>5, InStepNew DEF Fresh
    <3> QED
      BY <3>3, <3>6
  <2> HIDE DEF out
  <2>8. r.next = <<q>> /\ r.out = out /\ r.ev = <<>>
    BY OutcomeParts
  <2> HIDE DEF r
  <2>9. 1..Len(r.ev) = {}
    BY <2>8
  <2>10. Goes(n, r, ok, rs, <<>>, s, kind)
    BY <2>7, <2>8, <2>9 DEF Goes
  <2> QED
    BY <2>1, <2>10
<1> QED
  BY <1>3, <1>4

\* It ends a block download.
LEMMA BlockDownloadEndTaken ==
  ASSUME NEW n, NEW p, NEW m, NEW rs, NEW s, NEW kind, Taken(n, p, m, rs, s, kind), m.cs # "abort",
         p.st = "bdEnd", NEW ok \in BOOLEAN
  PROVE  Goes(n, OnBlockDownloadEnding(p, m), ok, rs, <<>>, s, kind)
<1>1. CASE m.cs = "bdEnd"
  <2>1. p.obj \in s.done
    BY <1>1 DEF Taken, Fits
  <2>2. Rest(n, rs, <<>>, s, kind) /\ Honest(Written(p.node, p.obj), s.done)
    BY <2>1, SilentIsLost, HonestEvents DEF Taken
  <2>3. OnBlockDownloadEnding(p, m) = Done(Written(p.node, p.obj))
    BY <1>1 DEF OnBlockDownloadEnding
  <2> QED
    BY <2>2, <2>3, DoneQuits
<1>2. CASE m.cs # "bdEnd"
  <2>1. OnBlockDownloadEnding(p, m) = Keep(p)
    BY <1>2 DEF OnBlockDownloadEnding
  <2> QED
    BY <2>1, IgnoredIsKept
<1> QED
  BY <1>1, <1>2

\* It opens a block upload.
LEMMA BlockUploadInitTaken ==
  ASSUME NEW n, NEW p, NEW m, NEW rs, NEW s, NEW kind, Taken(n, p, m, rs, s, kind), m.cs # "abort",
         p.st = "buInit", NEW ok \in BOOLEAN
  PROVE  Goes(n, OnBlockUploadInitiating(p, m), ok, rs, <<>>, s, kind)
<1> DEFINE q == [p EXCEPT !.st = "buProg", !.crc = m.crc, !.exp = 1, !.buf = <<>>, !.active = 0]
           x == BlockStart
<1>1. p \in Records /\ Fresh(p) /\ Silence(rs, n) /\ ~SubBlockStalls(s, kind)
  BY DEF Taken
<1>2. m.cs = "buInit" /\ Uploads(p, s) /\ s.n = 0
  BY DEF Taken, Fits
<1>3. OnBlockUploadInitiating(p, m) = GoOn(q, <<x>>)
  BY <1>2 DEF OnBlockUploadInitiating
<1>4. x \in Requests /\ x.op = "buStart"
  BY RequestsAre DEF BlockStart
<1>5. /\ q.st = "buProg" /\ q.dir = p.dir /\ q.started = p.started /\ q.active = 0 /\ q.obj = p.obj
      /\ q.exp = 1 /\ q.buf = <<>>
  BY <1>1, RecordFields DEF Slots
<1> HIDE DEF q, x
<1>6. Fresh(q)
  BY <1>1, <1>5 DEF Fresh
<1>7. Owed(q, x, s)
  BY <1>2, <1>4, <1>5 DEF Owed, Uploads
<1>8. Requested(n, q, rs, <<x>>, s, kind)
  BY <1>1, <1>7 DEF Requested
<1>9. Exchange(n, q, rs, <<x>>, s, kind)
  BY <1>8 DEF Exchange
<1> QED
  BY <1>1, <1>3, <1>4, <1>6, <1>9, OutcomeParts, Proceeds

\* It ends a block upload: the session acknowledges, and asks for no more.
LEMMA BlockUploadEndTaken ==
  ASSUME NEW n, NEW p, NEW m, NEW rs, NEW s, NEW kind, Taken(n, p, m, rs, s, kind), m.cs # "abort",
         p.st = "buEnd", NEW ok \in BOOLEAN
  PROVE  Goes(n, OnBlockUploadEnding(p, m), ok, rs, <<>>, s, kind)
<1> DEFINE r == OnBlockUploadEnding(p, m)
           e == Read(p.node, p.obj, p.buf)
           x == BlockEndAck
<1>1. Silence(rs, n) /\ ~SubBlockStalls(s, kind)
  BY DEF Taken
<1>2. m.cs = "buEnd" /\ p.buf = Whole(p.obj)
  BY DEF Taken, Fits
<1>3. CASE p.crc /\ m.sum # BufferSum(p.buf)
  <2>1. r = Done(Aborted(p.node, p.obj, "read", "crc"))
    BY <1>2, <1>3 DEF OnBlockUploadEnding
  <2>2. Honest(Aborted(p.node, p.obj, "read", "crc"), s.done) /\ Rest(n, rs, <<>>, s, kind)
    BY <1>1, HonestEvents, SilentIsLost
  <2> HIDE DEF r
  <2>3. Goes(n, r, ok, rs, <<>>, s, kind)
    BY <2>1, <2>2, DoneQuits
  <2> QED
    BY <2>3 DEF r
<1>4. CASE ~(p.crc /\ m.sum # BufferSum(p.buf))
  <2>1. r = [Done(e) EXCEPT !.out = <<x>>]
    BY <1>2, <1>4 DEF OnBlockUploadEnding
  <2>2. r.next = None /\ r.out = <<x>> /\ r.ev = <<e>>
    BY <2>1 DEF Done, Outcome, None
  <2>3. Honest(e, s.done) /\ x.op = "buEndAck"
    BY <1>2, HonestEvents DEF BlockEndAck
  <2> HIDE DEF r, e, x
  <2>4. \A out \in GetsOut(r.out, ok) : <<>> \o out = <<>> \/ <<>> \o out = <<x>>
    <3>1. <<>> \o <<>> = <<>> /\ <<>> \o <<x>> = <<x>>
      OBVIOUS
    <3> QED
      BY <2>2, <3>1, FewGetOut
  <2>5. OnlyEnds(<<>>) /\ OnlyEnds(<<x>>)
    BY <2>3 DEF OnlyEnds
  <2>6. InStep(n, None, rs, <<>>, s, kind) /\ InStep(n, None, rs, <<x>>, s, kind)
    BY <1>1, <2>5 DEF InStep, Rest, Silence, Noise
  <2>7. \A i \in 1..Len(r.ev) : r.ev[i] = e
    BY <2>2
  <2>8. Goes(n, r, ok, rs, <<>>, s, kind)
    BY <2>2, <2>3, <2>4, <2>6, <2>7 DEF Goes
  <2> QED
    BY <2>8 DEF r
<1> QED
  BY <1>3, <1>4

\* Whatever it answers, the transfer goes on or ends in step with the node.
LEMMA FinalTaken ==
  ASSUME NEW n, NEW p, NEW m, NEW rs, NEW s, NEW kind, Taken(n, p, m, rs, s, kind), p.st # "buProg",
         NEW ok \in BOOLEAN
  PROVE  Goes(n, OnResponse(p, m, ok), ok, rs, <<>>, s, kind)
<1>1. p.st \in {"wait", "ulSeg", "dlSeg", "bdInit", "bdProg", "bdEnd", "buInit", "buEnd"}
  BY RecordFields DEF States, Taken
<1>2. CASE m.cs = "abort"
  BY <1>2, AbortTaken DEF OnResponse
<1>3. CASE m.cs # "abort"
  BY <1>1, <1>3, WaitingTaken, UploadTaken, DownloadTaken, BlockDownloadInitTaken, BlockDownloadTaken,
     BlockDownloadEndTaken, BlockUploadInitTaken, BlockUploadEndTaken DEF OnResponse
<1> QED
  BY <1>2, <1>3

\* A segment of a sub-block that is streamed, at the head of the queue.
LEMMA StreamTaken ==
  ASSUME NEW n, NEW p \in Records, Fresh(p), NEW S, NEW rs \in Seq(S), rs # <<>>, Head(rs).node = n,
         NEW s \in Servers, NEW kind, Streaming(n, p, rs, <<>>, s), NEW ok \in BOOLEAN
  PROVE  Goes(n, OnBlockUploadInProgress(p, Head(rs).rsp, ok), ok, Tail(rs), <<>>, s, kind)
<1> DEFINE m == Head(rs).rsp
           o == p.obj
           t == Tail(rs)
           r == OnBlockUploadInProgress(p, m, ok)
<1>1. /\ p.st = "buProg" /\ Uploads(p, s) /\ s.ph = "bu" /\ s.obj = o /\ s.blk = BlockSize
      /\ p.buf = Prefix(o, s.n + p.exp - 1) /\ Streams(rs, n, o, s.n)
  BY DEF Streaming, Uploads
<1>2. s.n \in Nat /\ p.exp \in Nat \ {0} /\ p.exp <= MaxBlk /\ BlockSize \in Nat /\ BlockSize <= MaxBlk
      /\ MaxBlk \in Nat /\ SegCount(o) \in Nat /\ <<>> \in Seq(Requests) /\ o \in Objects
  BY ServerFields, RecordFields, PendingConstantsOK
<1>3. /\ Len(rs) \in Nat \ {0} /\ Len(t) = Len(rs) - 1 /\ Head(rs) = rs[1] /\ 1 \in 1..Len(rs)
      /\ \A i \in 1..Len(t) : t[i] = rs[i + 1] /\ i + 1 \in 1..Len(rs)
  BY HeadTailProperties, EmptySeq, LenProperties
<1>4. Streams(t, n, o, s.n)
  BY <1>1, TailKeeps
<1>5. /\ m.cs = "buSeg" /\ m.seq \in 1..BlockSize /\ s.n + m.seq <= SegCount(o)
      /\ m.dat = <<<<o, s.n + m.seq>>>> /\ (m.last <=> s.n + m.seq = SegCount(o))
  BY <1>1, <1>3 DEF Streams
<1>6. ASSUME NEW i \in 1..Len(t), t[i].node = n
      PROVE  t[i].rsp.seq > m.seq /\ t[i].rsp.seq \in 1..BlockSize /\ s.n + t[i].rsp.seq <= SegCount(o)
  <2>1. t[i] = rs[i + 1] /\ i + 1 \in 1..Len(rs) /\ 1 < i + 1
    BY <1>3
  <2>2. rs[1].rsp.seq < rs[i + 1].rsp.seq
    BY <1>1, <1>3, <1>6, <2>1 DEF Streams
  <2>3. t[i].rsp.seq \in 1..BlockSize /\ s.n + t[i].rsp.seq <= SegCount(o)
    BY <1>4, <1>6 DEF Streams
  <2> QED
    BY <1>3, <1>5, <2>1, <2>2, <2>3
<1>7. Rest(n, t, <<>>, s, kind)
  BY <1>1, <1>4 DEF Rest, Noise, Streams, OnlyEnds, SubBlockStalls
<1> HIDE DEF m, t, o
<1>8. CASE m.seq # p.exp
  <2> DEFINE e == Aborted(p.node, o, "read", "sequence")
  <2>1. r = Done(e)
    BY <1>8 DEF OnBlockUploadInProgress, o
  <2>2. Honest(e, s.done)
    BY HonestEvents
  <2> HIDE DEF e, r
  <2>3. Goes(n, Done(e), ok, t, <<>>, s, kind)
    BY <1>7, <2>2, DoneQuits
  <2> QED
    BY <2>1, <2>3 DEF r, m, t
<1>9. CASE m.seq = p.exp /\ Len(p.buf) + 1 > MaxBuffer
  <2> DEFINE e == Aborted(p.node, o, "read", "memory")
  <2>1. r = [Done(e) EXCEPT !.scan = FALSE]
    BY <1>5, <1>9 DEF OnBlockUploadInProgress, o
  <2>2. Honest(e, s.done)
    BY HonestEvents
  <2>3. r.next = None /\ r.out = <<>> /\ r.ev = <<e>>
    BY <2>1 DEF Done, Outcome, None
  <2> HIDE DEF e, r
  <2>4. Goes(n, r, ok, t, <<>>, s, kind)
    BY <1>2, <1>7, <2>2, <2>3, Quits
  <2> QED
    BY <2>4 DEF r, m, t
<1>10. CASE m.seq = p.exp /\ ~(Len(p.buf) + 1 > MaxBuffer)
  <2> DEFINE buf == p.buf \o m.dat
             q == [p EXCEPT !.buf = buf, !.active = 0]
  <2>1. buf = Prefix(o, s.n + m.seq)
    <3> DEFINE k == s.n + p.exp - 1
    <3>1. k \in Nat /\ k + 1 = s.n + m.seq
      BY <1>2, <1>10
    <3> HIDE DEF k
    <3>2. p.buf = Prefix(o, k) /\ m.dat = <<<<o, k + 1>>>>
      BY <1>1, <1>5, <3>1 DEF k
    <3> QED
      BY <3>1, <3>2, OneMoreSegment
  <2> HIDE DEF buf
  <2>2. r = IF ~m.last /\ p.exp < BlockSize
              THEN GoOn([q EXCEPT !.exp = IF @ = MaxBlk THEN 1 ELSE @ + 1], <<>>)
            ELSE IF ~ok THEN SendFailed(p)
            ELSE GoOn([q EXCEPT !.st = IF m.last THEN "buEnd" ELSE @, !.exp = 1], <<BlockAck(m.seq)>>)
    BY <1>5, <1>10 DEF OnBlockUploadInProgress, buf, q
  <2>3. CASE ~m.last /\ p.exp < BlockSize
    <3> DEFINE u == [q EXCEPT !.exp = IF @ = MaxBlk THEN 1 ELSE @ + 1]
    <3>1. r = GoOn(u, <<>>)
      BY <2>2, <2>3
    <3>2. /\ u.st = "buProg" /\ u.dir = p.dir /\ u.started = p.started /\ u.active = 0
          /\ u.obj = o /\ u.buf = buf /\ u.exp = p.exp + 1
      <4>1. p.exp # MaxBlk /\ p \in Slots
        BY <1>2, <2>3, RecordFields
      <4> QED
        BY <1>1, <4>1 DEF Slots, o
    <3> HIDE DEF u, r, q
    <3>3. Fresh(u)
      BY <1>1, <3>2 DEF Fresh
    <3>4. s.n + u.exp - 1 = s.n + m.seq
      BY <1>2, <1>10, <3>2
    <3>5. Streaming(n, u, t, <<>>, s)
      BY <1>1, <1>4, <2>1, <3>2, <3>4 DEF Streaming, Uploads
    <3>6. Exchange(n, u, t, <<>>, s, kind)
      BY <3>5 DEF Exchange
    <3>7. r.next = <<u>> /\ r.out = <<>> /\ r.ev = <<>>
      BY <3>1, OutcomeParts
    <3>8. Goes(n, r, ok, t, <<>>, s, kind)
      BY <1>2, <3>3, <3>6, <3>7, Waits
    <3> QED
      BY <3>8 DEF r, m, t
  <2>4. CASE ~(~m.last /\ p.exp < BlockSize) /\ ~ok
    <3> DEFINE e == Aborted(p.node, p.obj, p.dir, "general")
    <3>1. r.next = None /\ r.out = <<>> /\ r.ev = <<e>>
      BY <2>2, <2>4, OutcomeParts
    <3>2. Honest(e, s.done)
      BY HonestEvents
    <3> HIDE DEF e, r
    <3>3. Goes(n, r, ok, t, <<>>, s, kind)
      BY <1>2, <1>7, <3>1, <3>2, Quits
    <3> QED
      BY <3>3 DEF r, m, t
  <2>5. CASE ~(~m.last /\ p.exp < BlockSize) /\ ok
    <3> DEFINE u == [q EXCEPT !.st = IF m.last THEN "buEnd" ELSE @, !.exp = 1]
               x == BlockAck(m.seq)
    <3>1. r = GoOn(u, <<x>>)
      BY <2>2, <2>5
    <3>2. /\ u.st = (IF m.last THEN "buEnd" ELSE "buProg") /\ u.dir = p.dir /\ u.started = p.started
          /\ u.active = 0 /\ u.obj = o /\ u.buf = buf /\ u.exp = 1
      <4>1. p \in Slots
        BY RecordFields
      <4> QED
        BY <1>1, <4>1 DEF Slots, o
    <3>3. x \in Requests /\ x.op = "buAck" /\ x.seq = m.seq
      BY <1>2, <1>5, RequestsAre DEF BlockAck
    <3> HIDE DEF u, x, r, q
    <3>4. Fresh(u)
      BY <1>1, <3>2 DEF Fresh
    <3>5. Silence(t, n)
      <4>1. ASSUME NEW i \in 1..Len(t), t[i].node = n PROVE FALSE
        <5>1. t[i].rsp.seq > m.seq /\ t[i].rsp.seq \in 1..BlockSize /\ s.n + t[i].rsp.seq <= SegCount(o)
          BY <1>6, <4>1 DEF m, t, o
        <5>2. CASE m.last
          BY <1>2, <1>5, <5>1, <5>2
        <5>3. CASE ~m.last
          BY <1>2, <1>5, <1>10, <2>5, <5>1, <5>3
        <5> QED
          BY <5>2, <5>3
      <4> QED
        BY <4>1 DEF Silence
    <3>6. Owed(u, x, s)
      <4>1. Uploads(u, s) /\ u.exp = 1 /\ u.buf = Prefix(u.obj, s.n + x.seq)
        BY <1>1, <2>1, <3>2, <3>3 DEF Uploads
      <4>2. \/ u.st = "buEnd" /\ s.n + x.seq = SegCount(u.obj)
            \/ u.st = "buProg" /\ s.n + x.seq < SegCount(u.obj)
        BY <1>2, <1>5, <3>2, <3>3
      <4> QED
        BY <3>3, <4>1, <4>2 DEF Owed
    <3>7. ~SubBlockStalls(s, kind)
      BY <1>1 DEF SubBlockStalls
    <3>8. Requested(n, u, t, <<x>>, s, kind)
      BY <3>5, <3>6, <3>7 DEF Requested
    <3>9. Exchange(n, u, t, <<x>>, s, kind)
      BY <3>8 DEF Exchange
    <3>10. r.next = <<u>> /\ r.out = <<x>> /\ r.ev = <<>>
      BY <3>1, OutcomeParts
    <3>11. Goes(n, r, ok, t, <<>>, s, kind)
      BY <3>3, <3>4, <3>5, <3>7, <3>9, <3>10, Proceeds
    <3> QED
      BY <3>11 DEF r, m, t
  <2> QED
    BY <2>3, <2>4, <2>5
<1> QED
  BY <1>8, <1>9, <1>10

\* The session takes a response of the node: the exchange goes on, and what is
\* reported is so.
LEMMA TakenInStep ==
  ASSUME NEW n \in Nodes, NEW p \in Records, NEW kind,
         NEW rs \in Seq([node : Nodes, rsp : Responses]), NEW rq \in Seq(Requests),
         NEW s \in Servers, InStep(n, <<p>>, rs, rq, s, kind), rs # <<>>, Head(rs).node = n,
         NEW ok \in BOOLEAN
  PROVE  Goes(n, OnResponse(p, Head(rs).rsp, ok), ok, Tail(rs), rq, s, kind)
<1> DEFINE m == Head(rs).rsp
           S == [node : Nodes, rsp : Responses]
<1>1. rs \in Seq(S)
  OBVIOUS
<1>2. m \in Responses
  <2>1. Head(rs) \in S
    BY TailIs
  <2> QED
    BY <2>1
<1> HIDE DEF S
<1>3. /\ Fresh(p) /\ Head(rs) = rs[1] /\ 1 \in 1..Len(rs)
      /\ \/ Opening(n, p, rs, rq, s, kind) \/ Answered(n, p, rs, rq, s, kind)
         \/ Streaming(n, p, rs, rq, s)
         \/ Lost(n, p, rs, rq, s, kind) /\ p.st # "buProg"
  BY <1>1, OwnHead DEF Fresh
<1>4. /\ Silence(rs, n) => Silence(Tail(rs), n)
      /\ Noise(rs, n) => Noise(Tail(rs), n) /\ m.cs = "buSeg"
  BY <1>1, <1>3, TailKeeps DEF Noise
<1> HIDE DEF m
<1>5. ASSUME m.cs = "buSeg", p.st # "buProg", Exchange(n, p, Tail(rs), rq, s, kind)
      PROVE  Goes(n, OnResponse(p, m, ok), ok, Tail(rs), rq, s, kind)
  <2>1. OnResponse(p, m, ok) = Keep(p)
    BY <1>5, NoiseIsKept
  <2>2. Goes(n, Keep(p), ok, Tail(rs), rq, s, kind)
    BY <1>3, <1>5, KeepWaits
  <2> QED
    BY <2>1, <2>2
<1>6. Goes(n, OnResponse(p, m, ok), ok, Tail(rs), rq, s, kind)
  <2>1. CASE Opening(n, p, rs, rq, s, kind)
    BY <1>4, <1>5, <2>1 DEF Opening, Exchange
  <2>2. CASE Lost(n, p, rs, rq, s, kind) /\ p.st # "buProg"
    BY <1>4, <1>5, <2>2 DEF Lost, Rest, Exchange
  <2>3. CASE Answered(n, p, rs, rq, s, kind)
    <3>1. PICK i \in 1..Len(rs) : Final(rs, i, n) /\ Fits(p, rs[i].rsp, s)
      BY <2>3 DEF Answered
    <3>2. rq = <<>> /\ p.st # "buProg" /\ ~SubBlockStalls(s, kind)
      BY <2>3 DEF Answered
    <3>3. CASE i = 1 /\ Head(rs) = rs[i] /\ Silence(Tail(rs), n)
      <4>1. Taken(n, p, m, Tail(rs), s, kind)
        BY <1>2, <1>3, <3>1, <3>2, <3>3 DEF Taken, m
      <4> QED
        BY <3>2, <4>1, FinalTaken
    <3>4. ASSUME NEW j \in 1..Len(Tail(rs)), Final(Tail(rs), j, n), Tail(rs)[j] = rs[i],
                 Head(rs).rsp.cs = "buSeg"
          PROVE  Goes(n, OnResponse(p, m, ok), ok, Tail(rs), rq, s, kind)
      <4>1. Answered(n, p, Tail(rs), rq, s, kind)
        BY <2>3, <3>1, <3>4 DEF Answered
      <4> QED
        BY <1>5, <3>2, <3>4, <4>1 DEF Exchange, m
    <3>5. rs \in Seq(S) /\ rs # <<>> /\ Final(rs, i, n)
      BY <1>1, <3>1
    <3>6. \/ i = 1 /\ Head(rs) = rs[i] /\ Silence(Tail(rs), n)
          \/ /\ \E j \in 1..Len(Tail(rs)) : Final(Tail(rs), j, n) /\ Tail(rs)[j] = rs[i]
             /\ Head(rs).node = n => Head(rs).rsp.cs = "buSeg"
      BY <3>5, FinalPasses
    <3> QED
      BY <3>3, <3>4, <3>6
  <2>4. CASE Streaming(n, p, rs, rq, s)
    <3>1. rq = <<>> /\ p.st = "buProg" /\ rs[1].rsp.cs = "buSeg"
      BY <1>3, <2>4 DEF Streaming, Streams
    <3>2. OnResponse(p, m, ok) = OnBlockUploadInProgress(p, m, ok)
      BY <1>3, <3>1 DEF OnResponse, m
    <3>3. Goes(n, OnBlockUploadInProgress(p, Head(rs).rsp, ok), ok, Tail(rs), <<>>, s, kind)
      BY <1>1, <1>3, <2>4, <3>1, StreamTaken
    <3> QED
      BY <3>1, <3>2, <3>3 DEF m
  <2> QED
    BY <1>3, <2>1, <2>2, <2>3, <2>4
<1> QED
  BY <1>6 DEF m

\* A node forgets nothing that it has stored.
LEMMA StoredStays ==
  ASSUME NEW s \in Servers, NEW q \in Requests, NEW kind
  PROVE  /\ \A r \in Serve(s, q, kind) : s.done \subseteq r.srv.done
         /\ ServeStall(s).srv.done = s.done
<1>1. /\ \A out : \A r \in Ends(s, out) : s.done \subseteq r.srv.done
      /\ \A o, out : \A r \in Commits(s, o, out) : s.done \subseteq r.srv.done
      /\ \A r \in Refuses(s) : s.done \subseteq r.srv.done
  BY DEF Ends, Commits, Refuses, Reaction, IdleServer
<1>2. \A ph, o : Begin(s, ph, o).done = s.done /\ [Begin(s, ph, o) EXCEPT !.blk = q.blk].done = s.done
  BY DEF Begin, IdleServer
<1>3. s \in Machines
  BY DEF Servers
<1>4. ASSUME NEW r \in Serve(s, q, kind) PROVE s.done \subseteq r.srv.done
  <2>1. CASE q.op \in {"ul", "dlX", "dl", "bd", "bu"}
    <3>1. r \in ServeInitiate(s, q, kind)
      BY <1>4, <2>1 DEF Serve
    <3>2. CASE q.obj \in Missing
      BY <1>1, <3>1, <3>2 DEF ServeInitiate
    <3>3. CASE q.obj \notin Missing /\ q.op \in {"bd", "bu"} /\ kind = "segmented"
      <4>1. \E c \in {"badCommand", "timeout"} : r \in Ends(s, <<AbortRsp(q.obj, c)>>)
        BY <3>1, <3>3 DEF ServeInitiate
      <4> QED
        BY <1>1, <4>1
    <3>4. CASE q.obj \notin Missing /\ ~(q.op \in {"bd", "bu"} /\ kind = "segmented")
      <4>1. \/ r \in Ends(s, <<ExpeditedRsp(q.obj)>>)
            \/ r = Reaction(Begin(s, "ul", q.obj), <<UploadRsp(q.obj)>>)
            \/ r \in Commits(s, q.obj, <<DownloadRsp(q.obj)>>)
            \/ r = Reaction(Begin(s, "dl", q.obj), <<DownloadRsp(q.obj)>>)
            \/ r = Reaction(Begin(s, "bd", q.obj), <<BlockDownloadRsp>>)
            \/ r = Reaction([Begin(s, "bu", q.obj) EXCEPT !.blk = q.blk], <<BlockUploadRsp>>)
        BY <2>1, <3>1, <3>4 DEF ServeInitiate
      <4>2. \A ph, o, out : r = Reaction(Begin(s, ph, o), out) => r.srv.done = s.done
        BY <1>2, ReactionParts
      <4>3. \A out : r = Reaction([Begin(s, "bu", q.obj) EXCEPT !.blk = q.blk], out) => r.srv.done = s.done
        <5> DEFINE u == [Begin(s, "bu", q.obj) EXCEPT !.blk = q.blk]
        <5>1. u.done = s.done
          BY <1>2
        <5> HIDE DEF u
        <5>2. \A out : r = Reaction(u, out) => r.srv.done = s.done
          BY <5>1, ReactionParts
        <5> QED
          BY <5>2 DEF u
      <4> QED
        BY <1>1, <4>1, <4>2, <4>3
    <3> QED
      BY <3>2, <3>3, <3>4
  <2>2. CASE q.op = "ulSeg"
    <3> DEFINE u == [s EXCEPT !.n = @ + 1, !.t = ~@]
    <3>1. r \in ServeUploadSeg(s, q)
      BY <1>4, <2>2 DEF Serve
    <3>2. r \in Refuses(s) \/ (\E out : r \in Ends(s, out)) \/ (\E out : r = Reaction(u, out))
      BY <3>1 DEF ServeUploadSeg
    <3>3. u.done = s.done
      BY <1>3 DEF Machines
    <3> HIDE DEF u
    <3> QED
      BY <1>1, <3>2, <3>3, ReactionParts
  <2>3. CASE q.op = "dlSeg"
    <3> DEFINE u == [s EXCEPT !.got = s.got \o q.dat, !.t = ~@]
    <3>1. r \in ServeDownloadSeg(s, q)
      BY <1>4, <2>3 DEF Serve
    <3>2. r \in Refuses(s) \/ (\E o, out : r \in Commits(s, o, out)) \/ (\E out : r = Reaction(u, out))
      BY <3>1 DEF ServeDownloadSeg
    <3>3. u.done = s.done
      BY <1>3 DEF Machines
    <3> HIDE DEF u
    <3> QED
      BY <1>1, <3>2, <3>3, ReactionParts
  <2>4. CASE q.op = "bdSeg"
    <3>1. r \in ServeBlockSeg(s, q)
      BY <1>4, <2>4 DEF Serve
    <3> DEFINE inOrder == q.seq = s.n + 1
               k == IF inOrder THEN q.seq ELSE s.n
               u == [s EXCEPT !.got = IF inOrder THEN Append(@, q.dat) ELSE @, !.n = k]
               v == [u EXCEPT !.n = 0]
    <3>2. r \in Refuses(s) \/ (\E out : r = Reaction(u, out)) \/ (\E out : r = Reaction(v, out))
      BY <3>1 DEF ServeBlockSeg
    <3>3. u.done = s.done /\ v.done = s.done
      BY <1>3 DEF Machines
    <3> HIDE DEF u, v
    <3> QED
      BY <1>1, <3>2, <3>3, ReactionParts
  <2>5. CASE q.op = "bdEnd"
    BY <1>1, <1>3, <1>4, <2>5 DEF Serve, ServeBlockEnd, Reaction, Machines
  <2>6. CASE q.op = "buStart"
    BY <1>1, <1>4, <2>6 DEF Serve, Reaction
  <2>7. CASE q.op = "buAck"
    <3>1. r \in ServeBlockAck(s, q)
      BY <1>4, <2>7 DEF Serve
    <3> DEFINE u == [s EXCEPT !.n = @ + q.seq]
               v == [u EXCEPT !.ph = "buEnd"]
    <3>2. r \in Refuses(s) \/ (\E out : r = Reaction(u, out)) \/ (\E out : r = Reaction(v, out))
      BY <3>1 DEF ServeBlockAck
    <3>3. u.done = s.done /\ v.done = s.done
      BY <1>3 DEF Machines
    <3> HIDE DEF u, v
    <3> QED
      BY <1>1, <3>2, <3>3, ReactionParts
  <2>8. CASE q.op = "buEndAck"
    BY <1>1, <1>4, <2>8 DEF Serve
  <2> QED
    BY <2>1, <2>2, <2>3, <2>4, <2>5, <2>6, <2>7, <2>8, RequestFields
<1>5. ServeStall(s).srv.done = s.done
  BY <1>3 DEF ServeStall, Reaction, Machines
<1> QED
  BY <1>4, <1>5

\* Timeouts are honest.
LEMMA TimeoutsHonest ==
  ASSUME NEW t \in Tables
  PROVE  \A i \in 1..Len(TimeoutEvents(t)) : \A done : Honest(TimeoutEvents(t)[i], done)
  BY TimeoutsAre DEF Honest

\* All that is reported is so.
AllHonest(ev, sv) == \A i \in 1..Len(ev) : Honest(ev[i], sv[ev[i].node].done)

\* It stays so while the nodes store more, and when honest events are added.
LEMMA HonestAdded ==
  ASSUME NEW q \in Seq(Events), NEW ev \in Seq(Events), NEW sv,
         AllHonest(q, sv), AllHonest(ev, sv)
  PROVE  AllHonest(q \o ev, sv)
<1> DEFINE a == q \o ev
<1>1. /\ Len(q) \in Nat /\ Len(ev) \in Nat /\ Len(a) = Len(q) + Len(ev)
      /\ \A i \in 1..Len(q) : a[i] = q[i]
      /\ \A i \in 1..Len(ev) : a[Len(q) + i] = ev[i]
  BY LenProperties, ConcatProperties
<1> HIDE DEF a
<1>2. ASSUME NEW i \in 1..Len(a) PROVE Honest(a[i], sv[a[i].node].done)
  <2>1. CASE i \in 1..Len(q)
    BY <1>1, <2>1 DEF AllHonest
  <2>2. CASE i \notin 1..Len(q)
    <3>1. i - Len(q) \in 1..Len(ev) /\ Len(q) + (i - Len(q)) = i
      BY <1>1, <2>2
    <3>2. a[i] = ev[i - Len(q)]
      BY <1>1, <3>1
    <3> QED
      BY <3>1, <3>2 DEF AllHonest
  <2> QED
    BY <2>1, <2>2
<1> QED
  BY <1>2 DEF AllHonest, a

\* Events stay honest as a node stores more, and as the oldest is taken.
LEMMA HonestStays ==
  ASSUME NEW q \in Seq(Events), NEW sv, NEW sw, AllHonest(q, sv),
         \A n \in Nodes : sv[n].done \subseteq sw[n].done
  PROVE  AllHonest(q, sw) /\ (q # <<>> => AllHonest(Tail(q), sv))
<1>1. \A i \in 1..Len(q) : q[i].node \in Nodes
  <2>1. \A i \in 1..Len(q) : q[i] \in Events
    BY ElementOfSeq
  <2>2. \A e \in Events : e.node \in Nodes
    BY DEF Events
  <2> QED
    BY <2>1, <2>2
<1>2. AllHonest(q, sw)
  BY <1>1 DEF AllHonest, Honest
<1>3. ASSUME q # <<>> PROVE AllHonest(Tail(q), sv)
  <2> DEFINE t == Tail(q)
  <2>1. Len(q) \in Nat /\ Len(t) = Len(q) - 1 /\ \A i \in 1..Len(t) : t[i] = q[i + 1]
    BY <1>3, HeadTailProperties, LenProperties
  <2> HIDE DEF t
  <2>2. \A i \in 1..Len(t) : i + 1 \in 1..Len(q)
    BY <2>1
  <2>3. AllHonest(t, sv)
    BY <2>1, <2>2 DEF AllHonest
  <2> QED
    BY <2>3 DEF t
<1> QED
  BY <1>2, <1>3

\* Every node is in step with the table.
AllInStep(tbl, rs, rq, sv) == \A n \in Nodes : InStep(n, tbl[n], rs, rq[n], sv[n], world.kind[n])

\* The invariant by its parts.
LEMMA ReportsParts ==
  ReportsInv <=>
    (Calm => link = "up" /\ AllInStep(pending, rsps, reqs, srv) /\ AllHonest(events, srv))
  BY DEF ReportsInv, AllInStep, AllHonest

\* The scan leaves the nodes in step.
LEMMA ScanInStep ==
  ASSUME NEW t \in Tables, NEW rs, NEW rq, NEW sv, AllInStep(t, rs, rq, sv)
  PROVE  AllInStep(Scanned(t), rs, rq, sv)
<1> SUFFICES ASSUME NEW n \in Nodes
             PROVE  InStep(n, Scanned(t)[n], rs, rq[n], sv[n], world.kind[n])
  BY DEF AllInStep
<1>1. InStep(n, t[n], rs, rq[n], sv[n], world.kind[n])
  BY DEF AllInStep
<1>2. CASE n \notin Overdue(t)
  BY <1>1, <1>2, ScannedIs
<1>3. CASE n \in Overdue(t)
  <2>1. t[n] # None /\ Due(t[n][1]) /\ Scanned(t)[n] = None
    BY <1>3, ScannedIs DEF Overdue
  <2>2. t[n][1] \in Records /\ t[n] = <<t[n][1]>>
    BY <2>1, EntryOfTable
  <2>3. Rest(n, rs, rq[n], sv[n], world.kind[n])
    BY <1>1, <2>1, <2>2, DueIsQuiet
  <2> QED
    BY <2>1, <2>3 DEF InStep
<1> QED
  BY <1>2, <1>3

\* Nothing the invariant speaks of moves, but for events that are taken.
LEMMA ReportsUntouched ==
  ASSUME Typed, ReportsInv, UNCHANGED <<link, pending, rsps, reqs, srv, world, unplugs>>,
         UNCHANGED events \/ (events # <<>> /\ events' = Tail(events))
  PROVE  ReportsInv'
<1>1. Calm' => Calm
  BY DEF Calm, OneAtATime
<1>2. events \in Seq(Events)
  BY DEF Typed
<1> SUFFICES ASSUME Calm
             PROVE  (link = "up" /\ AllInStep(pending, rsps, reqs, srv) /\ AllHonest(events, srv))'
  BY <1>1, ReportsParts, PTL
<1>3. link = "up" /\ AllInStep(pending, rsps, reqs, srv) /\ AllHonest(events, srv)
  BY ReportsParts
<1>4. AllHonest(events', srv)
  BY <1>2, <1>3, HonestStays
<1> QED
  BY <1>3, <1>4 DEF AllInStep, AllHonest

\* Events are added, and the parts the invariant speaks of stay in step.
LEMMA ReportsMoved ==
  ASSUME Typed, ReportsInv, UNCHANGED <<link, world, unplugs>>,
         NEW ev \in Seq(Events), NEW late \in Seq(Events), events' = events \o ev \o late,
         Calm /\ link = "up" /\ AllInStep(pending, rsps, reqs, srv) =>
           /\ \A n \in Nodes : srv[n].done \subseteq srv'[n].done
           /\ AllHonest(ev, srv') /\ AllHonest(late, srv')
           /\ AllInStep(pending', rsps', reqs', srv')
  PROVE  ReportsInv'
<1>1. Calm' => Calm
  BY DEF Calm, OneAtATime
<1>2. events \in Seq(Events) /\ events \o ev \in Seq(Events)
  BY ConcatProperties DEF Typed
<1> SUFFICES ASSUME Calm
             PROVE  (link = "up" /\ AllInStep(pending, rsps, reqs, srv) /\ AllHonest(events, srv))'
  BY <1>1, ReportsParts, PTL
<1>3. link = "up" /\ AllInStep(pending, rsps, reqs, srv) /\ AllHonest(events, srv)
  BY ReportsParts
<1>4. /\ \A n \in Nodes : srv[n].done \subseteq srv'[n].done
      /\ AllHonest(ev, srv') /\ AllHonest(late, srv') /\ AllInStep(pending', rsps', reqs', srv')
  BY <1>3
<1>5. AllHonest(events, srv')
  BY <1>2, <1>3, <1>4, HonestStays
<1>6. AllHonest(events \o ev, srv')
  BY <1>2, <1>4, <1>5, HonestAdded
<1>7. AllHonest(events \o ev \o late, srv')
  BY <1>2, <1>4, <1>6, HonestAdded
<1> QED
  BY <1>3, <1>4, <1>7 DEF AllInStep, AllHonest

\* One honest event, and none.
LEMMA OneHonest ==
  ASSUME NEW e \in Events, NEW sv, Honest(e, sv[e.node].done)
  PROVE  <<e>> \in Seq(Events) /\ AllHonest(<<e>>, sv)
<1>1. \A i \in 1..Len(<<e>>) : <<e>>[i] = e
  OBVIOUS
<1> QED
  BY <1>1, Singles DEF AllHonest

\* Where no event is added nothing is told.
LEMMA NoneHonest ==
  /\ <<>> \in Seq(Events) /\ \A sv : AllHonest(<<>>, sv)
  /\ \A q \in Seq(Events) : q = q \o <<>> \o <<>> /\ \A ev : q \o ev = q \o <<>> \o ev
<1>1. 1..Len(<<>>) = {}
  OBVIOUS
<1>2. \A q \in Seq(Events) : q \o <<>> = q
  BY ConcatEmptySeq
<1> QED
  BY <1>1, <1>2 DEF AllHonest

\* A command: where none overlaps another it is for a node without a transfer.
LEMMA CommandReports == Typed /\ IndicatorInv /\ ReportsInv /\ Command => ReportsInv'
<1> SUFFICES ASSUME Typed, IndicatorInv, ReportsInv, Command PROVE ReportsInv'
  OBVIOUS
<1> DEFINE c == Head(cmds)
           s == Start(c, noBlock)
<1>1. cmds # <<>> /\ UNCHANGED <<link, world, rsps, srv>>
  BY DEF Command
<1>2. c \in Asks /\ c.node \in Nodes /\ c.obj \in Objects /\ c.dir \in Directions
  <2>1. c \in world.commands
    BY <1>1, TailIs DEF Typed
  <2>2. c \in Asks
    BY <2>1, CommandsAre
  <2> QED
    BY <2>2 DEF Asks, Directions
<1>3. Calm => pending[c.node] = None
  BY <1>1 DEF IndicatorInv, Alone, Calm
<1>4. \/ /\ pending' = [pending EXCEPT ![c.node] = <<s.p>>]
         /\ reqs' = [reqs EXCEPT ![c.node] = Append(@, s.out)]
         /\ events' = Append(events, Pending(c)) /\ UNCHANGED mishaps
      \/ /\ SendFault /\ UNCHANGED <<pending, reqs>>
         /\ events' = Append(events, Aborted(c.node, c.obj, c.dir, "general"))
  BY DEF Command, session
<1>5. /\ pending \in [Nodes -> UNION {Entries(k) : k \in Nodes}] /\ reqs \in [Nodes -> Seq(Requests)]
      /\ events \in Seq(Events)
  BY DEF Typed, Tables
<1> HIDE DEF c, s
<1>6. CASE /\ pending' = [pending EXCEPT ![c.node] = <<s.p>>]
           /\ reqs' = [reqs EXCEPT ![c.node] = Append(@, s.out)]
           /\ events' = Append(events, Pending(c)) /\ UNCHANGED mishaps
  <2> DEFINE e == Pending(c)
  <2>1. e \in Events /\ e.kind = "pending"
    <3>1. <<>> \in Data
      BY DEF Data
    <3> QED
      BY <1>2, <3>1 DEF Pending, Events, Codes
  <2> HIDE DEF e
  <2>2. events' = events \o <<e>> \o <<>>
    BY <1>5, <1>6, <2>1, OneMore DEF e
  <2>3. <<e>> \in Seq(Events) /\ AllHonest(<<e>>, srv)
    BY <2>1, OneHonest DEF Honest
  <2>4. ASSUME Calm, AllInStep(pending, rsps, reqs, srv) PROVE AllInStep(pending', rsps, reqs', srv)
    <3>1. ASSUME NEW n \in Nodes PROVE InStep(n, pending'[n], rsps, reqs'[n], srv[n], world.kind[n])
      <4>1. InStep(n, pending[n], rsps, reqs[n], srv[n], world.kind[n])
        BY <2>4 DEF AllInStep
      <4>2. CASE n # c.node
        BY <1>5, <1>6, <4>1, <4>2
      <4>3. CASE n = c.node
        <5>1. InStep(n, None, rsps, reqs[n], srv[n], world.kind[n]) /\ reqs[n] \in Seq(Requests)
          BY <1>3, <1>5, <2>4, <4>1, <4>3
        <5>2. InStep(n, <<s.p>>, rsps, Append(reqs[n], s.out), srv[n], world.kind[n])
          BY <1>2, <5>1, CommandOpens DEF s
        <5>3. pending'[n] = <<s.p>> /\ reqs'[n] = Append(reqs[n], s.out)
          BY <1>5, <1>6, <4>3
        <5> QED
          BY <5>2, <5>3
      <4> QED
        BY <4>2, <4>3
    <3> QED
      BY <3>1 DEF AllInStep
  <2> QED
    BY <1>1, <1>6, <2>2, <2>3, <2>4, NoneHonest, ReportsMoved DEF mishaps
<1>7. CASE /\ SendFault /\ UNCHANGED <<pending, reqs>>
           /\ events' = Append(events, Aborted(c.node, c.obj, c.dir, "general"))
  <2> DEFINE e == Aborted(c.node, c.obj, c.dir, "general")
  <2>1. e \in Events
    BY <1>2, EventsAre DEF Codes
  <2>2. \A done : Honest(e, done)
    BY HonestEvents
  <2> HIDE DEF e
  <2>3. events' = events \o <<e>> \o <<>>
    BY <1>5, <1>7, <2>1, OneMore DEF e
  <2>4. <<e>> \in Seq(Events) /\ AllHonest(<<e>>, srv)
    BY <2>1, <2>2, OneHonest
  <2>5. UNCHANGED unplugs
    BY <1>7 DEF SendFault
  <2> QED
    BY <1>1, <1>7, <2>3, <2>4, <2>5, NoneHonest, ReportsMoved
<1> QED
  BY <1>4, <1>6, <1>7

\* A response of a node with a transfer.
LEMMA RespondReports == Typed /\ ReportsInv /\ Respond => ReportsInv'
<1> SUFFICES ASSUME Typed, ReportsInv, Respond PROVE ReportsInv'
  OBVIOUS
<1> DEFINE n == Head(rsps).node
           m == Head(rsps).rsp
           p == pending[n][1]
<1>1. rsps # <<>> /\ pending[n] # None /\ n \in Nodes /\ m \in Responses
  BY HeadResponse DEF Respond
<1>2. p \in Records /\ p.node = n /\ pending[n] = <<p>>
  BY <1>1, EntryOfTable DEF Typed
<1>3. UNCHANGED <<link, world, srv>> /\ rsps' = Tail(rsps)
  BY DEF Respond
<1>4. PICK ok \in BOOLEAN :
        LET r == OnResponse(p, m, ok)
            tbl == [pending EXCEPT ![n] = r.next]
        IN /\ IF ok THEN UNCHANGED mishaps ELSE SendFault /\ OnResponse(p, m, TRUE).out # <<>>
           /\ \E out \in GetsOut(r.out, ok) : reqs' = [reqs EXCEPT ![n] = @ \o out]
           /\ pending' = IF r.scan THEN Scanned(tbl) ELSE tbl
           /\ events' = events \o r.ev \o (IF r.scan THEN TimeoutEvents(tbl) ELSE <<>>)
           /\ noBlock' = IF m.cs = "abort" /\ FallsBack(p, m) THEN noBlock \cup {n} ELSE noBlock
  BY DEF Respond
<1> DEFINE r == OnResponse(p, m, ok)
           tbl == [pending EXCEPT ![n] = r.next]
           late == IF r.scan THEN TimeoutEvents(tbl) ELSE <<>>
<1>5. UNCHANGED unplugs
  BY <1>4 DEF mishaps, SendFault
<1> HIDE DEF n, m, p
<1>6. Answers(p, r)
  BY <1>1, <1>2, ResponseAnswers
<1> HIDE DEF r
<1>7. r.next \in Entries(n)
  BY <1>2, <1>6 DEF Answers, Entries
<1>8. tbl \in Tables
  BY <1>1, <1>7, ReplacedEntry DEF Typed
<1>9. PICK out \in GetsOut(r.out, ok) : reqs' = [reqs EXCEPT ![n] = @ \o out]
  BY <1>4 DEF r
<1>10. pending' = (IF r.scan THEN Scanned(tbl) ELSE tbl) /\ events' = events \o r.ev \o late
  BY <1>4 DEF r
<1>11. /\ rsps \in Seq([node : Nodes, rsp : Responses]) /\ reqs \in [Nodes -> Seq(Requests)]
       /\ srv \in [Nodes -> Servers] /\ pending \in [Nodes -> UNION {Entries(k) : k \in Nodes}]
  BY DEF Typed, Tables
<1>12. r.ev \in Seq(Events) /\ \A i \in 1..Len(r.ev) : r.ev[i].node = n
  <2>1. CASE r.ev = <<>>
    <3>1. <<>> \in Seq(Events) /\ 1..Len(<<>>) = {}
      OBVIOUS
    <3> QED
      BY <2>1, <3>1
  <2>2. CASE \E e \in Events : e.node = p.node /\ r.ev = <<e>>
    <3>1. PICK e \in Events : e.node = n /\ r.ev = <<e>>
      BY <1>2, <2>2
    <3>2. <<e>> \in Seq(Events) /\ \A i \in 1..Len(<<e>>) : <<e>>[i] = e
      BY Singles
    <3> QED
      BY <3>1, <3>2
  <2> QED
    BY <1>6, <2>1, <2>2 DEF Answers
<1> HIDE DEF tbl
<1>13. late \in Seq(Events) /\ \A sv : AllHonest(late, sv)
  BY <1>8, TimeoutsAre, TimeoutsHonest, NoneHonest DEF AllHonest
<1> HIDE DEF late
<1>14. ASSUME AllInStep(pending, rsps, reqs, srv)
       PROVE  AllHonest(r.ev, srv) /\ AllInStep(pending', Tail(rsps), reqs', srv)
  <2>1. \A k \in Nodes : InStep(k, pending[k], rsps, reqs[k], srv[k], world.kind[k])
    BY <1>14 DEF AllInStep
  <2>2. Goes(n, r, ok, Tail(rsps), reqs[n], srv[n], world.kind[n])
    <3>1. /\ InStep(n, <<p>>, rsps, reqs[n], srv[n], world.kind[n])
          /\ reqs[n] \in Seq(Requests) /\ srv[n] \in Servers
      BY <1>1, <1>2, <1>11, <2>1
    <3>2. rsps # <<>> /\ Head(rsps).node = n
      BY <1>1 DEF n
    <3>3. Goes(n, OnResponse(p, Head(rsps).rsp, ok), ok, Tail(rsps), reqs[n], srv[n], world.kind[n])
      BY <1>1, <1>2, <1>11, <3>1, <3>2, TakenInStep
    <3> QED
      BY <3>3 DEF r, m
  <2>3. AllHonest(r.ev, srv)
    BY <1>12, <2>2 DEF Goes, AllHonest
  <2>4. ASSUME NEW k \in Nodes PROVE InStep(k, tbl[k], Tail(rsps), reqs'[k], srv[k], world.kind[k])
    <3>1. CASE k # n
      <4>1. tbl[k] = pending[k] /\ reqs'[k] = reqs[k]
        BY <1>9, <1>11, <3>1 DEF tbl
      <4>2. InStep(k, pending[k], rsps, reqs[k], srv[k], world.kind[k]) /\ Head(rsps).node # k
        BY <2>1, <3>1 DEF n
      <4>3. InStep(k, pending[k], Tail(rsps), reqs[k], srv[k], world.kind[k])
        BY <1>1, <1>11, <4>2, OthersPass
      <4> QED
        BY <4>1, <4>3
    <3>2. CASE k = n
      <4>1. tbl[n] = r.next /\ reqs'[n] = reqs[n] \o out
        BY <1>1, <1>9, <1>11 DEF tbl
      <4> QED
        BY <2>2, <3>2, <4>1 DEF Goes
    <3> QED
      BY <3>1, <3>2
  <2>5. AllInStep(tbl, Tail(rsps), reqs', srv)
    BY <2>4 DEF AllInStep
  <2>6. AllInStep(Scanned(tbl), Tail(rsps), reqs', srv)
    BY <1>8, <2>5, ScanInStep
  <2> QED
    BY <1>10, <2>3, <2>5, <2>6
<1> QED
  BY <1>3, <1>5, <1>10, <1>12, <1>13, <1>14, ReportsMoved

\* The response at the head of the queue is lost, or is none of a transfer's.
LEMMA HeadGone ==
  ASSUME Typed, rsps # <<>>, AllInStep(pending, rsps, reqs, srv)
  PROVE  AllInStep(pending, Tail(rsps), reqs, srv)
<1> DEFINE S == [node : Nodes, rsp : Responses]
<1>1. rsps \in Seq(S) /\ pending \in Tables
  BY DEF Typed
<1> HIDE DEF S
<1> SUFFICES ASSUME NEW n \in Nodes
             PROVE  InStep(n, pending[n], Tail(rsps), reqs[n], srv[n], world.kind[n])
  BY DEF AllInStep
<1>2. InStep(n, pending[n], rsps, reqs[n], srv[n], world.kind[n])
  BY DEF AllInStep
<1>3. CASE Head(rsps).node # n
  BY <1>1, <1>2, <1>3, OthersPass
<1>4. CASE Head(rsps).node = n /\ pending[n] = None
  <2>1. Noise(rsps, n) => Noise(Tail(rsps), n)
    BY <1>1, TailKeeps
  <2> QED
    BY <1>2, <1>4, <2>1 DEF InStep, Rest
<1>5. CASE Head(rsps).node = n /\ pending[n] # None
  <2> DEFINE p == pending[n][1]
  <2>1. p \in Records /\ pending[n] = <<p>>
    BY <1>1, <1>5, EntryOfTable
  <2> HIDE DEF p
  <2>2. InStep(n, <<p>>, rsps, reqs[n], srv[n], world.kind[n])
    BY <1>2, <2>1
  <2>3. InStep(n, <<p>>, Tail(rsps), reqs[n], srv[n], world.kind[n])
    BY <1>1, <1>5, <2>1, <2>2, ResponseLost
  <2> QED
    BY <2>1, <2>3
<1> QED
  BY <1>3, <1>4, <1>5

\* What is overheard of a node without a transfer is no report: it is a segment of an
\* upload that has failed. Any frame ends in the scan.
LEMMA OverhearReports == Typed /\ ReportsInv /\ (Overhear \/ OtherFrame) => ReportsInv'
<1> SUFFICES ASSUME Typed, ReportsInv, Overhear \/ OtherFrame PROVE ReportsInv'
  OBVIOUS
<1>1. pending \in Tables /\ events \in Seq(Events)
  BY DEF Typed
<1>2. /\ TimeoutEvents(pending) \in Seq(Events) /\ \A sv : AllHonest(TimeoutEvents(pending), sv)
      /\ pending' = Scanned(pending) /\ UNCHANGED <<link, world, unplugs, reqs, srv>>
  BY <1>1, TimeoutsAre, TimeoutsHonest DEF AllHonest, Overhear, OtherFrame, mishaps, bus
<1>3. CASE Overhear
  <2> DEFINE n == Head(rsps).node
             ev == Passive(n, Head(rsps).rsp)
  <2>1. /\ rsps # <<>> /\ pending[n] = None /\ n \in Nodes /\ rsps' = Tail(rsps)
        /\ events' = events \o ev \o TimeoutEvents(pending)
    BY <1>3, HeadResponse DEF Overhear
  <2>2. ev \in Seq(Events)
    <3>1. Head(rsps).rsp \in Responses
      BY <2>1, HeadResponse
    <3>2. ev = <<>> \/ \E e \in Events : ev = <<e>>
      BY <2>1, <3>1, PassiveIs
    <3> HIDE DEF ev
    <3>3. <<>> \in Seq(Events) /\ \A e \in Events : <<e>> \in Seq(Events)
      BY Singles
    <3> QED
      BY <3>2, <3>3
  <2>3. ASSUME AllInStep(pending, rsps, reqs, srv)
        PROVE  AllHonest(ev, srv) /\ AllInStep(pending', rsps', reqs', srv')
    <3>1. Noise(rsps, n)
      BY <2>1, <2>3 DEF AllInStep, InStep, Rest
    <3>2. Head(rsps) = rsps[1] /\ 1 \in 1..Len(rsps)
      BY <2>1, HeadTailProperties, EmptySeq, LenProperties DEF Typed
    <3>3. Head(rsps).rsp.cs = "buSeg"
      BY <3>1, <3>2 DEF Noise
    <3>4. ev = <<>>
      BY <3>3 DEF Passive
    <3>5. AllInStep(pending, Tail(rsps), reqs, srv)
      BY <2>1, <2>3, HeadGone
    <3>6. AllInStep(Scanned(pending), Tail(rsps), reqs, srv)
      BY <1>1, <3>5, ScanInStep
    <3> QED
      BY <1>2, <2>1, <3>4, <3>6, NoneHonest
  <2> HIDE DEF ev
  <2> QED
    BY <1>2, <2>1, <2>2, <2>3, ReportsMoved
<1>4. CASE OtherFrame
  <2>1. events' = events \o <<>> \o TimeoutEvents(pending) /\ UNCHANGED rsps
    BY <1>1, <1>4, NoneHonest DEF OtherFrame, bus
  <2>2. AllInStep(pending, rsps, reqs, srv) => AllInStep(pending', rsps', reqs', srv')
    BY <1>1, <1>2, <2>1, ScanInStep
  <2> QED
    BY <1>2, <2>1, <2>2, NoneHonest, ReportsMoved
<1> QED
  BY <1>3, <1>4

\* What a node sends arrives from it alone.
LEMMA ArrivesInStep ==
  ASSUME Typed, NEW n \in Nodes, NEW out \in Seq(Responses), NEW s, NEW rq,
         AllInStep(pending, rsps, reqs, srv),
         InStep(n, pending[n], rsps \o From(n, out), rq, s, world.kind[n])
  PROVE  AllInStep(pending, rsps \o From(n, out), [reqs EXCEPT ![n] = rq], [srv EXCEPT ![n] = s])
<1> DEFINE S == [node : Nodes, rsp : Responses]
           f == From(n, out)
<1>1. /\ rsps \in Seq(S) /\ reqs \in [Nodes -> Seq(Requests)] /\ srv \in [Nodes -> Servers]
      /\ f \in Seq(S) /\ Len(f) = Len(out) /\ \A i \in 1..Len(out) : f[i] = [node |-> n, rsp |-> out[i]]
  BY FromIs DEF Typed
<1> HIDE DEF S, f
<1>2. ASSUME NEW k \in Nodes, k # n PROVE InStep(k, pending[k], rsps \o f, reqs[k], srv[k], world.kind[k])
  <2>1. Silence(f, k)
    <3>1. ASSUME NEW i \in 1..Len(f) PROVE f[i].node # k
      <4>1. f[i] = [node |-> n, rsp |-> out[i]]
        BY <1>1, <3>1
      <4> QED
        BY <1>2, <4>1
    <3> QED
      BY <3>1 DEF Silence
  <2>2. InStep(k, pending[k], rsps, reqs[k], srv[k], world.kind[k])
    BY DEF AllInStep
  <2> QED
    BY <1>1, <2>1, <2>2, OthersPass
<1>3. InStep(n, pending[n], rsps \o f, rq, s, world.kind[n])
  BY DEF f
<1> QED
  BY <1>1, <1>2, <1>3 DEF AllInStep, f

\* A node serves a request, or stalls.
LEMMA NodeReports == Typed /\ ReportsInv /\ NodeNext => ReportsInv'
<1> SUFFICES ASSUME Typed, ReportsInv, NEW n \in Nodes, NodeServe(n) \/ NodeStall(n) PROVE ReportsInv'
  BY DEF NodeNext
<1>1. /\ srv \in [Nodes -> Servers] /\ reqs \in [Nodes -> Seq(Requests)] /\ events \in Seq(Events)
      /\ rsps \in Seq([node : Nodes, rsp : Responses])
      /\ (pending[n] # None => pending[n][1] \in Records)
  BY EntryOfTable DEF Typed
<1>2. CASE NodeServe(n)
  <2>1. /\ reqs[n] # <<>> /\ reqs' = [reqs EXCEPT ![n] = Tail(reqs[n])]
        /\ UNCHANGED <<pending, events, link, unplugs, world>>
    BY <1>2 DEF NodeServe, session, mishaps
  <2>2. PICK r \in Serve(srv[n], Head(reqs[n]), world.kind[n]) :
          srv' = [srv EXCEPT ![n] = r.srv] /\ Arrive(n, r.out)
    BY <1>2 DEF NodeServe
  <2>3. Head(reqs[n]) \in Requests
    BY <1>1, <2>1, TailIs
  <2>4. r.out \in Seq(Responses) /\ srv[n].done \subseteq r.srv.done
    BY <1>1, <2>3, ServeReacts, StoredStays DEF Reactions
  <2>5. \A k \in Nodes : srv[k].done \subseteq srv'[k].done
    BY <1>1, <2>2, <2>4
  <2>6. ASSUME link = "up", AllInStep(pending, rsps, reqs, srv) PROVE AllInStep(pending', rsps', reqs', srv')
    <3>1. InStep(n, pending[n], rsps, reqs[n], srv[n], world.kind[n])
      BY <2>6 DEF AllInStep
    <3>2. InStep(n, pending[n], rsps \o From(n, r.out), Tail(reqs[n]), r.srv, world.kind[n])
      BY <1>1, <2>1, <3>1, ServedInStep
    <3>3. rsps' = rsps \o From(n, r.out)
      BY <2>2, <2>6 DEF Arrive, From
    <3>4. AllInStep(pending, rsps \o From(n, r.out), [reqs EXCEPT ![n] = Tail(reqs[n])],
                    [srv EXCEPT ![n] = r.srv])
      BY <2>4, <2>6, <3>2, ArrivesInStep
    <3> QED
      BY <2>1, <2>2, <3>3, <3>4
  <2>7. events' = events \o <<>> \o <<>>
    BY <1>1, <2>1, NoneHonest
  <2> QED
    BY <2>1, <2>5, <2>6, <2>7, NoneHonest, ReportsMoved
<1>3. CASE NodeStall(n)
  <2> DEFINE r == ServeStall(srv[n])
  <2>1. /\ reqs[n] = <<>> /\ SubBlockStalls(srv[n], world.kind[n])
        /\ srv' = [srv EXCEPT ![n] = r.srv] /\ Arrive(n, r.out)
        /\ UNCHANGED <<pending, events, link, reqs, unplugs, world>>
    BY <1>3 DEF NodeStall, session, mishaps
  <2>2. r.out \in Seq(Responses) /\ r.srv.done = srv[n].done
    <3>1. BlockEndAck \in Requests
      BY RequestsAre
    <3> QED
      BY <1>1, <3>1, BlockEndReacts, StoredStays DEF Reactions
  <2>3. \A k \in Nodes : srv[k].done \subseteq srv'[k].done
    <3> HIDE DEF r
    <3> QED
      BY <1>1, <2>1, <2>2
  <2>4. ASSUME link = "up", AllInStep(pending, rsps, reqs, srv) PROVE AllInStep(pending', rsps', reqs', srv')
    <3>1. InStep(n, pending[n], rsps, <<>>, srv[n], world.kind[n])
      BY <2>1, <2>4 DEF AllInStep
    <3>2. InStep(n, pending[n], rsps \o From(n, r.out), <<>>, r.srv, world.kind[n])
      BY <1>1, <2>1, <3>1, StalledInStep
    <3> HIDE DEF r
    <3>3. rsps' = rsps \o From(n, r.out)
      BY <2>1, <2>4 DEF Arrive, From
    <3>4. AllInStep(pending, rsps \o From(n, r.out), [reqs EXCEPT ![n] = <<>>], [srv EXCEPT ![n] = r.srv])
      BY <2>2, <2>4, <3>2, ArrivesInStep
    <3>5. [reqs EXCEPT ![n] = <<>>] = reqs
      BY <1>1, <2>1
    <3> QED
      BY <2>1, <3>3, <3>4, <3>5
  <2>5. events' = events \o <<>> \o <<>>
    BY <1>1, <2>1, NoneHonest
  <2> HIDE DEF r
  <2> QED
    BY <2>1, <2>3, <2>4, <2>5, NoneHonest, ReportsMoved
<1> QED
  BY <1>2, <1>3

\* The bus loses a frame.
LEMMA LoseReports == Typed /\ ReportsInv /\ Lose => ReportsInv'
<1> SUFFICES ASSUME Typed, ReportsInv, Lose PROVE ReportsInv'
  OBVIOUS
<1>1. UNCHANGED <<pending, events, link, srv, unplugs, world>>
  BY DEF Lose, session
<1>2. AllInStep(pending, rsps, reqs, srv) => AllInStep(pending, rsps', reqs', srv)
  <2> SUFFICES ASSUME AllInStep(pending, rsps, reqs, srv) PROVE AllInStep(pending, rsps', reqs', srv)
    OBVIOUS
  <2>1. CASE rsps # <<>> /\ rsps' = Tail(rsps) /\ UNCHANGED reqs
    BY <2>1, HeadGone
  <2>2. ASSUME NEW n \in Nodes, reqs[n] # <<>>, reqs' = [reqs EXCEPT ![n] = Tail(@)], UNCHANGED rsps
        PROVE  AllInStep(pending, rsps', reqs', srv)
    <3>1. reqs \in [Nodes -> Seq(Requests)]
      BY DEF Typed
    <3>2. InStep(n, pending[n], rsps, reqs[n], srv[n], world.kind[n]) /\ reqs[n] \in Seq(Requests)
      BY <3>1 DEF AllInStep
    <3>3. InStep(n, pending[n], rsps, Tail(reqs[n]), srv[n], world.kind[n])
      BY <2>2, <3>2, RequestLost
    <3> QED
      BY <2>2, <3>1, <3>3 DEF AllInStep
  <2> QED
    BY <2>1, <2>2 DEF Lose
<1>3. events' = events \o <<>> \o <<>>
  BY <1>1, NoneHonest DEF Typed
<1> QED
  BY <1>1, <1>2, <1>3, NoneHonest, ReportsMoved

\* Time passes: where answers are in time, while nothing is under way.
LEMMA TickReports == Typed /\ ReportsInv /\ Tick => ReportsInv'
<1> SUFFICES ASSUME Typed, ReportsInv, Tick PROVE ReportsInv'
  OBVIOUS
<1>1. /\ UNCHANGED <<events, link, rsps, reqs, srv, unplugs, world>>
      /\ pending' = [n \in Nodes |-> IF pending[n] = None THEN None ELSE <<Aged(pending[n][1])>>]
  BY DEF Tick, bus, mishaps
<1>2. ASSUME Calm, AllInStep(pending, rsps, reqs, srv) PROVE AllInStep(pending', rsps, reqs, srv)
  <2> SUFFICES ASSUME NEW n \in Nodes
               PROVE  InStep(n, pending'[n], rsps, reqs[n], srv[n], world.kind[n])
    BY DEF AllInStep
  <2>1. InStep(n, pending[n], rsps, reqs[n], srv[n], world.kind[n])
    BY <1>2 DEF AllInStep
  <2>2. CASE pending[n] = None
    BY <1>1, <2>1, <2>2
  <2>3. CASE pending[n] # None
    <3> DEFINE p == pending[n][1]
    <3>1. p \in Records /\ pending[n] = <<p>>
      BY <2>3, EntryOfTable DEF Typed
    <3>2. pending'[n] = <<Aged(p)>>
      BY <1>1, <2>3
    <3>3. rsps = <<>> /\ reqs[n] = <<>> /\ ~SubBlockStalls(srv[n], world.kind[n])
      BY <1>2 DEF Tick, Calm, BusQuiet
    <3>4. Quiet(n, rsps, reqs[n], srv[n], world.kind[n])
      BY <3>3 DEF Quiet, Silence
    <3> HIDE DEF p
    <3>5. InStep(n, <<p>>, rsps, reqs[n], srv[n], world.kind[n])
      BY <2>1, <3>1
    <3>6. InStep(n, <<Aged(p)>>, rsps, reqs[n], srv[n], world.kind[n])
      BY <3>1, <3>4, <3>5, QuietAges
    <3> QED
      BY <3>2, <3>6
  <2> QED
    BY <2>2, <2>3
<1>3. events' = events \o <<>> \o <<>>
  BY <1>1, NoneHonest DEF Typed
<1> QED
  BY <1>1, <1>2, <1>3, NoneHonest, ReportsMoved

\* What the adapter does is not calm, and what the front-end does is no step of an
\* exchange.
LEMMA OthersReport ==
  Typed /\ ReportsInv
    /\ (Ask \/ ApplyEvent \/ Unplug \/ RecvError \/ Reopen \/ PollInVain \/ GiveUp \/ UNCHANGED vars)
  => ReportsInv'
<1> SUFFICES ASSUME Typed, ReportsInv,
                    Ask \/ ApplyEvent \/ Unplug \/ RecvError \/ Reopen \/ PollInVain \/ GiveUp
                      \/ UNCHANGED vars
             PROVE  ReportsInv'
  OBVIOUS
<1>1. CASE Ask \/ UNCHANGED vars
  <2>1. UNCHANGED <<link, pending, rsps, reqs, srv, world, unplugs>> /\ events' = events
    <3>1. CASE Ask
      BY <3>1 DEF Ask, session, bus
    <3>2. CASE UNCHANGED vars
      BY <3>2 DEF vars, session, bus, mishaps
    <3> QED
      BY <1>1, <3>1, <3>2
  <2>2. UNCHANGED events \/ (events # <<>> /\ events' = Tail(events))
    BY <2>1
  <2>3. UNCHANGED <<link, pending, rsps, reqs, srv, world, unplugs>>
    BY <2>1
  <2> QED
    BY <2>2, <2>3, ReportsUntouched
<1>2. CASE ApplyEvent
  BY <1>2, ReportsUntouched DEF ApplyEvent, session, bus, mishaps
<1>3. CASE Unplug \/ RecvError
  <2>1. unplugs' = unplugs + 1 /\ unplugs \in Nat
    BY <1>3, CommandsAre DEF Unplug, RecvError, Typed
  <2> QED
    BY <2>1 DEF ReportsInv, Calm
<1>4. CASE Reopen \/ PollInVain \/ GiveUp
  <2>1. link = "down" /\ UNCHANGED <<world, unplugs>>
    BY <1>4 DEF Reopen, PollInVain, GiveUp
  <2> QED
    BY <2>1 DEF ReportsInv, Calm, OneAtATime
<1> QED
  BY <1>1, <1>2, <1>3, <1>4

\* Every step keeps the reports true.
LEMMA NextReports == Typed /\ IndicatorInv /\ ReportsInv /\ [Next]_vars => ReportsInv'
  BY CommandReports, RespondReports, OverhearReports, NodeReports, LoseReports, TickReports,
     OthersReport DEF Next, SessionNext

\* At first nothing is under way nor reported.
LEMMA InitReports == Init => ReportsInv
<1> SUFFICES ASSUME Init PROVE ReportsInv
  OBVIOUS
<1>1. 1..Len(<<>>) = {}
  OBVIOUS
<1>2. \A done : IdleServer(done).ph = "idle"
  BY DEF IdleServer
<1> QED
  BY <1>1, <1>2 DEF Init, ReportsInv, InStep, Rest, Noise, OnlyEnds, SubBlockStalls

\* Where commands do not overlap, answers are in time and the adapter stays, what the
\* session reports as done is done, whatever frames are lost and sends refused: the
\* exchange a transfer is in tells what the node has stored and what is in the buffer.
THEOREM ReportsHold == Spec => [](Calm => ReportsAreTrue)
<1>1. Typed /\ ReportsInv => (Calm => ReportsAreTrue)
  <2> SUFFICES ASSUME Typed, ReportsInv, Calm PROVE ReportsAreTrue
    OBVIOUS
  <2>1. events \in Seq(Events)
    BY DEF Typed
  <2>2. ASSUME NEW e \in Reports PROVE Honest(e, srv[e.node].done)
    <3>1. PICK i \in DOMAIN events : e = events[i]
      BY <2>2 DEF Reports
    <3>2. i \in 1..Len(events)
      BY <2>1, <3>1, LenProperties
    <3> QED
      BY <3>1, <3>2 DEF ReportsInv
  <2> QED
    BY <2>2 DEF ReportsAreTrue, ReadsAreWhole, WritesAreStored, Honest
<1>2. Init => Typed /\ IndicatorInv /\ ReportsInv
  BY InitTyped, InitIndicates, InitReports
<1>3. Typed /\ IndicatorInv /\ ReportsInv /\ [Next]_vars => (Typed /\ IndicatorInv /\ ReportsInv)'
  BY NextTyped, NextIndicates, NextReports
<1>4. Spec => [](Typed /\ IndicatorInv /\ ReportsInv)
  BY <1>2, <1>3, PTL DEF Spec
<1> QED
  BY <1>1, <1>4, PTL
=============================================================================
