----------------------- MODULE FirmwareDownload_proofs -----------------------
(***************************************************************************)
(* The steps that guard a node's flash, for every size of the firmware,    *)
(* number of polls and retries and any number of mishaps.  What a step of  *)
(* the tool goes by may be an old answer: the arguments are about what can *)
(* be in front of what in the two channels.                                *)
(***************************************************************************)
EXTENDS FirmwareDownload, SequenceTheorems, TLAPS

\* Nothing of S is in queue q.
Lacks(q, S) == \A i \in 1..Len(q) : q[i] \notin S

\* Everything of S that is in q is in front of everything of T.
Ahead(q, S, T) == \A i, j \in 1..Len(q) : q[i] \in S /\ q[j] \in T => i < j

\* Queue p is what remains of q when some have been taken from its front.
Rest(p, q) == \E k \in 0..Len(q) : Len(p) = Len(q) - k /\ \A i \in 1..Len(p) : p[i] = q[i + k]

-----------------------------------------------------------------------------
(* Queues                                                                  *)

\* What remains of a queue has the order of the queue.
LEMMA RestKeeps ==
  ASSUME NEW X, NEW p \in Seq(X), NEW q \in Seq(X), Rest(p, q), NEW S, NEW T
  PROVE  /\ Lacks(q, S) => Lacks(p, S)
         /\ Ahead(q, S, T) => Ahead(p, S, T)
<1>1. PICK k \in 0..Len(q) : Len(p) = Len(q) - k /\ \A i \in 1..Len(p) : p[i] = q[i + k]
  BY DEF Rest
<1>2. ASSUME NEW i \in 1..Len(p) PROVE i + k \in 1..Len(q) /\ p[i] = q[i + k]
  BY <1>1, LenProperties
<1>3. Lacks(q, S) => Lacks(p, S)
  BY <1>2 DEF Lacks
<1>4. ASSUME Ahead(q, S, T), NEW i \in 1..Len(p), NEW j \in 1..Len(p), p[i] \in S, p[j] \in T
      PROVE  i < j
  <2>1. i + k < j + k
    BY <1>2, <1>4 DEF Ahead
  <2> QED
    BY <1>1, <2>1, LenProperties
<1> QED
  BY <1>3, <1>4 DEF Ahead

\* Taking from the front.
LEMMA TailRests ==
  ASSUME NEW X, NEW q \in Seq(X)
  PROVE  /\ Rest(q, q) /\ Rest(<<>>, q)
         /\ q # <<>> => Tail(q) \in Seq(X) /\ Head(q) \in X /\ Rest(Tail(q), q)
         /\ \A k \in 0..Len(q) : SubSeq(q, k + 1, Len(q)) \in Seq(X) /\ Rest(SubSeq(q, k + 1, Len(q)), q)
<1>1. Len(q) \in Nat /\ \A i \in 1..Len(q) : q[i] \in X
  BY LenProperties, ElementOfSeq
<1>2. Rest(q, q)
  <2>1. 0 \in 0..Len(q) /\ Len(q) = Len(q) - 0 /\ \A i \in 1..Len(q) : q[i] = q[i + 0]
    BY <1>1
  <2> QED
    BY <2>1 DEF Rest
<1>3. Rest(<<>>, q)
  <2>1. Len(q) \in 0..Len(q) /\ Len(<<>>) = Len(q) - Len(q)
    BY <1>1
  <2> QED
    BY <2>1 DEF Rest
<1>4. ASSUME q # <<>> PROVE Tail(q) \in Seq(X) /\ Head(q) \in X /\ Rest(Tail(q), q)
  <2>1. /\ Tail(q) \in Seq(X) /\ Head(q) \in X /\ Len(Tail(q)) = Len(q) - 1 /\ Len(q) >= 1
        /\ \A i \in 1..Len(Tail(q)) : Tail(q)[i] = q[i + 1]
    BY <1>1, <1>4, HeadTailProperties, EmptySeq
  <2>2. 1 \in 0..Len(q)
    BY <1>1, <2>1
  <2> QED
    BY <2>1, <2>2 DEF Rest
<1>5. ASSUME NEW k \in 0..Len(q)
      PROVE  SubSeq(q, k + 1, Len(q)) \in Seq(X) /\ Rest(SubSeq(q, k + 1, Len(q)), q)
  <2> DEFINE p == SubSeq(q, k + 1, Len(q))
  <2>1. k + 1 \in Int /\ Len(q) \in Int /\ \A i \in (k + 1)..Len(q) : q[i] \in X
    BY <1>1
  <2>2. /\ p \in Seq(X) /\ Len(p) = IF k + 1 <= Len(q) THEN Len(q) - (k + 1) + 1 ELSE 0
        /\ \A i \in 1..(Len(q) - (k + 1) + 1) : p[i] = q[(k + 1) + i - 1]
    BY <2>1, SubSeqProperties
  <2> HIDE DEF p
  <2>3. Len(p) = Len(q) - k
    BY <1>1, <2>2
  <2>4. ASSUME NEW i \in 1..Len(p) PROVE p[i] = q[i + k]
    <3>1. (k + 1) + i - 1 = i + k /\ i \in 1..(Len(q) - (k + 1) + 1)
      BY <1>1, <2>3
    <3> QED
      BY <2>2, <3>1
  <2>5. Rest(p, q)
    BY <2>3, <2>4 DEF Rest
  <2> QED
    BY <2>2, <2>5 DEF p
<1> QED
  BY <1>2, <1>3, <1>4, <1>5

\* Adding at the end.
LEMMA AppendKeeps ==
  ASSUME NEW X, NEW q \in Seq(X), NEW e \in X, NEW S, NEW T
  PROVE  /\ Append(q, e) \in Seq(X)
         /\ Lacks(q, S) /\ e \notin S => Lacks(Append(q, e), S)
         /\ Ahead(q, S, T) /\ e \notin S /\ e \notin T => Ahead(Append(q, e), S, T)
         /\ Ahead(q, S, T) /\ e \notin S => Ahead(Append(q, e), S, T)
         /\ Lacks(q, T) /\ e \notin T => Ahead(Append(q, e), S, T)
<1> DEFINE a == Append(q, e)
<1>1. /\ a \in Seq(X) /\ Len(q) \in Nat /\ Len(a) = Len(q) + 1 /\ a[Len(q) + 1] = e
      /\ \A i \in 1..Len(q) : a[i] = q[i]
  BY AppendProperties, LenProperties
<1> HIDE DEF a
<1>2. \A i \in 1..Len(a) : (i \in 1..Len(q) /\ a[i] = q[i]) \/ (i = Len(q) + 1 /\ a[i] = e)
  BY <1>1
<1>3. Lacks(q, S) /\ e \notin S => Lacks(a, S)
  BY <1>2 DEF Lacks
<1>4. ASSUME Ahead(q, S, T), e \notin S, NEW i \in 1..Len(a), NEW j \in 1..Len(a), a[i] \in S, a[j] \in T
      PROVE  i < j
  <2>1. i \in 1..Len(q) /\ a[i] = q[i]
    BY <1>2, <1>4
  <2>2. CASE j \in 1..Len(q) /\ a[j] = q[j]
    BY <1>4, <2>1, <2>2 DEF Ahead
  <2>3. CASE j = Len(q) + 1
    BY <1>1, <2>1, <2>3
  <2> QED
    BY <1>2, <2>2, <2>3
<1>5. Lacks(q, T) /\ e \notin T => Ahead(a, S, T)
  BY <1>2 DEF Lacks, Ahead
<1> QED
  BY <1>1, <1>3, <1>4, <1>5 DEF a, Ahead

\* The order in a queue that lacks one of the two; what is in front of its head; the
\* empty queue.
LEMMA HeadOf ==
  ASSUME NEW X, NEW q \in Seq(X), NEW S, NEW T
  PROVE  /\ Lacks(q, S) \/ Lacks(q, T) => Ahead(q, S, T)
         /\ q # <<>> /\ Lacks(q, S) => Head(q) \notin S
         /\ q # <<>> /\ Head(q) \in T /\ Ahead(q, S, T) => Lacks(q, S)
         /\ Lacks(<<>>, S) /\ Ahead(<<>>, S, T)
<1>1. Lacks(q, S) \/ Lacks(q, T) => Ahead(q, S, T)
  BY DEF Lacks, Ahead
<1>2. ASSUME q # <<>> PROVE Len(q) \in Nat /\ 1 \in 1..Len(q) /\ Head(q) = q[1]
  BY <1>2, LenProperties, EmptySeq, HeadTailProperties
<1>3. ASSUME q # <<>>, Head(q) \in T, Ahead(q, S, T), NEW i \in 1..Len(q), q[i] \in S PROVE FALSE
  <2>1. i < 1
    BY <1>2, <1>3 DEF Ahead
  <2> QED
    BY <1>2, <1>3, <2>1
<1>4. Lacks(<<>>, S) /\ Ahead(<<>>, S, T)
  BY DEF Lacks, Ahead
<1> QED
  BY <1>1, <1>2, <1>3, <1>4 DEF Lacks


-----------------------------------------------------------------------------
(* Messages and types                                                      *)

\* The steps up to the erase, none of which counts blocks.
BeforeErase ==
  {"checkBoot", "appVersion", "startBoot", "waitBoot", "blVersion", "vendor", "product", "clear",
   "waitClear"}

\* What the types leave open about where the tool stands.
Bounds ==
  /\ pc \in {"download", "data", "waitBlock"} => blk < NumBlocks
  /\ pc \in BeforeErase => blk = 0

Typed == TypeOK /\ Bounds

\* What requests and responses are.
LEMMA Fields ==
  /\ \A m \in Requests :
       /\ m.op \in {"sdoAbort", "read", "control", "initiate", "data"}
       /\ m.op = "read" => m = Read(m.obj) /\ m.obj \in Readable
       /\ m.op = "control" => m = Control(m.code) /\ m.code \in {"enterBoot", "startApp", "clear", "sign"}
       /\ m.op = "data" => m.blk \in 1..NumBlocks
       /\ m.obj \in Objects
  /\ \A m \in Responses :
       /\ m.kind \in {"value", "ack", "abort", "done"}
       /\ m.kind = "value" => m = Value(m.obj, m.val)
       /\ m.obj \in Objects
       /\ m.kind = "abort" => m.cold \in BOOLEAN
  BY DEF Requests, Responses, Objects, Readable, Reset, Read, Control, Initiate, Data, Done, Ack, Abort, Value

\* The messages that are built are of their type.
LEMMA Messages ==
  /\ Reset \in Requests /\ Done \in Responses
  /\ \A o \in Readable : Read(o) \in Requests
  /\ \A o \in Objects : Ack(o) \in Responses
  /\ \A o \in Objects : Abort(o, TRUE) \in Responses /\ Abort(o, FALSE) \in Responses
  /\ \A c \in {"enterBoot", "startApp", "clear", "sign"} : Control(c) \in Requests
  /\ \A b \in 1..NumBlocks : Initiate(b) \in Requests /\ Data(b) \in Requests
  /\ \A o \in Objects, v \in {"boot", "blupdate", "app", "ok", "busy", "error", "match", "other", "none"} :
       Value(o, v) \in Responses
<1>1. Reset \in Requests /\ Done \in Responses
  BY SMT DEF Requests, Responses
<1>2. ASSUME NEW o \in Readable PROVE Read(o) \in Requests
  <2>1. Read(o) \in {Read(x) : x \in Readable}
    BY Zenon
  <2> QED
    BY <2>1, SMT DEF Requests
<1>7. ASSUME NEW o \in Objects PROVE Ack(o) \in Responses
  <2>1. Ack(o) \in {Ack(x) : x \in Objects}
    BY Zenon
  <2> QED
    BY <2>1, SMT DEF Responses
<1>3. ASSUME NEW o \in Objects, NEW c \in BOOLEAN PROVE Abort(o, c) \in Responses
  <2>1. Abort(o, c) \in {Abort(x, y) : x \in Objects, y \in BOOLEAN}
    BY SMT
  <2> QED
    BY <2>1, SMT DEF Responses
<1>4. ASSUME NEW c \in {"enterBoot", "startApp", "clear", "sign"} PROVE Control(c) \in Requests
  <2>1. Control(c) \in {Control(x) : x \in {"enterBoot", "startApp", "clear", "sign"}}
    BY Zenon
  <2> QED
    BY <2>1, SMT DEF Requests
<1>5. ASSUME NEW b \in 1..NumBlocks PROVE Initiate(b) \in Requests /\ Data(b) \in Requests
  <2>1. Initiate(b) \in {Initiate(x) : x \in 1..NumBlocks} /\ Data(b) \in {Data(x) : x \in 1..NumBlocks}
    BY Zenon
  <2> QED
    BY <2>1, SMT DEF Requests
<1>6. ASSUME NEW o \in Objects,
             NEW v \in {"boot", "blupdate", "app", "ok", "busy", "error", "match", "other", "none"}
      PROVE  Value(o, v) \in Responses
  <2>1. Value(o, v) \in {Value(x, y) : x \in Objects,
          y \in {"boot", "blupdate", "app", "ok", "busy", "error", "match", "other", "none"}}
    BY SMT
  <2> QED
    BY <2>1, SMT DEF Responses
<1> QED
  BY <1>1, <1>2, <1>3, <1>4, <1>5, <1>6, <1>7

\* The request of a step.
LEMMA RequestIs ==
  ASSUME Typed, pc \in Active
  PROVE  /\ Request \in Requests
         /\ pc \in Reading => Request = Read(Object(pc))
         /\ pc \in Controls \cup Commands => Request = Control(ControlCode(pc))
         /\ pc = "download" => Request.op = "initiate"
         /\ pc = "data" => Request.op = "data"
<1> USE DEF Active, Reading, Polling, BootWaits, AppWaits, StatusWaits, Infos, Queries, Controls, Commands
<1>1. CASE pc \in Reading
  <2>1. Request = Read(Object(pc)) /\ Object(pc) \in Readable
    BY <1>1 DEF Request, Object, Readable
  <2> QED
    BY <1>1, <2>1, Messages
<1>2. CASE pc \in Controls \cup Commands
  <2>1. Request = Control(ControlCode(pc)) /\ ControlCode(pc) \in {"enterBoot", "startApp", "clear", "sign"}
    BY <1>2 DEF Request, ControlCode
  <2> QED
    BY <1>2, <2>1, Messages
<1>3. CASE pc \in {"download", "data"}
  <2>1. blk + 1 \in 1..NumBlocks
    BY <1>3, ConstantsOK DEF Typed, TypeOK, Bounds
  <2>2. Request = IF pc = "download" THEN Initiate(blk + 1) ELSE Data(blk + 1)
    BY <1>3 DEF Request
  <2> QED
    BY <1>3, <2>1, <2>2, Messages DEF Initiate, Data
<1> QED
  BY <1>1, <1>2, <1>3

\* The next step of each step.
LEMMA NextSteps ==
  /\ pc = "appVersion" => NextStep = "startBoot"
  /\ pc = "startBoot" => NextStep = "waitBoot"
  /\ pc = "waitBoot" => NextStep = "blVersion"
  /\ pc = "blVersion" => NextStep = FirstCheck
  /\ pc = "vendor" => NextStep = IF "product" \in world.checks THEN "product" ELSE "clear"
  /\ pc = "product" => NextStep = "clear"
  /\ pc = "clear" => NextStep = "waitClear"
  /\ pc = "waitClear" => NextStep = "download"
  /\ pc = "download" => NextStep = "data"
  /\ pc = "data" => NextStep = "waitBlock"
  /\ pc = "waitBlock" => NextStep = AfterBlock
  /\ pc = "firstStart" => NextStep = "checkApp"
  /\ pc = "checkApp" => NextStep = "newVersion"
  /\ pc = "newVersion" => NextStep = "restartBoot"
  /\ pc = "restartBoot" => NextStep = "waitReenter"
  /\ pc = "waitReenter" => NextStep = "sign"
  /\ pc = "sign" => NextStep = "waitSign"
  /\ pc = "waitSign" => NextStep = "finalStart"
  /\ pc = "finalStart" => NextStep = "finalCheck"
  /\ pc = "finalCheck" => NextStep = "done"
  BY DEF NextStep, AfterReenter

\* A world's fields.
LEMMA WorldIs ==
  ASSUME TypeOK
  PROVE  /\ world \in World /\ world.polls \in Nat \ {0} /\ world.checks \subseteq {"vendor", "product"}
         /\ world.action \in {"UpdateFirmware", "LoadBlupdateApp", "UpdateBootloader"}
  BY ConstantsOK DEF TypeOK, World

\* What became of a transaction: outcome o, value v.
Passed(o, v) ==
  \/ pc \in Polling /\ o = "ok" /\ Passes(v) /\ pc' = NextStep
  \/ pc = "checkBoot" /\ o = "ok" /\ pc' = IF v \in BootTypes THEN "blVersion" ELSE "appVersion"
  \/ pc \in {"vendor", "product"} /\ o = "ok" /\ v = "match" /\ pc' = NextStep
Concluded(o, v) ==
  \/ Passed(o, v)
  \/ pc \in Infos \cup Controls \cup Commands \cup {"download", "data"} /\ pc' = NextStep
  \/ pc' \in {pc, "failed"}

\* The tool's counters stay in their ranges.
Counters == sends \in 0..MaxSends /\ polls \in 0..world.polls /\ tries \in 0..(MaxTries - 1) /\ blk \in 0..NumBlocks

\* Conclude leaves nothing waiting, and the tool passes on, stays or fails as Concluded says.
LEMMA ConcludeDoes ==
  ASSUME Typed, UNCHANGED given, NEW o, NEW v, Conclude(o, v)
  PROVE  Concluded(o, v) /\ waiting' = FALSE /\ Counters' /\ Bounds' /\ pc' \in Active \cup {"done", "failed"}
<1> USE DEF Active, Reading, Polling, BootWaits, AppWaits, StatusWaits, Infos, Queries, Controls, Commands
<1>1. /\ world' = world /\ world.polls \in Nat /\ NumBlocks \in Nat \ {0} /\ MaxSends \in Nat \ {0}
      /\ MaxTries \in Nat \ {0} /\ Counters
  BY WorldIs, ConstantsOK DEF given, Typed, TypeOK, Counters
<1>2. Goto("failed") => pc' = "failed" /\ waiting' = FALSE /\ Counters' /\ Bounds'
  BY <1>1 DEF Goto, Counters, Bounds, BeforeErase
<1>3. ASSUME Goto(NextStep), pc \in Active, pc # "checkBoot"
      PROVE  pc' = NextStep /\ waiting' = FALSE /\ Counters' /\ Bounds' /\ pc' \in Active \cup {"done"}
  <2>1. pc' = NextStep /\ waiting' = FALSE /\ sends' = 0 /\ polls' = 0 /\ tries' = 0
        /\ blk' = IF pc = "waitBlock" THEN blk + 1 ELSE blk
    <3>1. pc = "waitBlock" => NextStep \in {"download", "firstStart"}
      BY NextSteps DEF AfterBlock
    <3> QED
      BY <1>3, <3>1 DEF Goto
  <2>2. blk' \in 0..NumBlocks
    BY <1>1, <2>1 DEF Typed, Bounds, Counters
  <2>3. Counters'
    BY <1>1, <2>1, <2>2 DEF Counters
  <2>4. Bounds' /\ pc' \in Active \cup {"done"}
    <3>1. pc = "waitBlock" => NextStep = IF blk + 1 = NumBlocks THEN "firstStart" ELSE "download"
      BY NextSteps DEF AfterBlock
    <3>2. FirstCheck \in {"vendor", "product", "clear"}
      BY DEF FirstCheck
    <3>3. CASE pc \in BeforeErase
      <4>1. blk' = 0
        BY <2>1, <3>3 DEF Typed, Bounds, BeforeErase
      <4>2. NextStep \in Active
        BY <1>3, <3>2, <3>3, NextSteps DEF BeforeErase
      <4> QED
        BY <1>1, <2>1, <4>1, <4>2 DEF Bounds
    <3>4. CASE pc \in {"download", "data"}
      BY <1>1, <2>1, <3>4, NextSteps DEF Typed, Bounds, BeforeErase
    <3>5. CASE pc = "waitBlock"
      BY <1>1, <2>1, <3>1, <3>5 DEF Typed, Bounds, BeforeErase, Counters
    <3>6. CASE pc \in Active \ (BeforeErase \cup {"download", "data", "waitBlock"})
      <4>1. NextStep \in (Active \cup {"done"}) \ (BeforeErase \cup {"download", "data", "waitBlock"})
        BY <3>6, NextSteps DEF BeforeErase
      <4> QED
        BY <2>1, <4>1 DEF Bounds
    <3> QED
      BY <1>3, <3>3, <3>4, <3>5, <3>6
  <2> QED
    BY <2>1, <2>3, <2>4
<1>4. ASSUME PollAgain PROVE pc' \in {pc, "failed"} /\ waiting' = FALSE /\ Counters' /\ Bounds'
  <2>1. CASE Goto("failed")
    BY <1>2, <2>1
  <2>2. CASE /\ (polls < world.polls \/ InTime) /\ polls' = IF InTime THEN polls ELSE polls + 1
             /\ waiting' = FALSE /\ sends' = 0 /\ UNCHANGED <<pc, tries, blk>>
    BY <1>1, <2>2 DEF Counters, Typed, Bounds
  <2> QED
    BY <1>4, <2>1, <2>2 DEF PollAgain, Fail
<1>5. ASSUME PollOutcome(o, v) PROVE pc \in Polling /\ ((o = "ok" /\ Passes(v) /\ Goto(NextStep)) \/ PollAgain \/ Goto("failed"))
  BY <1>5 DEF PollOutcome, Advance, Fail
<1>6. ASSUME QueryOutcome(o, v)
      PROVE  /\ pc \in Queries
             /\ \/ Goto("failed")
                \/ pc = "checkBoot" /\ o = "ok" /\ Goto(IF v \in BootTypes THEN "blVersion" ELSE "appVersion")
                \/ pc \in {"vendor", "product"} /\ o = "ok" /\ v = "match" /\ Goto(NextStep)
  BY <1>6 DEF QueryOutcome, Advance, Fail, BootActive
<1>7. ASSUME InfoOutcome \/ ControlOutcome(o) \/ CommandOutcome(o) \/ DownloadOutcome(o)
      PROVE  /\ pc \in Infos \cup Controls \cup Commands \cup {"download", "data"}
             /\ \/ Goto(NextStep) \/ Goto("failed")
                \/ tries + 1 < MaxTries /\ tries' = tries + 1 /\ waiting' = FALSE /\ sends' = 0
                   /\ UNCHANGED <<pc, polls, blk>>
  BY <1>7 DEF InfoOutcome, ControlOutcome, CommandOutcome, DownloadOutcome, Advance, Fail
<1>8. CASE Goto("failed")
  BY <1>2, <1>8 DEF Concluded
<1>9. CASE pc \in Polling /\ o = "ok" /\ Passes(v) /\ Goto(NextStep)
  BY <1>3, <1>9 DEF Concluded, Passed
<1>10. CASE pc \in Polling /\ PollAgain
  BY <1>4, <1>10 DEF Concluded
<1>11. CASE pc = "checkBoot" /\ o = "ok" /\ Goto(IF v \in BootTypes THEN "blVersion" ELSE "appVersion")
  <2>1. /\ pc' = (IF v \in BootTypes THEN "blVersion" ELSE "appVersion") /\ waiting' = FALSE
        /\ sends' = 0 /\ polls' = 0 /\ tries' = 0 /\ blk' = blk /\ blk = 0
    BY <1>11 DEF Goto, Typed, Bounds, BeforeErase
  <2>2. Counters' /\ Bounds'
    BY <1>1, <2>1 DEF Counters, Bounds
  <2> QED
    BY <1>11, <2>1, <2>2 DEF Concluded, Passed
<1>12. CASE pc \in {"vendor", "product"} /\ o = "ok" /\ v = "match" /\ Goto(NextStep)
  BY <1>3, <1>12 DEF Concluded, Passed
<1>13. CASE pc \in Infos \cup Controls \cup Commands \cup {"download", "data"} /\ Goto(NextStep)
  BY <1>3, <1>13 DEF Concluded
<1>14. CASE /\ pc \in Infos \cup Controls \cup Commands \cup {"download", "data"}
            /\ tries + 1 < MaxTries /\ tries' = tries + 1 /\ waiting' = FALSE /\ sends' = 0
            /\ UNCHANGED <<pc, polls, blk>>
  BY <1>1, <1>14 DEF Counters, Typed, Bounds, Concluded
<1> QED
  BY <1>5, <1>6, <1>7, <1>8, <1>9, <1>10, <1>11, <1>12, <1>13, <1>14 DEF Conclude


-----------------------------------------------------------------------------
(* Steps of the tool                                                       *)

\* A request is sent, the first one of its step or a repeated one.
Sends ==
  /\ pc \in Active /\ pc' = pc
  /\ c2s' = Append(c2s, Request) /\ Rest(s2c', s2c) /\ s2c' \in Seq(Responses)

\* The tool goes on or stays, or gives up.  Past a poll or a query only an answer of
\* the object it asked for lets it.
Moves ==
  /\ c2s' = c2s /\ Rest(s2c', s2c) /\ s2c' \in Seq(Responses)
  /\ \/ pc' \in {pc, "failed"}
     \/ pc \in Infos \cup Controls \cup Commands \cup {"download", "data"} /\ pc' = NextStep
     \/ /\ s2c # <<>> /\ s2c' = Tail(s2c)
        /\ Head(s2c).kind = "value" /\ Head(s2c).obj = Object(pc)
        /\ Passed("ok", Head(s2c).val)

\* It is run again.
Reruns == "kill" \in world.mishaps /\ pc' = "checkBoot" /\ c2s' = Append(c2s, Reset) /\ s2c' = s2c

ClientTyped == pc \in Active \cup {"done", "failed"} /\ waiting \in BOOLEAN /\ Counters /\ Bounds

\* Every step of the tool is one of the three and keeps its own types.
LEMMA ToolSteps ==
  ASSUME Typed, ToolNext \/ Disconnect \/ FileError \/ Rerun
  PROVE  /\ Sends \/ Moves \/ Reruns
         /\ ClientTyped' /\ UNCHANGED <<node, given>> /\ mishaps' \in 0..MaxMishaps
<1> USE DEF Active, Reading, Polling, BootWaits, AppWaits, StatusWaits, Infos, Queries, Controls, Commands
<1>1. /\ NumBlocks \in Nat \ {0} /\ MaxSends \in Nat \ {0} /\ MaxTries \in Nat \ {0} /\ MaxMishaps \in Nat
      /\ world.polls \in Nat /\ ClientTyped /\ mishaps \in 0..MaxMishaps /\ s2c \in Seq(Responses)
      /\ c2s \in Seq(Requests)
  BY WorldIs, ConstantsOK DEF Typed, TypeOK, Counters, ClientTyped
<1>2. /\ Rest(s2c, s2c)
      /\ s2c # <<>> => Rest(Tail(s2c), s2c) /\ Tail(s2c) \in Seq(Responses) /\ Head(s2c) \in Responses
      /\ \A k \in 0..Len(s2c) :
           Rest(SubSeq(s2c, k + 1, Len(s2c)), s2c) /\ SubSeq(s2c, k + 1, Len(s2c)) \in Seq(Responses)
  BY <1>1, TailRests
<1>3. ASSUME NEW o, NEW v, Conclude(o, v), UNCHANGED given
      PROVE  Concluded(o, v) /\ ClientTyped'
  BY <1>3, ConcludeDoes DEF ClientTyped
<1>4. ASSUME NEW o, NEW v, o # "ok", Concluded(o, v)
      PROVE  \/ pc' \in {pc, "failed"}
             \/ pc \in Infos \cup Controls \cup Commands \cup {"download", "data"} /\ pc' = NextStep
  BY <1>4 DEF Concluded, Passed
<1>5. CASE Issue
  <2>1. Sends
    <3>1. 0 \in 0..Len(s2c)
      BY <1>1, LenProperties
    <3> QED
      BY <1>2, <1>5, <3>1 DEF Issue, Sends
  <2>2. ClientTyped'
    BY <1>1, <1>5 DEF Issue, ClientTyped, Counters, Bounds, given
  <2> QED
    BY <1>1, <1>5, <2>1, <2>2 DEF Issue
<1>6. CASE Resend
  <2>1. Sends
    BY <1>1, <1>2, <1>6 DEF Resend, Repeatable, Sends
  <2>2. ClientTyped'
    BY <1>1, <1>6 DEF Resend, ClientTyped, Counters, Bounds, given
  <2> QED
    BY <1>1, <1>6, <2>1, <2>2 DEF Resend
<1>7. CASE Receive
  <2> DEFINE m == Head(s2c)
  <2>1. s2c # <<>> /\ Accepts(m) /\ s2c' = Tail(s2c) /\ c2s' = c2s /\ UNCHANGED <<node, given, mishaps>>
    BY <1>7 DEF Receive
  <2>2. \/ m.kind = "value" /\ Conclude("ok", m.val)
        \/ m.kind = "abort" /\ \E o \in {"coldAbort", "abort"} : Conclude(o, "none")
        \/ m.kind \notin {"value", "abort"} /\ Conclude("ok", "none")
    BY <1>7 DEF Receive
  <2>3. Rest(s2c', s2c) /\ s2c' \in Seq(Responses)
    BY <1>2, <2>1
  <2>4. pc \in Reading => m.obj = Object(pc) /\ m.kind \in {"value", "abort"}
    BY <2>1 DEF Accepts
  <2>5. CASE m.kind = "value" /\ Conclude("ok", m.val)
    <3>1. Concluded("ok", m.val) /\ ClientTyped'
      BY <1>3, <2>1, <2>5
    <3>2. pc \in Reading \/ ~Passed("ok", m.val)
      BY DEF Passed
    <3>3. Moves
      BY <2>1, <2>3, <2>4, <2>5, <3>1, <3>2 DEF Moves, Concluded
    <3> QED
      BY <1>1, <2>1, <3>1, <3>3
  <2>6. CASE \E o \in {"coldAbort", "abort"} : Conclude(o, "none")
    <3>1. PICK o \in {"coldAbort", "abort"} : Conclude(o, "none")
      BY <2>6
    <3>2. Concluded(o, "none") /\ ClientTyped' /\ o # "ok"
      BY <1>3, <2>1, <3>1
    <3>3. Moves
      BY <1>4, <2>1, <2>3, <3>2 DEF Moves
    <3> QED
      BY <1>1, <2>1, <3>2, <3>3
  <2>7. CASE m.kind \notin {"value", "abort"} /\ Conclude("ok", "none")
    <3>1. Concluded("ok", "none") /\ ClientTyped'
      BY <1>3, <2>1, <2>7
    <3>2. ~Passed("ok", "none")
      BY <2>4, <2>7 DEF Passed
    <3>3. Moves
      BY <2>1, <2>3, <3>1, <3>2 DEF Moves, Concluded
    <3> QED
      BY <1>1, <2>1, <3>1, <3>3
  <2> QED
    BY <2>2, <2>5, <2>6, <2>7
<1>8. CASE SkipFrame
  <2>1. Moves
    BY <1>1, <1>2, <1>8 DEF SkipFrame, Moves, client
  <2>2. ClientTyped'
    BY <1>1, <1>8 DEF SkipFrame, ClientTyped, Counters, Bounds, given, client
  <2> QED
    BY <1>1, <1>8, <2>1, <2>2 DEF SkipFrame
<1>9. CASE Timeout \/ Disconnect
  <2>1. /\ \E o \in {"timeout", "disconnected"} : Conclude(o, "none")
        /\ s2c' = s2c /\ c2s' = c2s /\ UNCHANGED <<node, given>>
    BY <1>9 DEF Timeout, Disconnect
  <2>2. PICK o \in {"timeout", "disconnected"} : Conclude(o, "none")
    BY <2>1
  <2>3. Concluded(o, "none") /\ ClientTyped' /\ o # "ok"
    BY <1>3, <2>1, <2>2
  <2>4. Moves
    BY <1>1, <1>2, <1>4, <2>1, <2>3 DEF Moves
  <2>5. mishaps' \in 0..MaxMishaps
    BY <1>1, <1>9 DEF Timeout, Disconnect, Mishap
  <2> QED
    BY <2>1, <2>3, <2>4, <2>5
<1>10. CASE FileError
  <2>1. Moves
    BY <1>1, <1>2, <1>10 DEF FileError, Moves, Fail, Goto
  <2>2. ClientTyped'
    <3>1. pc' = "failed" /\ waiting' = FALSE /\ sends' = 0 /\ polls' = 0 /\ tries' = 0 /\ blk' = blk /\ world' = world
      BY <1>10 DEF FileError, Fail, Goto, given
    <3>2. Counters' /\ Bounds'
      BY <1>1, <3>1 DEF ClientTyped, Counters, Bounds, BeforeErase
    <3> QED
      BY <3>1, <3>2 DEF ClientTyped
  <2> QED
    BY <1>1, <1>10, <2>1, <2>2 DEF FileError, Mishap
<1>11. CASE Rerun
  <2>1. c2s \o <<Reset>> = Append(c2s, Reset)
    BY <1>1, Messages, AppendIsConcat
  <2>2. Reruns
    BY <1>11, <2>1 DEF Rerun, Reruns, FirstFrame, Mishap
  <2>3. ClientTyped'
    <3>1. /\ pc' = "checkBoot" /\ waiting' = FALSE /\ sends' = 0 /\ polls' = 0 /\ tries' = 0 /\ blk' = 0
          /\ world' = world
      BY <1>11 DEF Rerun, given
    <3>2. Counters' /\ Bounds'
      BY <1>1, <3>1 DEF ClientTyped, Counters, Bounds, BeforeErase
    <3> QED
      BY <3>1, <3>2 DEF ClientTyped
  <2> QED
    BY <1>1, <1>11, <2>2, <2>3 DEF Rerun, Mishap
<1> QED
  BY <1>5, <1>6, <1>7, <1>8, <1>9, <1>10, <1>11 DEF ToolNext


-----------------------------------------------------------------------------
(* Steps of the node                                                       *)

NodeTyped ==
  /\ mode \in {"boot", "app"} /\ sdo \in {"idle", "download"}
  /\ work \in {"none", "erase", "program", "sign"} /\ target \in 1..NumBlocks
  /\ status \in {"ok", "error"}
  /\ flash \in {"old", "dirty", "erased"} /\ written \subseteq 1..NumBlocks
  /\ signed \in BOOLEAN /\ ran \in BOOLEAN

\* An object is read: its value goes into the channel.
Answers ==
  /\ c2s # <<>> /\ Head(c2s).op = "read" /\ UNCHANGED node
  /\ \E o \in Readable, v \in {"boot", "blupdate", "app", "ok", "busy", "error", "match", "other", "none"} :
       /\ Head(c2s) = Read(o) /\ s2c' = Append(s2c, Value(o, v))
       /\ o = "devType" => v = DevType
       /\ o \in {"vendor", "product"} => v = ident[o]

\* No value goes into it.
Plain == Rest(s2c', s2c) \/ \E r \in Responses : r.kind # "value" /\ s2c' = Append(s2c, r)

\* What a step does to the node: nothing of importance; it changes its mode, begins to
\* erase or to sign, ends what it was doing, or starts anew.
Idles == UNCHANGED <<mode, flash, signed, ran>> /\ work' \in {work, "none", "program"}
Switches ==
  /\ c2s # <<>> /\ mode' # mode /\ UNCHANGED <<flash, signed, work>>
  /\ \/ Head(c2s) = Control("enterBoot") /\ mode' = "boot" /\ ran' = ran
     \/ Head(c2s) = Control("startApp") /\ mode' = "app" /\ ran' = (IF flash # "old" THEN TRUE ELSE ran)
Erases ==
  /\ c2s # <<>> /\ Head(c2s) = Control("clear") /\ mode = "boot" /\ mode' = mode
  /\ work' = "erase" /\ flash' = "dirty" /\ signed' = FALSE /\ ran' = FALSE
Signs ==
  /\ c2s # <<>> /\ Head(c2s) = Control("sign") /\ UNCHANGED <<mode, flash, signed, ran>> /\ work' = "sign"
Ends ==
  /\ UNCHANGED <<mode, ran>> /\ work' = "none"
  /\ \/ work = "erase" /\ flash' = "erased" /\ signed' = signed
     \/ work = "sign" /\ flash' = flash
Restarts ==
  /\ "powerCycle" \in world.mishaps
  /\ mode' = (IF signed THEN "app" ELSE "boot") /\ UNCHANGED <<flash, signed, ran>> /\ work' = "none"

NodeDoes == Idles \/ Switches \/ Erases \/ Signs \/ Ends \/ Restarts

\* Every step of the node and of its surroundings is one of those, only takes requests
\* from the channel, and keeps the types.
LEMMA NodeSteps ==
  ASSUME Typed, NodeNext \/ NodeCold \/ FlashFault \/ PowerCycle \/ LoseRequest \/ LoseResponse \/ LoseSegments
  PROVE  /\ Answers \/ Plain
         /\ Answers \/ NodeDoes
         /\ Rest(c2s', c2s) /\ UNCHANGED <<client, given>>
         /\ NodeTyped' /\ mishaps' \in 0..MaxMishaps
         /\ c2s' \in Seq(Requests) /\ s2c' \in Seq(Responses)
<1>1. /\ NumBlocks \in Nat \ {0} /\ MaxMishaps \in Nat /\ NodeTyped /\ mishaps \in 0..MaxMishaps
      /\ s2c \in Seq(Responses) /\ c2s \in Seq(Requests)
      /\ ident \in [{"vendor", "product"} -> {"match", "other"}]
  BY ConstantsOK DEF Typed, TypeOK, NodeTyped
<1>2. /\ Rest(c2s, c2s) /\ Rest(<<>>, c2s) /\ <<>> \in Seq(Requests)
      /\ c2s # <<>> => Tail(c2s) \in Seq(Requests) /\ Head(c2s) \in Requests /\ Rest(Tail(c2s), c2s)
      /\ Rest(s2c, s2c)
      /\ s2c # <<>> => Tail(s2c) \in Seq(Responses) /\ Rest(Tail(s2c), s2c)
  BY <1>1, TailRests
<1>3. ASSUME NEW r \in Responses, Reply(r)
      PROVE  s2c' \in Seq(Responses) /\ s2c' = Append(s2c, r) /\ (r.kind # "value" => Plain)
  BY <1>1, <1>3, AppendKeeps DEF Reply, Plain
<1>4. ASSUME Silent PROVE s2c' \in Seq(Responses) /\ Plain
  BY <1>1, <1>2, <1>4 DEF Silent, Plain
<1>5. ASSUME NEW o \in Objects, Reply(Ack(o)) \/ Reply(Abort(o, FALSE)) \/ Reply(Abort(o, TRUE)) \/ Reply(Done)
      PROVE  s2c' \in Seq(Responses) /\ Plain
  <2>1. /\ Ack(o) \in Responses /\ Abort(o, FALSE) \in Responses /\ Abort(o, TRUE) \in Responses /\ Done \in Responses
        /\ Ack(o).kind # "value" /\ Abort(o, FALSE).kind # "value" /\ Abort(o, TRUE).kind # "value"
        /\ Done.kind # "value"
    BY Messages DEF Ack, Abort, Done
  <2> QED
    BY <1>3, <1>5, <2>1
<1>6. "control" \in Objects /\ "program" \in Objects /\ \A m \in Requests : m.obj \in Objects
  BY Fields DEF Objects
<1>7. \A m \in Requests : m.op = "control" => m = Control(m.code)
  BY Fields
<1>8. \A m \in Requests : m.op = "read" => m = Read(m.obj) /\ m.obj \in Readable
  BY Fields
<1>9. CASE NodeReset
  <2>1. Next1 /\ Silent /\ sdo' = "idle" /\ UNCHANGED <<client, mode, work, target, status, area, given, mishaps>>
    BY <1>9 DEF NodeReset
  <2>2. NodeTyped' /\ Idles
    BY <1>1, <2>1 DEF NodeTyped, Idles, area
  <2> QED
    BY <1>1, <1>2, <1>4, <2>1, <2>2 DEF Next1, NodeDoes
<1>10. CASE NodeOutOfPlace
  <2>1. /\ Next1 /\ Reply(Abort(Head(c2s).obj, FALSE)) /\ sdo' = "idle"
        /\ UNCHANGED <<client, mode, work, target, status, area, given, mishaps>>
    BY <1>10 DEF NodeOutOfPlace
  <2>2. NodeTyped' /\ Idles
    BY <1>1, <2>1 DEF NodeTyped, Idles, area
  <2>3. s2c' \in Seq(Responses) /\ Plain
    BY <1>2, <1>5, <1>6, <2>1 DEF Next1
  <2> QED
    BY <1>1, <1>2, <2>1, <2>2, <2>3 DEF Next1, NodeDoes
<1>11. CASE NodeRead
  <2> DEFINE o == Head(c2s).obj
  <2>1. /\ Next1 /\ Head(c2s).op = "read" /\ UNCHANGED <<client, node, given, mishaps>>
        /\ o \in Readable /\ Head(c2s) = Read(o)
    BY <1>2, <1>6, <1>8, <1>11 DEF NodeRead, Next1
  <2>2. NodeTyped' /\ Idles
    BY <1>1, <2>1 DEF NodeTyped, Idles, node, area
  <2>3. DevType \in {"boot", "blupdate", "app"}
    BY DEF DevType
  <2>4. ASSUME NEW v \in {"boot", "blupdate", "app", "ok", "busy", "error", "match", "other", "none"},
               s2c' = Append(s2c, Value(o, v)), o = "devType" => v = DevType, o \in {"vendor", "product"} => v = ident[o]
        PROVE  s2c' \in Seq(Responses) /\ Answers
    <3>1. o \in Objects /\ Value(o, v) \in Responses
      BY <1>2, <1>6, <2>1, Messages DEF Next1
    <3>2. s2c' \in Seq(Responses) /\ s2c' = Append(s2c, Value(o, v))
      BY <1>1, <2>4, <3>1, AppendKeeps
    <3> QED
      BY <2>1, <2>4, <3>1, <3>2 DEF Answers, Next1
  <2>5. s2c' \in Seq(Responses) /\ (Plain \/ Answers)
    <3>1. \/ Reply(Abort(o, FALSE)) \/ Silent
          \/ o = "devType" /\ Reply(Value(o, DevType))
          \/ o = "status" /\ Reply(Value(o, IF work # "none" THEN "busy" ELSE status))
          \/ o \in {"vendor", "product"} /\ Reply(Value(o, ident[o]))
          \/ o = "version" /\ Reply(Value(o, "none"))
      BY <1>11, <2>1 DEF NodeRead, Readable
    <3>2. CASE Reply(Abort(o, FALSE)) \/ Silent
      <4>1. o \in Objects
        BY <2>1 DEF Objects
      <4> QED
        BY <1>4, <1>5, <3>2, <4>1
    <3>3. CASE o = "devType" /\ Reply(Value(o, DevType))
      BY <2>3, <2>4, <3>3 DEF Reply
    <3>4. CASE o = "status" /\ Reply(Value(o, IF work # "none" THEN "busy" ELSE status))
      BY <1>1, <2>4, <3>4 DEF NodeTyped, Reply
    <3>5. CASE o \in {"vendor", "product"} /\ Reply(Value(o, ident[o]))
      BY <1>1, <2>4, <3>5 DEF Reply
    <3>6. CASE o = "version" /\ Reply(Value(o, "none"))
      BY <2>4, <3>6 DEF Reply
    <3> QED
      BY <3>1, <3>2, <3>3, <3>4, <3>5, <3>6
  <2> QED
    BY <1>1, <1>2, <2>1, <2>2, <2>5 DEF Next1, NodeDoes
<1>12. CASE NodeSwitch
  <2>1. PICK m \in {"boot", "app"} :
          /\ Head(c2s).op = "control" /\ mode # m /\ SwitchTo(m)
          /\ Head(c2s).code = (IF m = "boot" THEN "enterBoot" ELSE "startApp")
          /\ UNCHANGED <<client, given, mishaps>>
    BY <1>12 DEF NodeSwitch
  <2>2. /\ mode' = m /\ c2s # <<>> /\ c2s' \in {Tail(c2s), <<>>}
        /\ Reply(Ack("control")) \/ Silent
        /\ ran' = IF m = "app" /\ flash # "old" THEN TRUE ELSE ran
        /\ UNCHANGED <<sdo, work, target, status, flash, written, signed>>
    BY <2>1 DEF SwitchTo
  <2>3. Head(c2s) = Control(Head(c2s).code)
    BY <1>2, <1>7, <2>1, <2>2
  <2>4. Switches
    BY <2>1, <2>2, <2>3 DEF Switches
  <2>5. NodeTyped'
    <3>1. mode' \in {"boot", "app"} /\ ran' \in BOOLEAN
      BY <1>1, <2>2 DEF NodeTyped
    <3> QED
      BY <1>1, <2>2, <3>1 DEF NodeTyped
  <2>6. s2c' \in Seq(Responses) /\ Plain
    BY <1>4, <1>5, <1>6, <2>2
  <2> QED
    BY <1>1, <1>2, <2>1, <2>2, <2>4, <2>5, <2>6 DEF NodeDoes
<1>13. CASE NodeStay
  <2>1. Next1 /\ Reply(Ack("control")) /\ UNCHANGED <<client, node, given, mishaps>>
    BY <1>13 DEF NodeStay
  <2>2. NodeTyped' /\ Idles
    BY <1>1, <2>1 DEF NodeTyped, Idles, node, area
  <2> QED
    BY <1>1, <1>2, <1>5, <1>6, <2>1, <2>2 DEF Next1, NodeDoes
<1>14. CASE NodeClear
  <2>1. /\ Next1 /\ Head(c2s).op = "control" /\ Head(c2s).code = "clear" /\ mode = "boot"
        /\ work' = "erase" /\ flash' = "dirty" /\ written' = {} /\ signed' = FALSE /\ ran' = FALSE
        /\ Reply(Ack("control")) /\ UNCHANGED <<client, mode, sdo, target, status, given, mishaps>>
    BY <1>14 DEF NodeClear
  <2>2. NodeTyped'
    BY <1>1, <2>1 DEF NodeTyped
  <2>3. Erases
    BY <1>2, <1>7, <2>1 DEF Erases, Next1
  <2> QED
    BY <1>1, <1>2, <1>5, <1>6, <2>1, <2>2, <2>3 DEF Next1, NodeDoes
<1>15. CASE NodeSign
  <2>1. /\ Next1 /\ Head(c2s).op = "control" /\ Head(c2s).code = "sign" /\ work' = "sign"
        /\ Reply(Ack("control"))
        /\ UNCHANGED <<client, mode, sdo, target, status, area, given, mishaps>>
    BY <1>15 DEF NodeSign
  <2>2. NodeTyped'
    BY <1>1, <2>1 DEF NodeTyped, area
  <2>3. Signs
    BY <1>2, <1>7, <2>1 DEF Signs, Next1, area
  <2> QED
    BY <1>1, <1>2, <1>5, <1>6, <2>1, <2>2, <2>3 DEF Next1, NodeDoes
<1>16. CASE NodeInitiate
  <2>1. /\ Next1 /\ sdo' = "download" /\ Reply(Ack("program"))
        /\ UNCHANGED <<client, mode, work, target, status, area, given, mishaps>>
    BY <1>16 DEF NodeInitiate
  <2>2. NodeTyped' /\ Idles
    BY <1>1, <2>1 DEF NodeTyped, Idles, area
  <2> QED
    BY <1>1, <1>2, <1>5, <1>6, <2>1, <2>2 DEF Next1, NodeDoes
<1>17. CASE NodeData
  <2>1. /\ Next1 /\ sdo' = "idle" /\ work' = "program" /\ target' = Head(c2s).blk /\ Reply(Done)
        /\ Head(c2s).op = "data"
        /\ UNCHANGED <<client, mode, status, area, given, mishaps>>
    BY <1>17 DEF NodeData
  <2>2. target' \in 1..NumBlocks
    BY <1>2, <2>1, Fields DEF Next1
  <2>3. NodeTyped' /\ Idles
    BY <1>1, <2>1, <2>2 DEF NodeTyped, Idles, area
  <2> QED
    BY <1>1, <1>2, <1>5, <1>6, <2>1, <2>3 DEF Next1, NodeDoes
<1>18. CASE NodeIgnore
  <2>1. Next1 /\ Silent /\ UNCHANGED <<client, node, given, mishaps>>
    BY <1>18 DEF NodeIgnore
  <2>2. NodeTyped' /\ Idles
    BY <1>1, <2>1 DEF NodeTyped, Idles, node, area
  <2> QED
    BY <1>1, <1>2, <1>4, <2>1, <2>2 DEF Next1, NodeDoes
<1>19. CASE NodeRefuse
  <2>1. Next1 /\ Reply(Abort(Head(c2s).obj, FALSE)) /\ UNCHANGED <<client, node, given, mishaps>>
    BY <1>19 DEF NodeRefuse
  <2>2. NodeTyped' /\ Idles
    BY <1>1, <2>1 DEF NodeTyped, Idles, node, area
  <2>3. s2c' \in Seq(Responses) /\ Plain
    BY <1>2, <1>5, <1>6, <2>1 DEF Next1
  <2> QED
    BY <1>1, <1>2, <2>1, <2>2, <2>3 DEF Next1, NodeDoes
<1>20. CASE FinishWork
  <2>1. /\ work # "none" /\ work' = "none"
        /\ UNCHANGED <<client, c2s, s2c, mode, sdo, target, ran, given, mishaps>>
        /\ \/ work = "erase" /\ flash' = "erased" /\ status' = "ok" /\ UNCHANGED <<written, signed>>
           \/ /\ work = "sign" /\ signed' = (signed \/ Complete) /\ UNCHANGED <<flash, written>>
              /\ status' = IF Complete THEN "ok" ELSE "error"
           \/ /\ work = "program" /\ UNCHANGED <<flash, signed>>
              /\ \/ written' = written \cup {target} /\ status' = "ok"
                 \/ status' = "error" /\ UNCHANGED written
    BY <1>1, <1>20 DEF FinishWork, NodeTyped
  <2>2. signed' \in BOOLEAN
    BY <1>1, <2>1, Zenon DEF NodeTyped
  <2>3. /\ flash' \in {"old", "dirty", "erased"} /\ written' \subseteq 1..NumBlocks
        /\ status' \in {"ok", "error"} /\ ran' \in BOOLEAN
    BY <1>1, <2>1 DEF NodeTyped
  <2>4. NodeTyped'
    BY <1>1, <2>1, <2>2, <2>3 DEF NodeTyped
  <2>5. NodeDoes
    BY <2>1 DEF NodeDoes, Idles, Ends
  <2> QED
    BY <1>1, <1>2, <2>1, <2>4, <2>5 DEF Plain
<1>21. CASE NodeCold
  <2>1. Next1 /\ Reply(Abort("control", TRUE)) /\ UNCHANGED <<client, node, given>> /\ Mishap("coldAbort")
    BY <1>21, Zenon DEF NodeCold
  <2>3. mishaps' \in 0..MaxMishaps
    BY <1>1, <2>1 DEF Mishap
  <2>2. NodeTyped' /\ Idles
    BY <1>1, <2>1 DEF NodeTyped, Idles, node, area
  <2> QED
    BY <1>1, <1>2, <1>5, <1>6, <2>1, <2>2, <2>3 DEF Next1, NodeDoes
<1>22. CASE FlashFault
  <2>1. /\ work' = "none" /\ status' = "error" /\ mishaps' \in 0..MaxMishaps
        /\ UNCHANGED <<client, c2s, s2c, mode, sdo, target, area, given>>
    BY <1>1, <1>22 DEF FlashFault, Mishap
  <2>2. NodeTyped' /\ Idles
    BY <1>1, <2>1 DEF NodeTyped, Idles, area
  <2> QED
    BY <1>1, <1>2, <2>1, <2>2 DEF Plain, NodeDoes
<1>23. CASE PowerCycle
  <2>1. /\ "powerCycle" \in world.mishaps /\ mishaps' \in 0..MaxMishaps
        /\ mode' = (IF signed THEN "app" ELSE "boot")
        /\ sdo' = "idle" /\ work' = "none" /\ status' = "ok" /\ c2s' = <<>>
        /\ UNCHANGED <<client, s2c, target, area, given>>
    BY <1>1, <1>23 DEF PowerCycle, Mishap
  <2>2. mode' \in {"boot", "app"}
    BY <2>1
  <2>3. NodeTyped' /\ Restarts
    BY <1>1, <2>1, <2>2 DEF NodeTyped, Restarts, area
  <2> QED
    BY <1>1, <1>2, <2>1, <2>3 DEF Plain, NodeDoes
<1>24. CASE LoseRequest
  <2>1. c2s # <<>> /\ c2s' = Tail(c2s) /\ UNCHANGED <<client, s2c, node, given>> /\ mishaps' \in 0..MaxMishaps
    BY <1>1, <1>24 DEF LoseRequest, Mishap
  <2>2. NodeTyped' /\ Idles
    BY <1>1, <2>1 DEF NodeTyped, Idles, node, area
  <2> QED
    BY <1>1, <1>2, <2>1, <2>2 DEF Plain, NodeDoes
<1>25. CASE LoseResponse
  <2>1. s2c # <<>> /\ s2c' = Tail(s2c) /\ UNCHANGED <<client, c2s, node, given>> /\ mishaps' \in 0..MaxMishaps
    BY <1>1, <1>25 DEF LoseResponse, Mishap
  <2>2. NodeTyped' /\ Idles
    BY <1>1, <2>1 DEF NodeTyped, Idles, node, area
  <2> QED
    BY <1>1, <1>2, <2>1, <2>2 DEF Plain, NodeDoes
<1>26. CASE LoseSegments
  <2>1. /\ c2s # <<>> /\ c2s' = Tail(c2s) /\ sdo' = "idle" /\ Reply(Abort("program", FALSE))
        /\ UNCHANGED <<client, mode, work, target, status, area, given>> /\ Mishap("loseSegments")
    BY <1>26, Zenon DEF LoseSegments
  <2>3. mishaps' \in 0..MaxMishaps
    BY <1>1, <2>1 DEF Mishap
  <2>2. NodeTyped' /\ Idles
    BY <1>1, <2>1 DEF NodeTyped, Idles, area
  <2> QED
    BY <1>1, <1>2, <1>5, <1>6, <2>1, <2>2, <2>3 DEF NodeDoes
<1> QED
  BY <1>9, <1>10, <1>11, <1>12, <1>13, <1>14, <1>15, <1>16, <1>17, <1>18, <1>19, <1>20, <1>21, <1>22,
     <1>23, <1>24, <1>25, <1>26 DEF NodeNext

-----------------------------------------------------------------------------
(* Type correctness                                                        *)

\* What the three parts and the rest of TypeOK add up to.
RestTyped ==
  /\ c2s \in Seq(Requests) /\ s2c \in Seq(Responses)
  /\ ident \in [{"vendor", "product"} -> {"match", "other"}] /\ healthy \in BOOLEAN
  /\ mishaps \in 0..MaxMishaps /\ world \in Worlds

\* The parts together are the type invariant, in a state and in the next one.
LEMMA TypedParts ==
  /\ Typed <=> ClientTyped /\ NodeTyped /\ RestTyped
  /\ Typed' <=> ClientTyped' /\ NodeTyped' /\ RestTyped'
  BY DEF Typed, TypeOK, ClientTyped, Counters, NodeTyped, RestTyped

\* A node begins in one of its modes, with the old image, and a run with an SDO abort.
LEMMA InitTyped == Init => Typed
<1> SUFFICES ASSUME Init PROVE Typed
  OBVIOUS
<1>1. /\ NumBlocks \in Nat \ {0} /\ MaxSends \in Nat \ {0} /\ MaxTries \in Nat \ {0} /\ MaxMishaps \in Nat
      /\ world \in World
  BY ConstantsOK DEF Init
<1>2. Counters /\ Bounds
  BY <1>1 DEF Init, Counters, Bounds, BeforeErase, World
<1>3. ClientTyped
  BY <1>2 DEF Init, ClientTyped, Active, Reading, Queries
<1>4. NodeTyped
  <2>1. signed = TRUE /\ ran = FALSE /\ written = {} /\ target = 1 /\ 1 \in 1..NumBlocks
    BY <1>1 DEF Init
  <2>2. /\ mode \in {"boot", "app"} /\ sdo = "idle" /\ work = "none" /\ status = "ok" /\ flash = "old"
    BY DEF Init
  <2> QED
    BY <2>1, <2>2 DEF NodeTyped
<1>5. c2s \in Seq(Requests) /\ s2c \in Seq(Responses)
  <2>1. <<Reset>> \in Seq(Requests) /\ <<>> \in Seq(Responses)
    <3>1. <<>> \in Seq(Requests) /\ <<>> \in Seq(Responses) /\ Append(<<>>, Reset) = <<Reset>>
      OBVIOUS
    <3>2. Append(<<>>, Reset) \in Seq(Requests)
      BY <3>1, Messages, AppendKeeps
    <3> QED
      BY <3>1, <3>2
  <2> QED
    BY <2>1 DEF Init
<1> QED
  BY <1>1, <1>3, <1>4, <1>5, TypedParts DEF Init, RestTyped

\* Every step keeps the types.
LEMMA StepTyped ==
  ASSUME Typed, [Next]_vars
  PROVE  Typed'
<1>4. UNCHANGED node => NodeTyped'
  BY TypedParts DEF NodeTyped, node, area
<1>5. UNCHANGED given => /\ ident' \in [{"vendor", "product"} -> {"match", "other"}]
                         /\ healthy' \in BOOLEAN /\ world' \in Worlds
  BY TypedParts DEF RestTyped, given
<1>6. UNCHANGED <<client, given>> => ClientTyped'
  BY TypedParts DEF ClientTyped, Counters, Bounds, client, given
<1>1. ASSUME ToolNext \/ Disconnect \/ FileError \/ Rerun PROVE Typed'
  <2>1. /\ ClientTyped' /\ UNCHANGED <<node, given>> /\ mishaps' \in 0..MaxMishaps
        /\ Sends \/ Moves \/ Reruns
    BY <1>1, ToolSteps
  <2>2. c2s' \in Seq(Requests) /\ s2c' \in Seq(Responses)
    <3>1. c2s \in Seq(Requests) /\ s2c \in Seq(Responses)
      BY TypedParts DEF RestTyped
    <3>2. CASE Sends
      BY <3>1, <3>2, RequestIs, AppendKeeps DEF Sends
    <3>3. CASE Moves
      BY <3>1, <3>3 DEF Moves
    <3>4. CASE Reruns
      BY <3>1, <3>4, Messages, AppendKeeps DEF Reruns
    <3> QED
      BY <2>1, <3>2, <3>3, <3>4
  <2> QED
    BY <2>1, <2>2, <1>4, <1>5, TypedParts DEF RestTyped
<1>2. ASSUME NodeNext \/ NodeCold \/ FlashFault \/ PowerCycle \/ LoseRequest \/ LoseResponse \/ LoseSegments
      PROVE  Typed'
  <2>1. /\ UNCHANGED <<client, given>> /\ NodeTyped' /\ mishaps' \in 0..MaxMishaps
        /\ c2s' \in Seq(Requests) /\ s2c' \in Seq(Responses)
    BY <1>2, NodeSteps
  <2>2. ClientTyped'
    BY <2>1, <1>6
  <2> QED
    BY <2>1, <2>2, <1>5, TypedParts DEF RestTyped
<1>3. ASSUME UNCHANGED vars PROVE Typed'
  <2>1. UNCHANGED <<client, node, given>> /\ c2s' = c2s /\ s2c' = s2c /\ mishaps' = mishaps
    BY <1>3 DEF vars
  <2> QED
    BY <2>1, <1>4, <1>5, <1>6, TypedParts DEF RestTyped
<1> QED
  BY <1>1, <1>2, <1>3 DEF Next, MishapNext

\* The tool, the channels, the node and its flash are in their ranges in every state.
THEOREM TypeCorrect == Spec => []TypeOK
<1>1. Init => Typed
  BY InitTyped
<1>2. Typed /\ [Next]_vars => Typed'
  BY StepTyped
<1>3. Typed => TypeOK
  BY DEF Typed
<1> QED
  BY <1>1, <1>2, <1>3, PTL DEF Spec


-----------------------------------------------------------------------------
(* Only a node that is the right one loses its image                       *)

Clears == {Control("clear")}
Values == {m \in Responses : m.kind = "value"}

\* The node is what the run is to check for.
Match == \A c \in world.checks : ident[c] = "match"

\* Answers that tell another identity than the node's.
Untrue == {m \in Values : m.obj \in {"vendor", "product"} /\ m.val # ident[m.obj]}

Unvalidated == {"checkBoot", "appVersion", "startBoot", "waitBoot", "blVersion", "vendor", "product"}

\* Erased, to be erased or past the validation, the node matches; what answers tell of
\* its identity is so, however old they are.
Identified ==
  /\ work = "erase" => flash # "old"
  /\ flash # "old" => Match
  /\ Lacks(c2s, Clears) \/ Match
  /\ pc \in Active \ Unvalidated => Match
  /\ pc = "product" /\ "vendor" \in world.checks => ident["vendor"] = "match"
  /\ Lacks(s2c, Untrue)

\* A step that puts no value into the channel keeps what holds of the values there.
LEMMA PlainKeeps ==
  ASSUME s2c \in Seq(Responses), Plain, NEW S \in SUBSET Values, NEW T \in SUBSET Values, s2c' \in Seq(Responses)
  PROVE  /\ Lacks(s2c, S) => Lacks(s2c', S)
         /\ Ahead(s2c, S, T) => Ahead(s2c', S, T)
<1>1. CASE Rest(s2c', s2c)
  BY <1>1, RestKeeps
<1>2. CASE \E r \in Responses : r.kind # "value" /\ s2c' = Append(s2c, r)
  <2>1. PICK r \in Responses : r.kind # "value" /\ s2c' = Append(s2c, r)
    BY <1>2
  <2>2. r \notin S /\ r \notin T
    BY <2>1 DEF Values
  <2> QED
    BY <2>1, <2>2, AppendKeeps
<1> QED
  BY <1>1, <1>2 DEF Plain

\* Which steps send what.
LEMMA SendsWhat ==
  ASSUME Typed, pc \in Active
  PROVE  /\ Request = Control("clear") => pc = "clear"
         /\ Request = Control("sign") => pc = "sign"
         /\ Request = Control("enterBoot") => pc \in {"startBoot", "restartBoot"}
         /\ Request = Control("startApp") => pc \in {"firstStart", "finalStart"}
         /\ Request.op = "initiate" => pc = "download"
         /\ Request = Read("status") => pc \in StatusWaits
         /\ Request = Read("devType") => pc \in BootWaits \cup AppWaits \cup {"checkBoot"}
<1> USE DEF Active, Reading, Polling, BootWaits, AppWaits, StatusWaits, Infos, Queries, Controls, Commands
<1>1. CASE pc \in Reading
  <2>1. Request = [op |-> "read", obj |-> Object(pc)]
    BY <1>1, RequestIs DEF Read
  <2>2. Request.op = "read" /\ Request.obj = Object(pc)
    BY <2>1
  <2>3. Object(pc) = "status" => pc \in StatusWaits
    BY <1>1 DEF Object
  <2>4. Object(pc) = "devType" => pc \in BootWaits \cup AppWaits \cup {"checkBoot"}
    BY <1>1 DEF Object
  <2> QED
    BY <2>2, <2>3, <2>4 DEF Control, Read
<1>2. CASE pc \in Controls \cup Commands
  <2>1. Request = [op |-> "control", obj |-> "control", code |-> ControlCode(pc)]
    BY <1>2, RequestIs DEF Control
  <2>2. Request.op = "control" /\ Request.code = ControlCode(pc)
    BY <2>1
  <2>3. /\ ControlCode(pc) = "clear" => pc = "clear"
        /\ ControlCode(pc) = "sign" => pc = "sign"
        /\ ControlCode(pc) = "enterBoot" => pc \in {"startBoot", "restartBoot"}
        /\ ControlCode(pc) = "startApp" => pc \in {"firstStart", "finalStart"}
    BY <1>2 DEF ControlCode
  <2> QED
    BY <2>2, <2>3 DEF Control, Read
<1>3. CASE pc \in {"download", "data"}
  BY <1>3, RequestIs DEF Control, Read
<1> QED
  BY <1>1, <1>2, <1>3

\* The validations of a run and what is left of the node's identity after each.
LEMMA ToolIdentified ==
  ASSUME Typed, Identified, Moves, UNCHANGED <<node, given>>
  PROVE  /\ pc' \in Active \ Unvalidated => Match
         /\ pc' = "product" /\ "vendor" \in world.checks => ident["vendor"] = "match"
<1> USE DEF Active, Reading, Polling, BootWaits, AppWaits, StatusWaits, Infos, Queries, Controls, Commands
<1>1. world.checks \subseteq {"vendor", "product"} /\ s2c \in Seq(Responses)
  BY WorldIs DEF Typed, TypeOK
<1>2. CASE pc' \in {pc, "failed"}
  BY <1>2 DEF Identified
<1>3. CASE pc \in Active \ Unvalidated
  <2>1. pc' # "product"
    <3>1. pc' \in {pc, "failed"} \/ pc' = NextStep
      BY <1>3 DEF Moves, Passed, Unvalidated
    <3>2. NextStep # "product"
      BY <1>3, NextSteps DEF Unvalidated, AfterBlock
    <3> QED
      BY <1>3, <3>1, <3>2 DEF Unvalidated
  <2> QED
    BY <1>3, <2>1 DEF Identified
<1>4. CASE pc = "blVersion" /\ pc' = NextStep
  <2>1. pc' = FirstCheck
    BY <1>4, NextSteps
  <2> QED
    BY <1>1, <2>1 DEF FirstCheck, Match, Unvalidated
<1>5. CASE pc \in {"vendor", "product"} /\ pc' \notin {pc, "failed"}
  <2> DEFINE m == Head(s2c)
  <2>1. s2c # <<>> /\ m.kind = "value" /\ m.obj = pc /\ m.val = "match" /\ pc' = NextStep
    BY <1>5 DEF Moves, Passed, Object
  <2>2. m \in Responses /\ m \notin Untrue
    BY <1>1, <2>1, HeadOf, TailRests DEF Identified
  <2>3. ident[pc] = "match"
    BY <1>5, <2>1, <2>2 DEF Untrue, Values
  <2>4. pc' = (IF pc = "vendor" /\ "product" \in world.checks THEN "product" ELSE "clear")
    BY <1>5, <2>1, NextSteps
  <2> QED
    BY <1>1, <1>5, <2>3, <2>4 DEF Identified, Match, Unvalidated
<1>6. CASE pc \in {"checkBoot", "appVersion", "startBoot", "waitBoot"} /\ pc' \notin {pc, "failed"}
  <2>1. pc' \in {"blVersion", "appVersion", "startBoot", "waitBoot"}
    BY <1>6, NextSteps DEF Moves, Passed
  <2> QED
    BY <2>1 DEF Unvalidated
<1>7. pc' \in {pc, "failed"} \/ pc \in Active
  BY DEF Moves, Passed
<1>8. pc = "blVersion" => pc' \in {pc, "failed"} \/ pc' = NextStep
  BY DEF Moves, Passed
<1> QED
  BY <1>2, <1>3, <1>4, <1>5, <1>6, <1>7, <1>8 DEF Unvalidated

\* Every step keeps it.
LEMMA StepIdentified ==
  ASSUME Typed, Identified, [Next]_vars
  PROVE  Identified'
<1>1. c2s \in Seq(Requests) /\ s2c \in Seq(Responses) /\ c2s' \in Seq(Requests) /\ s2c' \in Seq(Responses)
  BY StepTyped DEF Typed, TypeOK
<1>2. UNCHANGED given => world' = world /\ ident' = ident /\ Untrue' = Untrue /\ Match' = Match
  BY DEF given, Untrue, Match
<1>3. Untrue \subseteq Values
  BY DEF Untrue
<1>4. ASSUME ToolNext \/ Disconnect \/ FileError \/ Rerun PROVE Identified'
  <2>1. UNCHANGED <<node, given>> /\ (Sends \/ Moves \/ Reruns)
    BY <1>4, ToolSteps
  <2>2. work' = work /\ flash' = flash
    BY <2>1 DEF node, area
  <2>3. Lacks(s2c', Untrue)
    BY <1>1, <2>1, RestKeeps DEF Identified, Sends, Moves, Reruns
  <2>4. CASE Sends
    <3>1. pc' = pc /\ Request \in Requests /\ c2s' = Append(c2s, Request)
      BY <2>4, RequestIs DEF Sends
    <3>2. Lacks(c2s', Clears) \/ Match
      <4>1. CASE Request \notin Clears
        BY <1>1, <3>1, <4>1, AppendKeeps DEF Identified
      <4>2. CASE Request \in Clears
        BY <2>4, <4>2, SendsWhat DEF Identified, Clears, Sends, Unvalidated
      <4> QED
        BY <4>1, <4>2
    <3> QED
      BY <1>2, <2>1, <2>2, <2>3, <3>1, <3>2 DEF Identified
  <2>5. CASE Moves
    BY <1>2, <2>1, <2>2, <2>3, <2>5, ToolIdentified DEF Identified, Moves
  <2>6. CASE Reruns
    <3>1. Reset \in Requests /\ Reset \notin Clears
      BY Messages DEF Reset, Clears, Control
    <3>2. Lacks(c2s', Clears) \/ Match
      BY <1>1, <2>6, <3>1, AppendKeeps DEF Identified, Reruns
    <3> QED
      BY <1>2, <2>1, <2>2, <2>3, <2>6, <3>2 DEF Identified, Reruns, Unvalidated
  <2> QED
    BY <2>1, <2>4, <2>5, <2>6
<1>5. ASSUME NodeNext \/ NodeCold \/ FlashFault \/ PowerCycle \/ LoseRequest \/ LoseResponse \/ LoseSegments
      PROVE  Identified'
  <2>1. /\ Answers \/ Plain
        /\ Answers \/ NodeDoes
        /\ Rest(c2s', c2s) /\ UNCHANGED <<client, given>>
    BY <1>5, NodeSteps
  <2>2. pc' = pc /\ world' = world /\ ident' = ident
    BY <2>1 DEF client, given
  <2>3. Lacks(c2s', Clears) \/ Match
    BY <1>1, <2>1, RestKeeps DEF Identified
  <2>4. Lacks(s2c', Untrue)
    <3>1. CASE Plain
      BY <1>1, <1>3, <3>1, PlainKeeps DEF Identified
    <3>2. CASE Answers
      <4>1. PICK o \in Readable, v \in {"boot", "blupdate", "app", "ok", "busy", "error", "match", "other", "none"} :
              /\ s2c' = Append(s2c, Value(o, v))
              /\ o \in {"vendor", "product"} => v = ident[o]
        BY <3>2 DEF Answers
      <4>2. Value(o, v) \in Responses
        BY Messages DEF Objects
      <4>3. Value(o, v) \notin Untrue
        BY <4>1 DEF Untrue, Value
      <4> QED
        BY <1>1, <4>1, <4>2, <4>3, AppendKeeps DEF Identified
    <3> QED
      BY <2>1, <3>1, <3>2
  <2>5. (work' = "erase" => flash' # "old") /\ (flash' # "old" => Match)
    <3>1. CASE UNCHANGED node \/ Idles \/ Switches \/ Signs \/ Ends \/ Restarts
      BY <3>1 DEF Identified, node, area, Idles, Switches, Signs, Ends, Restarts
    <3>2. CASE Erases
      <4>1. ~Lacks(c2s, Clears)
        BY <1>1, <3>2, HeadOf DEF Erases, Clears
      <4> QED
        BY <3>2, <4>1 DEF Erases, Identified
    <3> QED
      BY <2>1, <3>1, <3>2 DEF Answers, NodeDoes
  <2> QED
    BY <1>2, <2>1, <2>2, <2>3, <2>4, <2>5 DEF Identified
<1>6. ASSUME UNCHANGED vars PROVE Identified'
  <2>1. UNCHANGED given /\ pc' = pc /\ c2s' = c2s /\ s2c' = s2c /\ work' = work /\ flash' = flash
    BY <1>6 DEF vars, client, node, area
  <2> QED
    BY <1>2, <2>1 DEF Identified, given
<1> QED
  BY <1>4, <1>5, <1>6 DEF Next, MishapNext

-----------------------------------------------------------------------------
(* No image is signed before it has run                                    *)

StatusReads == {Read("status")}
SignOrders == {Control("sign")}
Statuses == {m \in Values : m.obj = "status"}
InApp == {m \in Values : m.obj = "devType" /\ m.val \notin BootTypes}
InBoot == {m \in Values : m.obj = "devType" /\ m.val \in BootTypes}

UpToClear == BeforeErase \ {"waitClear"}
Untested == {"download", "data", "waitBlock", "firstStart", "checkApp"}
Tested == {"newVersion", "restartBoot", "waitReenter", "sign", "waitSign", "finalStart", "finalCheck", "done"}

\* The image in the flash is the old one or has run.
Fresh == flash = "old" \/ ran

\* What the node shows of its state.
NodeSmoke ==
  /\ mode = "app" \/ signed => Fresh
  /\ work = "sign" => Fresh

\* The erase is ordered once, before anything is asked of it: no answer to a poll is
\* older than the erase it tells of.
ClearsFirst ==
  /\ pc \in UpToClear => Lacks(c2s, StatusReads) /\ Lacks(c2s, SignOrders) /\ Lacks(s2c, Statuses)
  /\ Lacks(c2s, Clears) \/ (pc \in {"clear", "waitClear", "failed"} /\ Lacks(s2c, Statuses))
  /\ Ahead(c2s, Clears, StatusReads)

\* An answer that the application runs is from before the erase, and then in front of
\* every answer to the polls, or it is of the new image; the signature is ordered after one.
RunsFirst ==
  /\ Fresh \/ Ahead(s2c, InApp, Statuses)
  /\ pc \in Untested => Fresh \/ Lacks(s2c, InApp)
  /\ pc \in Tested => Fresh
  /\ Lacks(c2s, SignOrders) \/ (Fresh /\ Lacks(c2s, Clears))

SmokeInv == "kill" \notin world.mishaps => NodeSmoke /\ ClearsFirst /\ RunsFirst

-----------------------------------------------------------------------------
(* Flash commands reach the bootloader                                     *)

Flashing == {m \in Requests : m.op = "initiate"} \cup Clears \cup SignOrders
Starting == {Control("startApp")}
Entering == {Control("enterBoot")}

\* Before the tool knows the bootloader to be active; while it flashes; while the new
\* image is tried out; back to the bootloader; while it signs.
Finding == {"checkBoot", "appVersion", "startBoot", "waitBoot"}
Loading == {"blVersion", "vendor", "product", "clear", "waitClear", "download", "data", "waitBlock"}
Trying == {"firstStart", "checkApp"}
Returning == {"restartBoot", "waitReenter"}
Signing == {"sign", "waitSign"}

\* No flash command is in front of the application, and none follows a command to start it.
Shielded == Ahead(c2s, Flashing, Starting) /\ (mode = "app" => Lacks(c2s, Flashing))

\* What the node's mode, the mode commands in flight and the answers in flight have to do
\* with each other, in each phase of the run.
Phases ==
  /\ pc \in Finding => /\ Lacks(c2s, Starting) /\ Lacks(c2s, Flashing) /\ Ahead(s2c, InApp, InBoot)
                       /\ mode = "app" => Lacks(s2c, InBoot)
  /\ pc \in Loading \cup Signing => mode = "boot" /\ Lacks(c2s, Starting)
  /\ pc \in Loading => Lacks(s2c, InApp)
  /\ pc \in Trying => \/ mode = "boot" /\ Lacks(s2c, InApp) /\ Ahead(c2s, Entering, Starting)
                      \/ mode = "app" /\ Lacks(c2s, Entering) /\ Ahead(s2c, InBoot, InApp)
  /\ pc = "newVersion" => mode = "app" /\ Lacks(c2s, Entering) /\ Lacks(s2c, InBoot)
  /\ pc \in Returning => \/ mode = "app" /\ Lacks(s2c, InBoot) /\ Ahead(c2s, Starting, Entering)
                         \/ mode = "boot" /\ Lacks(c2s, Starting)

ModeInv == world.mishaps \cap {"powerCycle", "kill"} = {} => Shielded /\ Phases


\* What the application and the bootloader answer when asked for the device type.
LEMMA DevTypeIs ==
  ASSUME Typed
  PROVE  (mode = "boot" => DevType \in BootTypes) /\ (mode = "app" => DevType \notin BootTypes)
  BY WorldIs DEF Typed, DevType, BootTypes

\* The way of the tool through its steps: where each phase is entered from, and past
\* which answer.
LEMMA Route ==
  ASSUME Typed, Moves
  PROVE  /\ pc = "failed" => pc' = "failed"
         /\ pc' \in UpToClear => pc \in UpToClear
         /\ pc = "clear" => pc' \in {"clear", "waitClear", "failed"}
         /\ pc = "waitClear" => pc' \in {"waitClear", "failed"} \/ (s2c # <<>> /\ Head(s2c) \in Statuses)
         /\ pc' \in Untested => pc \in Untested \/ (pc = "waitClear" /\ s2c # <<>> /\ Head(s2c) \in Statuses)
         /\ pc' \in Tested => pc \in Tested \/ (pc = "checkApp" /\ s2c # <<>> /\ Head(s2c) \in InApp)
         /\ pc' \in Finding => pc \in Finding
         /\ pc' \in Loading => pc \in Loading \/ (pc \in Finding /\ s2c # <<>> /\ Head(s2c) \in InBoot)
         /\ pc' \in Trying => pc \in Trying \cup {"waitBlock"}
         /\ pc' = "newVersion" => pc = "newVersion" \/ (pc = "checkApp" /\ s2c # <<>> /\ Head(s2c) \in InApp)
         /\ pc' \in Returning => pc \in Returning \cup {"newVersion"}
         /\ pc' \in Signing => pc \in Signing \/ (pc = "waitReenter" /\ s2c # <<>> /\ Head(s2c) \in InBoot)
<1> USE DEF UpToClear, BeforeErase, Untested, Tested, Finding, Loading, Trying, Returning, Signing,
            Polling, BootWaits, AppWaits, StatusWaits, Infos, Controls, Commands
<1>1. CASE pc' \in {pc, "failed"}
  BY <1>1
<1>2. CASE pc \in Infos \cup Controls \cup Commands \cup {"download", "data"} /\ pc' = NextStep
  BY <1>2, NextSteps DEF FirstCheck
<1>3. CASE /\ s2c # <<>> /\ Head(s2c).kind = "value" /\ Head(s2c).obj = Object(pc)
           /\ Passed("ok", Head(s2c).val)
  <2> DEFINE m == Head(s2c)
  <2>1. m \in Values
    BY <1>3, TailRests DEF Values, Typed, TypeOK
  <2>2. CASE pc \in StatusWaits /\ pc' = NextStep
    <3>1. m \in Statuses
      BY <1>3, <2>1, <2>2 DEF Statuses, Object
    <3> QED
      BY <1>3, <2>2, <3>1, NextSteps DEF AfterBlock
  <2>3. CASE pc \in BootWaits /\ Passes(m.val) /\ pc' = NextStep
    <3>1. m \in InBoot
      BY <1>3, <2>1, <2>3 DEF InBoot, Object, Passes
    <3> QED
      BY <1>3, <2>3, <3>1, NextSteps
  <2>4. CASE pc \in AppWaits /\ Passes(m.val) /\ pc' = NextStep
    <3>1. m \in InApp
      BY <1>3, <2>1, <2>4 DEF InApp, Object, Passes
    <3> QED
      BY <1>3, <2>4, <3>1, NextSteps
  <2>5. CASE pc = "checkBoot" /\ pc' = (IF m.val \in BootTypes THEN "blVersion" ELSE "appVersion")
    <3>1. m.val \in BootTypes => m \in InBoot
      BY <1>3, <2>1, <2>5 DEF InBoot, Object
    <3> QED
      BY <1>3, <2>5, <3>1
  <2>6. CASE pc \in {"vendor", "product"} /\ pc' = NextStep
    BY <2>6, NextSteps
  <2> QED
    BY <1>3, <2>2, <2>3, <2>4, <2>5, <2>6 DEF Passed
<1> QED
  BY <1>1, <1>2, <1>3 DEF Moves

\* What the answers and the requests that bear on the smoke test are.
LEMMA SmokeSets ==
  Statuses \in SUBSET Values /\ InApp \in SUBSET Values /\ InBoot \in SUBSET Values
  BY DEF Statuses, InApp, InBoot

\* A step of the tool that is not a second run.
LEMMA ToolSmoke ==
  ASSUME Typed, ClearsFirst, RunsFirst, Sends \/ Moves, UNCHANGED <<node, given>>
  PROVE  (ClearsFirst /\ RunsFirst)'
<1>1. c2s \in Seq(Requests) /\ s2c \in Seq(Responses)
  BY DEF Typed, TypeOK
<1>2. Fresh' = Fresh /\ Statuses' = Statuses /\ InApp' = InApp
  BY DEF Fresh, Statuses, InApp, BootTypes, node, area, given
<1>3. /\ Rest(s2c', s2c) /\ s2c' \in Seq(Responses)
  BY DEF Sends, Moves
<1>4. /\ Lacks(s2c, Statuses) => Lacks(s2c', Statuses)
      /\ Lacks(s2c, InApp) => Lacks(s2c', InApp)
      /\ Ahead(s2c, InApp, Statuses) => Ahead(s2c', InApp, Statuses)
  BY <1>1, <1>3, RestKeeps
<1>5. CASE Sends
  <2>1. pc' = pc /\ pc \in Active /\ Request \in Requests /\ c2s' = Append(c2s, Request)
    BY <1>5, RequestIs DEF Sends
  <2>2. /\ Request \in Clears => pc = "clear"
        /\ Request \in SignOrders => pc = "sign"
        /\ Request \in StatusReads => pc \in StatusWaits
        /\ Request \in Clears => Request \notin SignOrders /\ Request \notin StatusReads
    BY <2>1, SendsWhat DEF Clears, SignOrders, StatusReads, Control, Read
  <2>3. pc \in UpToClear => Lacks(c2s', StatusReads) /\ Lacks(c2s', SignOrders)
    BY <1>1, <2>1, <2>2, AppendKeeps DEF ClearsFirst, UpToClear, BeforeErase, StatusWaits
  <2>4. CASE Request \in Clears
    <3>1. pc = "clear" /\ Lacks(c2s, StatusReads) /\ Lacks(c2s', SignOrders) /\ Lacks(s2c', Statuses)
      BY <1>4, <2>2, <2>3, <2>4 DEF ClearsFirst, UpToClear, BeforeErase
    <3>2. Ahead(c2s', Clears, StatusReads)
      BY <1>1, <2>1, <2>2, <2>4, <3>1, AppendKeeps
    <3> QED
      BY <1>2, <1>4, <2>1, <2>3, <3>1, <3>2 DEF ClearsFirst, RunsFirst, Tested, Untested
  <2>5. CASE Request \notin Clears
    <3>1. /\ Lacks(c2s, Clears) => Lacks(c2s', Clears)
          /\ Ahead(c2s, Clears, StatusReads) => Ahead(c2s', Clears, StatusReads)
      BY <1>1, <2>1, <2>5, AppendKeeps
    <3>2. Lacks(c2s', SignOrders) \/ (Fresh /\ Lacks(c2s', Clears))
      <4>1. CASE Request \in SignOrders
        BY <2>2, <3>1, <4>1 DEF ClearsFirst, RunsFirst, Tested
      <4>2. CASE Request \notin SignOrders
        BY <1>1, <2>1, <3>1, <4>2, AppendKeeps DEF RunsFirst
      <4> QED
        BY <4>1, <4>2
    <3> QED
      BY <1>2, <1>4, <2>1, <2>3, <3>1, <3>2 DEF ClearsFirst, RunsFirst
  <2> QED
    BY <2>4, <2>5
<1>6. CASE Moves
  <2>1. c2s' = c2s
    BY <1>6 DEF Moves
  <2>2. s2c # <<>> /\ Head(s2c) \in Statuses => Lacks(c2s, Clears) /\ (Fresh \/ Lacks(s2c, InApp))
    BY <1>1, HeadOf DEF ClearsFirst, RunsFirst
  <2>3. pc' \in UpToClear => Lacks(c2s', StatusReads) /\ Lacks(c2s', SignOrders) /\ Lacks(s2c', Statuses)
    BY <1>4, <1>6, <2>1, Route DEF ClearsFirst
  <2>4. Lacks(c2s', Clears) \/ (pc' \in {"clear", "waitClear", "failed"} /\ Lacks(s2c', Statuses))
    BY <1>4, <1>6, <2>1, <2>2, Route DEF ClearsFirst
  <2>5. pc' \in Untested => Fresh \/ Lacks(s2c', InApp)
    BY <1>4, <1>6, <2>2, Route DEF RunsFirst
  <2>6. pc' \in Tested => Fresh
    <3>1. pc = "checkApp" /\ s2c # <<>> /\ Head(s2c) \in InApp => Fresh
      BY <1>1, HeadOf DEF RunsFirst, Untested
    <3> QED
      BY <1>6, <3>1, Route DEF RunsFirst
  <2> QED
    BY <1>2, <1>4, <2>1, <2>3, <2>4, <2>5, <2>6 DEF ClearsFirst, RunsFirst
<1> QED
  BY <1>5, <1>6

\* What is left of the requests: what the channel lacked it lacks, in the order it had.
LEMMA RequestsKept ==
  ASSUME Typed, Rest(c2s', c2s), c2s' \in Seq(Requests), NEW S, NEW T
  PROVE  (Lacks(c2s, S) => Lacks(c2s', S)) /\ (Ahead(c2s, S, T) => Ahead(c2s', S, T))
  BY RestKeeps DEF Typed, TypeOK

\* An answer of the node.
LEMMA AnswerSmoke ==
  ASSUME Typed, NodeSmoke, ClearsFirst, RunsFirst, Answers, Rest(c2s', c2s), c2s' \in Seq(Requests),
         UNCHANGED <<client, given>>
  PROVE  (NodeSmoke /\ ClearsFirst /\ RunsFirst)'
<1>1. c2s \in Seq(Requests) /\ s2c \in Seq(Responses) /\ c2s # <<>> /\ UNCHANGED node
  BY DEF Typed, TypeOK, Answers
<1>2. pc' = pc /\ NodeSmoke' = NodeSmoke /\ Fresh' = Fresh /\ Statuses' = Statuses /\ InApp' = InApp
  BY <1>1 DEF NodeSmoke, Fresh, Statuses, InApp, BootTypes, node, area, given, client
<1>3. PICK o \in Readable, v \in {"boot", "blupdate", "app", "ok", "busy", "error", "match", "other", "none"} :
        /\ Head(c2s) = Read(o) /\ s2c' = Append(s2c, Value(o, v))
        /\ o = "devType" => v = DevType
  BY DEF Answers
<1> DEFINE e == Value(o, v)
<1>4. e \in Responses /\ e.obj = o /\ e.val = v
  BY Messages DEF Objects, Value
<1>5. Fresh \/ e \notin InApp
  <2>1. mode = "boot" \/ Fresh
    BY DEF NodeSmoke, Typed, TypeOK
  <2> QED
    BY <1>3, <1>4, <2>1, DevTypeIs DEF InApp
<1>6. e \in Statuses => Lacks(c2s, Clears) /\ pc \notin UpToClear
  <2>1. e \in Statuses => Head(c2s) \in StatusReads
    BY <1>3, <1>4 DEF Statuses, StatusReads
  <2> QED
    BY <1>1, <2>1, HeadOf DEF ClearsFirst
<1> HIDE DEF e
<1>7. /\ e \notin Statuses /\ Lacks(s2c, Statuses) => Lacks(s2c', Statuses)
      /\ e \notin InApp /\ Lacks(s2c, InApp) => Lacks(s2c', InApp)
      /\ e \notin InApp /\ Ahead(s2c, InApp, Statuses) => Ahead(s2c', InApp, Statuses)
  BY <1>1, <1>3, <1>4, AppendKeeps DEF e
<1>8. /\ Lacks(c2s, StatusReads) => Lacks(c2s', StatusReads)
      /\ Lacks(c2s, SignOrders) => Lacks(c2s', SignOrders)
      /\ Lacks(c2s, Clears) => Lacks(c2s', Clears)
      /\ Ahead(c2s, Clears, StatusReads) => Ahead(c2s', Clears, StatusReads)
  BY RequestsKept
<1>9. ClearsFirst'
  BY <1>2, <1>6, <1>7, <1>8 DEF ClearsFirst
<1>10. RunsFirst'
  BY <1>2, <1>5, <1>7, <1>8 DEF RunsFirst
<1> QED
  BY <1>2, <1>9, <1>10

\* Any other step of the node or around it.
LEMMA WorkSmoke ==
  ASSUME Typed, Identified, NodeSmoke, ClearsFirst, RunsFirst, Plain, NodeDoes, Rest(c2s', c2s),
         c2s' \in Seq(Requests), s2c' \in Seq(Responses), UNCHANGED <<client, given>>
  PROVE  (NodeSmoke /\ ClearsFirst /\ RunsFirst)'
<1>1. /\ c2s \in Seq(Requests) /\ s2c \in Seq(Responses) /\ mode \in {"boot", "app"}
      /\ pc' = pc /\ Statuses' = Statuses /\ InApp' = InApp
  BY DEF Typed, TypeOK, Statuses, InApp, BootTypes, given, client
<1>2. /\ Lacks(s2c, Statuses) => Lacks(s2c', Statuses)
      /\ Lacks(s2c, InApp) => Lacks(s2c', InApp)
      /\ Ahead(s2c, InApp, Statuses) => Ahead(s2c', InApp, Statuses)
  BY <1>1, PlainKeeps, SmokeSets
<1>3. /\ Lacks(c2s, StatusReads) => Lacks(c2s', StatusReads)
      /\ Lacks(c2s, SignOrders) => Lacks(c2s', SignOrders)
      /\ Lacks(c2s, Clears) => Lacks(c2s', Clears)
      /\ Ahead(c2s, Clears, StatusReads) => Ahead(c2s', Clears, StatusReads)
  BY RequestsKept
<1>4. ClearsFirst'
  BY <1>1, <1>2, <1>3 DEF ClearsFirst
<1>5. CASE Erases
  <2>1. ~Lacks(c2s, Clears)
    BY <1>1, <1>5, HeadOf DEF Erases, Clears
  <2>2. pc \in {"clear", "waitClear", "failed"} /\ Lacks(s2c', Statuses) /\ Lacks(c2s', SignOrders)
    BY <1>2, <1>3, <2>1 DEF ClearsFirst, RunsFirst
  <2>3. Ahead(s2c', InApp, Statuses)
    BY <1>1, <2>2, HeadOf
  <2>4. NodeSmoke'
    BY <1>5 DEF Erases, NodeSmoke
  <2> QED
    BY <1>1, <1>4, <2>2, <2>3, <2>4 DEF RunsFirst, Untested, Tested
<1>6. CASE Idles \/ Switches \/ Signs \/ Ends \/ Restarts
  <2>1. Fresh => Fresh'
    BY <1>6 DEF Fresh, Identified, Idles, Switches, Signs, Ends, Restarts
  <2>2. mode' = "app" => Fresh'
    <3>1. CASE Switches
      BY <2>1, <3>1 DEF Switches, NodeSmoke, Fresh
    <3>2. CASE Idles \/ Signs \/ Ends \/ Restarts
      BY <2>1, <3>2 DEF NodeSmoke, Idles, Signs, Ends, Restarts
    <3> QED
      BY <1>6, <3>1, <3>2
  <2>3. signed' => Fresh'
    BY <1>6, <2>1 DEF NodeSmoke, Idles, Switches, Signs, Ends, Restarts
  <2>4. work' = "sign" => Fresh'
    <3>1. CASE Signs
      <4>1. ~Lacks(c2s, SignOrders)
        BY <1>1, <3>1, HeadOf DEF Signs, SignOrders
      <4> QED
        BY <2>1, <4>1 DEF RunsFirst
    <3>2. CASE Idles \/ Switches \/ Ends \/ Restarts
      BY <2>1, <3>2 DEF NodeSmoke, Idles, Switches, Ends, Restarts
    <3> QED
      BY <1>6, <3>1, <3>2
  <2>5. NodeSmoke'
    BY <2>2, <2>3, <2>4 DEF NodeSmoke
  <2>6. RunsFirst'
    BY <1>1, <1>2, <1>3, <2>1 DEF RunsFirst
  <2> QED
    BY <1>4, <2>5, <2>6
<1> QED
  BY <1>5, <1>6 DEF NodeDoes

\* Every step keeps what the smoke test rests on.
LEMMA StepSmoke ==
  ASSUME Typed, Identified, SmokeInv, [Next]_vars
  PROVE  SmokeInv'
<1>1. UNCHANGED given => world' = world
  BY DEF given
<1>2. ASSUME ToolNext \/ Disconnect \/ FileError \/ Rerun PROVE SmokeInv'
  <2>1. UNCHANGED <<node, given>> /\ (Sends \/ Moves \/ Reruns)
    BY <1>2, ToolSteps
  <2>2. NodeSmoke' = NodeSmoke
    BY <2>1 DEF NodeSmoke, Fresh, node, area
  <2> QED
    BY <1>1, <2>1, <2>2, ToolSmoke DEF SmokeInv, Reruns
<1>3. ASSUME NodeNext \/ NodeCold \/ FlashFault \/ PowerCycle \/ LoseRequest \/ LoseResponse \/ LoseSegments
      PROVE  SmokeInv'
  <2>1. /\ Answers \/ (Plain /\ NodeDoes)
        /\ Rest(c2s', c2s) /\ UNCHANGED <<client, given>>
        /\ c2s' \in Seq(Requests) /\ s2c' \in Seq(Responses)
    BY <1>3, NodeSteps
  <2> QED
    BY <1>1, <2>1, AnswerSmoke, WorkSmoke DEF SmokeInv
<1>4. ASSUME UNCHANGED vars PROVE SmokeInv'
  <2>1. UNCHANGED <<client, node, given>> /\ c2s' = c2s /\ s2c' = s2c
    BY <1>4 DEF vars
  <2>2. /\ NodeSmoke' = NodeSmoke /\ Fresh' = Fresh /\ Statuses' = Statuses /\ InApp' = InApp /\ pc' = pc
    BY <2>1 DEF NodeSmoke, Fresh, Statuses, InApp, BootTypes, node, area, given, client
  <2> QED
    BY <1>1, <2>1, <2>2 DEF SmokeInv, ClearsFirst, RunsFirst
<1> QED
  BY <1>2, <1>3, <1>4 DEF Next, MishapNext


\* A step of the tool that is not a second run.
LEMMA ToolPhases ==
  ASSUME Typed, Shielded, Phases, Sends \/ Moves, UNCHANGED <<node, given>>
  PROVE  (Shielded /\ Phases)'
<1>1. c2s \in Seq(Requests) /\ s2c \in Seq(Responses) /\ mode \in {"boot", "app"}
  BY DEF Typed, TypeOK
<1>2. mode' = mode /\ InApp' = InApp /\ InBoot' = InBoot
  BY DEF InApp, InBoot, BootTypes, node, given
<1>3. Rest(s2c', s2c) /\ s2c' \in Seq(Responses)
  BY DEF Sends, Moves
<1>4. /\ Lacks(s2c, InBoot) => Lacks(s2c', InBoot)
      /\ Lacks(s2c, InApp) => Lacks(s2c', InApp)
      /\ Ahead(s2c, InApp, InBoot) => Ahead(s2c', InApp, InBoot)
      /\ Ahead(s2c, InBoot, InApp) => Ahead(s2c', InBoot, InApp)
  BY <1>1, <1>3, RestKeeps
<1>5. CASE Sends
  <2>1. pc' = pc /\ pc \in Active /\ Request \in Requests /\ c2s' = Append(c2s, Request)
    BY <1>5, RequestIs DEF Sends
  <2>2. /\ Request \in Flashing => pc \in {"download", "clear", "sign"}
        /\ Request \in Starting => pc \in {"firstStart", "finalStart"}
        /\ Request \in Entering => pc \in {"startBoot", "restartBoot"}
    BY <2>1, SendsWhat DEF Flashing, Starting, Entering, Clears, SignOrders
  <2>3. /\ Request \notin Flashing => (Lacks(c2s, Flashing) => Lacks(c2s', Flashing))
        /\ Request \notin Flashing => (Ahead(c2s, Flashing, Starting) => Ahead(c2s', Flashing, Starting))
        /\ Request \notin Starting => (Lacks(c2s, Starting) => Lacks(c2s', Starting))
        /\ Request \notin Entering => (Lacks(c2s, Entering) => Lacks(c2s', Entering))
        /\ Request \notin Entering => (Ahead(c2s, Entering, Starting) => Ahead(c2s', Entering, Starting))
        /\ Request \notin Starting => (Ahead(c2s, Starting, Entering) => Ahead(c2s', Starting, Entering))
        /\ Request \notin Starting /\ Lacks(c2s, Starting) => Ahead(c2s', Flashing, Starting)
    BY <1>1, <2>1, AppendKeeps
  <2>4. Shielded'
    <3>1. CASE Request \in Flashing
      <4>1. mode = "boot" /\ Lacks(c2s, Starting) /\ Request \notin Starting
        BY <2>2, <3>1 DEF Phases, Loading, Signing
      <4> QED
        BY <1>2, <2>3, <4>1 DEF Shielded
    <3>2. CASE Request \notin Flashing
      BY <1>2, <2>3, <3>2 DEF Shielded
    <3> QED
      BY <3>1, <3>2
  <2>5. pc \in Finding => (Lacks(c2s, Flashing) => Lacks(c2s', Flashing)) /\ (Lacks(c2s, Starting) => Lacks(c2s', Starting))
    BY <2>2, <2>3 DEF Finding
  <2>6. pc \in Loading \cup Signing => (Lacks(c2s, Starting) => Lacks(c2s', Starting))
    BY <2>2, <2>3 DEF Loading, Signing
  <2>7. pc \in Trying \cup {"newVersion"} =>
          /\ Lacks(c2s, Entering) => Lacks(c2s', Entering)
          /\ Ahead(c2s, Entering, Starting) => Ahead(c2s', Entering, Starting)
    BY <2>2, <2>3 DEF Trying
  <2>8. pc \in Returning =>
          /\ Lacks(c2s, Starting) => Lacks(c2s', Starting)
          /\ Ahead(c2s, Starting, Entering) => Ahead(c2s', Starting, Entering)
    BY <2>2, <2>3 DEF Returning
  <2>9. Phases'
    BY <1>2, <1>4, <2>1, <2>5, <2>6, <2>7, <2>8 DEF Phases
  <2> QED
    BY <2>4, <2>9
<1>6. CASE Moves
  <2>1. c2s' = c2s
    BY <1>6 DEF Moves
  <2>2. /\ s2c # <<>> /\ Head(s2c) \in InBoot => ~Lacks(s2c, InBoot) /\ (Ahead(s2c, InApp, InBoot) => Lacks(s2c, InApp))
        /\ s2c # <<>> /\ Head(s2c) \in InApp => ~Lacks(s2c, InApp) /\ (Ahead(s2c, InBoot, InApp) => Lacks(s2c, InBoot))
    BY <1>1, HeadOf
  <2>3. /\ Lacks(c2s, Starting) => Ahead(c2s, Entering, Starting)
        /\ Lacks(c2s, Entering) => Ahead(c2s, Starting, Entering)
    BY <1>1, HeadOf
  <2>4. pc' \in Finding => /\ Lacks(c2s, Starting) /\ Lacks(c2s, Flashing) /\ Ahead(s2c', InApp, InBoot)
                           /\ mode = "app" => Lacks(s2c', InBoot)
    BY <1>4, <1>6, Route DEF Phases
  <2>5. pc' \in Loading => mode = "boot" /\ Lacks(c2s, Starting) /\ Lacks(s2c', InApp)
    BY <1>1, <1>4, <1>6, <2>2, Route DEF Phases
  <2>6. pc' \in Trying => \/ mode = "boot" /\ Lacks(s2c', InApp) /\ Ahead(c2s, Entering, Starting)
                          \/ mode = "app" /\ Lacks(c2s, Entering) /\ Ahead(s2c', InBoot, InApp)
    BY <1>4, <1>6, <2>3, Route DEF Phases, Loading
  <2>7. pc' = "newVersion" => mode = "app" /\ Lacks(c2s, Entering) /\ Lacks(s2c', InBoot)
    BY <1>4, <1>6, <2>2, Route DEF Phases, Trying
  <2>8. pc' \in Returning => \/ mode = "app" /\ Lacks(s2c', InBoot) /\ Ahead(c2s, Starting, Entering)
                             \/ mode = "boot" /\ Lacks(c2s, Starting)
    BY <1>4, <1>6, <2>3, Route DEF Phases
  <2>9. pc' \in Signing => mode = "boot" /\ Lacks(c2s, Starting)
    BY <1>6, <2>2, Route DEF Phases, Returning
  <2> QED
    BY <1>2, <2>1, <2>4, <2>5, <2>6, <2>7, <2>8, <2>9 DEF Shielded, Phases
<1> QED
  BY <1>5, <1>6

\* An answer of the node.
LEMMA AnswerPhases ==
  ASSUME Typed, Shielded, Phases, Answers, Rest(c2s', c2s), c2s' \in Seq(Requests),
         UNCHANGED <<client, given>>
  PROVE  (Shielded /\ Phases)'
<1>1. c2s \in Seq(Requests) /\ s2c \in Seq(Responses) /\ mode \in {"boot", "app"} /\ UNCHANGED node
  BY DEF Typed, TypeOK, Answers
<1>2. pc' = pc /\ mode' = mode /\ InApp' = InApp /\ InBoot' = InBoot
  BY <1>1 DEF InApp, InBoot, BootTypes, node, given, client
<1>3. PICK o \in Readable, v \in {"boot", "blupdate", "app", "ok", "busy", "error", "match", "other", "none"} :
        /\ s2c' = Append(s2c, Value(o, v))
        /\ o = "devType" => v = DevType
  BY DEF Answers
<1> DEFINE e == Value(o, v)
<1>4. e \in Responses /\ e.obj = o /\ e.val = v
  BY Messages DEF Objects, Value
<1>5. (mode = "boot" => e \notin InApp) /\ (mode = "app" => e \notin InBoot)
  BY <1>3, <1>4, DevTypeIs DEF InApp, InBoot
<1> HIDE DEF e
<1>6. /\ e \notin InBoot => /\ Lacks(s2c, InBoot) => Lacks(s2c', InBoot)
                            /\ Ahead(s2c, InBoot, InApp) => Ahead(s2c', InBoot, InApp)
                            /\ Lacks(s2c, InBoot) => Ahead(s2c', InApp, InBoot)
      /\ e \notin InApp => /\ Lacks(s2c, InApp) => Lacks(s2c', InApp)
                           /\ Ahead(s2c, InApp, InBoot) => Ahead(s2c', InApp, InBoot)
  BY <1>1, <1>3, <1>4, AppendKeeps DEF e
<1>7. /\ Lacks(c2s, Starting) => Lacks(c2s', Starting)
      /\ Lacks(c2s, Entering) => Lacks(c2s', Entering)
      /\ Lacks(c2s, Flashing) => Lacks(c2s', Flashing)
      /\ Ahead(c2s, Flashing, Starting) => Ahead(c2s', Flashing, Starting)
      /\ Ahead(c2s, Entering, Starting) => Ahead(c2s', Entering, Starting)
      /\ Ahead(c2s, Starting, Entering) => Ahead(c2s', Starting, Entering)
  BY RequestsKept
<1> QED
  BY <1>1, <1>2, <1>5, <1>6, <1>7 DEF Shielded, Phases

\* Any other step of the node or around it but a power cycle: only a mode command changes
\* the mode, and it leaves none of the opposite kind where that would matter.
LEMMA WorkPhases ==
  ASSUME Typed, Shielded, Phases, Plain, NodeDoes, ~Restarts, Rest(c2s', c2s),
         c2s' \in Seq(Requests), s2c' \in Seq(Responses), UNCHANGED <<client, given>>
  PROVE  (Shielded /\ Phases)'
<1>1. /\ c2s \in Seq(Requests) /\ s2c \in Seq(Responses) /\ mode \in {"boot", "app"}
      /\ pc' = pc /\ InApp' = InApp /\ InBoot' = InBoot
  BY DEF Typed, TypeOK, InApp, InBoot, BootTypes, given, client
<1>2. /\ Lacks(s2c, InBoot) => Lacks(s2c', InBoot)
      /\ Lacks(s2c, InApp) => Lacks(s2c', InApp)
      /\ Ahead(s2c, InApp, InBoot) => Ahead(s2c', InApp, InBoot)
      /\ Ahead(s2c, InBoot, InApp) => Ahead(s2c', InBoot, InApp)
  BY <1>1, PlainKeeps, SmokeSets
<1>3. /\ Lacks(c2s, Starting) => Lacks(c2s', Starting)
      /\ Lacks(c2s, Entering) => Lacks(c2s', Entering)
      /\ Lacks(c2s, Flashing) => Lacks(c2s', Flashing)
      /\ Ahead(c2s, Flashing, Starting) => Ahead(c2s', Flashing, Starting)
      /\ Ahead(c2s, Entering, Starting) => Ahead(c2s', Entering, Starting)
      /\ Ahead(c2s, Starting, Entering) => Ahead(c2s', Starting, Entering)
  BY RequestsKept
<1>4. CASE mode' = mode
  BY <1>1, <1>2, <1>3, <1>4 DEF Shielded, Phases
<1>5. CASE mode = "app" /\ mode' = "boot" /\ c2s # <<>> /\ Head(c2s) \in Entering
  <2>1. ~Lacks(c2s, Entering) /\ (Ahead(c2s, Starting, Entering) => Lacks(c2s, Starting))
    BY <1>1, <1>5, HeadOf
  <2>2. Shielded'
    BY <1>3, <1>5 DEF Shielded
  <2> QED
    BY <1>1, <1>2, <1>3, <1>5, <2>1, <2>2 DEF Phases
<1>6. CASE mode = "boot" /\ mode' = "app" /\ c2s # <<>> /\ Head(c2s) \in Starting
  <2>1. /\ ~Lacks(c2s, Starting)
        /\ Ahead(c2s, Flashing, Starting) => Lacks(c2s, Flashing)
        /\ Ahead(c2s, Entering, Starting) => Lacks(c2s, Entering)
    BY <1>1, <1>6, HeadOf
  <2>2. Lacks(s2c', InApp) => Ahead(s2c', InBoot, InApp)
    BY HeadOf
  <2>3. Shielded'
    BY <1>3, <1>6, <2>1 DEF Shielded
  <2> QED
    BY <1>1, <1>2, <1>3, <1>6, <2>1, <2>2, <2>3 DEF Phases
<1>7. mode' = mode \/ Switches
  BY DEF NodeDoes, Idles, Erases, Signs, Ends
<1>8. Switches => \/ mode = "app" /\ mode' = "boot" /\ c2s # <<>> /\ Head(c2s) \in Entering
                  \/ mode = "boot" /\ mode' = "app" /\ c2s # <<>> /\ Head(c2s) \in Starting
  BY <1>1 DEF Switches, Entering, Starting
<1> QED
  BY <1>4, <1>5, <1>6, <1>7, <1>8

\* Every step keeps what the flash commands' destination rests on.
LEMMA StepPhases ==
  ASSUME Typed, ModeInv, [Next]_vars
  PROVE  ModeInv'
<1>1. UNCHANGED given => world' = world
  BY DEF given
<1>2. ASSUME ToolNext \/ Disconnect \/ FileError \/ Rerun PROVE ModeInv'
  <2>1. UNCHANGED <<node, given>> /\ (Sends \/ Moves \/ Reruns)
    BY <1>2, ToolSteps
  <2> QED
    BY <1>1, <2>1, ToolPhases DEF ModeInv, Reruns
<1>3. ASSUME NodeNext \/ NodeCold \/ FlashFault \/ PowerCycle \/ LoseRequest \/ LoseResponse \/ LoseSegments
      PROVE  ModeInv'
  <2>1. /\ Answers \/ (Plain /\ NodeDoes)
        /\ Rest(c2s', c2s) /\ UNCHANGED <<client, given>>
        /\ c2s' \in Seq(Requests) /\ s2c' \in Seq(Responses)
    BY <1>3, NodeSteps
  <2>2. Restarts => "powerCycle" \in world.mishaps
    BY DEF Restarts
  <2> QED
    BY <1>1, <2>1, <2>2, AnswerPhases, WorkPhases DEF ModeInv
<1>4. ASSUME UNCHANGED vars PROVE ModeInv'
  <2>1. UNCHANGED <<client, node, given>> /\ c2s' = c2s /\ s2c' = s2c
    BY <1>4 DEF vars
  <2>2. mode' = mode /\ InApp' = InApp /\ InBoot' = InBoot /\ pc' = pc
    BY <2>1 DEF InApp, InBoot, BootTypes, node, given, client
  <2> QED
    BY <1>1, <2>1, <2>2 DEF ModeInv, Shielded, Phases
<1> QED
  BY <1>2, <1>3, <1>4 DEF Next, MishapNext

\* A run starts with nothing but its SDO abort in the channels.
LEMMA InitGuarded == Init => Identified /\ SmokeInv /\ ModeInv
<1> SUFFICES ASSUME Init PROVE Identified /\ SmokeInv /\ ModeInv
  OBVIOUS
<1>1. /\ Len(c2s) = 1 /\ c2s[1] = Reset /\ Len(s2c) = 0 /\ flash = "old" /\ work = "none" /\ pc = "checkBoot"
  BY DEF Init
<1>2. /\ Lacks(s2c, Untrue) /\ Lacks(s2c, Statuses) /\ Lacks(s2c, InBoot)
      /\ Ahead(s2c, InApp, InBoot) /\ Ahead(s2c, InApp, Statuses)
  BY <1>1 DEF Lacks, Ahead
<1>3. /\ Lacks(c2s, Clears) /\ Lacks(c2s, StatusReads) /\ Lacks(c2s, SignOrders) /\ Lacks(c2s, Flashing)
      /\ Lacks(c2s, Starting)
  BY <1>1 DEF Lacks, Clears, StatusReads, SignOrders, Flashing, Starting, Reset, Control, Read
<1>4. Ahead(c2s, Clears, StatusReads) /\ Ahead(c2s, Flashing, Starting)
  BY <1>3 DEF Lacks, Ahead
<1>5. Identified
  BY <1>1, <1>2, <1>3 DEF Identified, Unvalidated
<1>6. SmokeInv
  BY <1>1, <1>2, <1>3, <1>4 DEF SmokeInv, NodeSmoke, ClearsFirst, RunsFirst, Fresh, Untested, Tested
<1>7. ModeInv
  BY <1>1, <1>2, <1>3, <1>4 DEF ModeInv, Shielded, Phases, Finding, Loading, Trying, Returning, Signing
<1> QED
  BY <1>5, <1>6, <1>7

-----------------------------------------------------------------------------
(* What the tool goes by is so                                             *)

Inits == {m \in Requests : m.op = "initiate"}
Datas == {m \in Requests : m.op = "data"}
Orders == Clears \cup SignOrders
FlashOps == Inits \cup Datas \cup Orders
Others == Requests \ (Inits \cup Datas)
OkStatuses == {m \in Statuses : m.val = "ok"}
ProgAcks == {Ack("program")}

\* There is at most one of S in queue q.
Single(q, S) == \A i, j \in 1..Len(q) : q[i] \in S /\ q[j] \in S => i = j

\* Nothing is under way at the node and nothing is to come.
AtRest == work = "none" /\ sdo = "idle" /\ Lacks(c2s, FlashOps)

\* No poll of the flash and no answer to one is left.
NoPolls == Lacks(c2s, StatusReads) /\ Lacks(s2c, Statuses)

\* What an operation is for.
Effect(w) ==
  \/ w = "erase" /\ flash = "erased"
  \/ w = "program" /\ blk + 1 \in written
  \/ w = "sign" /\ signed

\* A flash operation that was begun goes on, has failed or has had its effect, and no
\* good status is older than its end.
Begun(w) ==
  \/ work = w /\ Lacks(s2c, OkStatuses)
  \/ work = "none" /\ status = "error" /\ Lacks(s2c, OkStatuses)
  \/ work = "none" /\ Effect(w)
Taken(w) == sdo = "idle" /\ Lacks(c2s, FlashOps) /\ Begun(w)

\* The one order of S is still in the channel, in front of the polls.
Pending(S) ==
  /\ work = "none" /\ ~Lacks(c2s, S) /\ Single(c2s, S) /\ Ahead(c2s, S, StatusReads)
  /\ Lacks(s2c, Statuses)

\* An operation that was ordered once.
Ordered(S, w) == (Pending(S) /\ sdo = "idle" /\ Lacks(c2s, FlashOps \ S)) \/ Taken(w)

\* The blocks up to blk are in the flash.
Stored == flash = "erased" /\ 1..blk \subseteq written

\* A download is initiated: whatever was asked before is in front of it.
Initiating ==
  /\ work = "none" /\ Lacks(c2s, FlashOps \ Inits)
  /\ Ahead(c2s, Others, Inits) /\ Ahead(s2c, Statuses, ProgAcks)
  /\ sdo = "download" => Lacks(c2s, Others)
  /\ Lacks(s2c, ProgAcks) \/ sdo = "download"

\* The node waits for the block; nothing asked before is left.
Opened == work = "none" /\ sdo = "download" /\ Lacks(s2c, Statuses) /\ Lacks(c2s, Requests \ Inits)

\* The block was sent: it is in front of the polls, or the node has taken it.
ThisBlock == {Data(blk + 1)}
InFlight ==
  /\ Pending(ThisBlock) /\ sdo = "download" /\ Lacks(c2s, FlashOps \ (Inits \cup ThisBlock))
  /\ Ahead(c2s, Inits, ThisBlock) /\ Ahead(c2s, ThisBlock, Others)
Programmed == Taken("program") /\ Ahead(s2c, ProgAcks, Statuses) /\ (work = "program" => target = blk + 1)
Sent == InFlight \/ Programmed

\* Polls of the last block are over before the application answers.
PollsOver ==
  /\ Ahead(c2s, StatusReads, Starting)
  /\ mode = "app" => Lacks(c2s, StatusReads) /\ Ahead(s2c, Statuses, InApp)

\* Before the erase is ordered, and once it is; block by block; the application is tried
\* out; back to the bootloader; the signature is ordered; the end.
EraseRight ==
  /\ pc \in UpToClear /\ ~(pc = "clear" /\ waiting) => AtRest
  /\ pc \in BeforeErase => Lacks(s2c, ProgAcks)
  /\ pc = "waitClear" \/ (pc = "clear" /\ waiting) => Ordered(Clears, "erase")
BlocksRight ==
  /\ pc = "download" => Stored /\ Initiating
  /\ pc = "data" /\ ~waiting => Stored /\ Opened
  /\ pc = "waitBlock" \/ (pc = "data" /\ waiting) => Stored /\ Sent
SignatureRight ==
  /\ pc \in Trying => Complete /\ AtRest /\ PollsOver
  /\ pc \in Returning \cup {"newVersion"} \/ (pc = "sign" /\ ~waiting) => Complete /\ AtRest /\ NoPolls
  /\ pc = "waitSign" \/ (pc = "sign" /\ waiting) => Complete /\ Ordered(SignOrders, "sign")
  /\ pc \in {"finalStart", "finalCheck", "done"} => Complete /\ AtRest /\ signed

\* The modes at the end.
LastPhases ==
  /\ pc \in Returning => Ahead(s2c, InApp, InBoot)
  /\ pc \in Signing => Lacks(s2c, InApp)
  /\ pc \in {"finalStart", "finalCheck"} =>
       \/ mode = "boot" /\ Lacks(s2c, InApp) /\ Ahead(c2s, Entering, Starting)
       \/ mode = "app" /\ Lacks(c2s, Entering)
  /\ pc = "done" => mode = "app" /\ Lacks(c2s, Entering)

RightInv == RequestsArrive => EraseRight /\ BlocksRight /\ SignatureRight /\ LastPhases

\* One of a kind in a queue: taken, it is gone; added to a queue without one, it is there.
LEMMA OneOfAKind ==
  ASSUME NEW X, NEW q \in Seq(X), NEW S
  PROVE  /\ q # <<>> /\ Head(q) \notin S /\ Lacks(Tail(q), S) => Lacks(q, S)
         /\ q # <<>> /\ Single(q, S) => Single(Tail(q), S)
         /\ q # <<>> /\ Single(q, S) /\ Head(q) \in S => Lacks(Tail(q), S)
         /\ \A e \in X : /\ Lacks(q, S) => Single(Append(q, e), S)
                         /\ Single(q, S) /\ e \notin S => Single(Append(q, e), S)
                         /\ Lacks(Append(q, e), S) => Lacks(q, S) /\ e \notin S
<1>1. ASSUME q # <<>>
      PROVE  /\ Len(q) \in Nat /\ Len(q) >= 1 /\ Head(q) = q[1] /\ Len(Tail(q)) = Len(q) - 1
             /\ \A i \in 1..Len(Tail(q)) : Tail(q)[i] = q[i + 1] /\ i + 1 \in 1..Len(q)
  BY <1>1, HeadTailProperties, LenProperties, EmptySeq
<1>2. ASSUME q # <<>>, Head(q) \notin S, Lacks(Tail(q), S) PROVE Lacks(q, S)
  <2> SUFFICES ASSUME NEW i \in 1..Len(q), q[i] \in S PROVE FALSE
    BY DEF Lacks
  <2>1. i # 1 /\ i - 1 \in 1..Len(Tail(q)) /\ Tail(q)[i - 1] = q[(i - 1) + 1]
    BY <1>1, <1>2
  <2>2. (i - 1) + 1 = i
    BY <1>1, <1>2
  <2> QED
    BY <1>2, <2>1, <2>2 DEF Lacks
<1>3. ASSUME q # <<>>, Single(q, S) PROVE Single(Tail(q), S)
  <2> SUFFICES ASSUME NEW i \in 1..Len(Tail(q)), NEW j \in 1..Len(Tail(q)), Tail(q)[i] \in S, Tail(q)[j] \in S
               PROVE  i = j
    BY DEF Single
  <2>1. i + 1 = j + 1
    BY <1>1, <1>3 DEF Single
  <2> QED
    BY <1>1, <1>3, <2>1
<1>4. ASSUME q # <<>>, Single(q, S), Head(q) \in S PROVE Lacks(Tail(q), S)
  <2> SUFFICES ASSUME NEW i \in 1..Len(Tail(q)), Tail(q)[i] \in S PROVE FALSE
    BY DEF Lacks
  <2>1. 1 \in 1..Len(q) /\ q[1] \in S /\ i + 1 \in 1..Len(q) /\ q[i + 1] \in S
    BY <1>1, <1>4
  <2>2. 1 = i + 1
    BY <1>4, <2>1 DEF Single
  <2> QED
    BY <1>1, <1>4, <2>2
<1>5. ASSUME NEW e \in X
      PROVE  /\ Lacks(q, S) => Single(Append(q, e), S)
             /\ Single(q, S) /\ e \notin S => Single(Append(q, e), S)
             /\ Lacks(Append(q, e), S) => Lacks(q, S) /\ e \notin S
  <2> DEFINE a == Append(q, e)
  <2>1. /\ Len(q) \in Nat /\ Len(a) = Len(q) + 1 /\ a[Len(q) + 1] = e
        /\ \A i \in 1..Len(q) : a[i] = q[i]
    BY AppendProperties, LenProperties
  <2> HIDE DEF a
  <2>2. \A i \in 1..Len(a) : (i \in 1..Len(q) /\ a[i] = q[i]) \/ (i = Len(q) + 1 /\ a[i] = e)
    BY <2>1
  <2>3. /\ \A i \in 1..Len(q) : i \in 1..Len(a)
        /\ Len(q) + 1 \in 1..Len(a)
    BY <2>1
  <2>4. Lacks(q, S) => Single(a, S)
    BY <2>2 DEF Lacks, Single
  <2>5. Single(q, S) /\ e \notin S => Single(a, S)
    BY <2>2 DEF Single
  <2>6. Lacks(a, S) => Lacks(q, S) /\ e \notin S
    BY <2>1, <2>3 DEF Lacks
  <2> QED
    BY <2>4, <2>5, <2>6 DEF a
<1> QED
  BY <1>2, <1>3, <1>4, <1>5

\* What lacks a set lacks its parts, and so for the order in a queue.
LEMMA Parts ==
  ASSUME NEW q, NEW S, NEW T, NEW R \in SUBSET S
  PROVE  (Lacks(q, S) => Lacks(q, R)) /\ (Ahead(q, S, T) => Ahead(q, R, T)) /\ (Ahead(q, T, S) => Ahead(q, T, R))
  BY DEF Lacks, Ahead

\* The kinds of requests and answers, and which a request is of.
LEMMA Kinds ==
  /\ Inits \in SUBSET FlashOps /\ Datas \in SUBSET FlashOps /\ Orders \in SUBSET FlashOps
  /\ Clears \in SUBSET FlashOps /\ SignOrders \in SUBSET FlashOps
  /\ FlashOps \in SUBSET Requests /\ Others \in SUBSET Requests
  /\ \A m \in Requests : /\ m \in Inits <=> m.op = "initiate"
                         /\ m \in Datas <=> m.op = "data"
                         /\ m \in Clears <=> m.op = "control" /\ m.code = "clear"
                         /\ m \in SignOrders <=> m.op = "control" /\ m.code = "sign"
                         /\ m \in Starting <=> m.op = "control" /\ m.code = "startApp"
                         /\ m \in Entering <=> m.op = "control" /\ m.code = "enterBoot"
                         /\ m \in StatusReads <=> m.op = "read" /\ m.obj = "status"
                         /\ m \in Others <=> m.op \notin {"initiate", "data"}
                         /\ m \in Datas => m = Data(m.blk)
  /\ OkStatuses \in SUBSET Statuses /\ Statuses \in SUBSET Values /\ InApp \in SUBSET Values
  /\ InBoot \in SUBSET Values /\ ProgAcks \in SUBSET Responses
<1>1. \A m \in Requests : /\ m.op = "control" => m = Control(m.code)
                          /\ m.op = "read" => m = Read(m.obj)
                          /\ m.op \in {"sdoAbort", "read", "control", "initiate", "data"}
  BY Fields
<1>2. Control("clear") \in Requests /\ Control("sign") \in Requests
  BY Messages
<1>3. FlashOps \in SUBSET Requests
  BY <1>2 DEF FlashOps, Inits, Datas, Orders, Clears, SignOrders
<1>4. ASSUME NEW m \in Requests
      PROVE  /\ m \in Inits <=> m.op = "initiate"
             /\ m \in Datas <=> m.op = "data"
             /\ m \in Clears <=> m.op = "control" /\ m.code = "clear"
             /\ m \in SignOrders <=> m.op = "control" /\ m.code = "sign"
             /\ m \in Starting <=> m.op = "control" /\ m.code = "startApp"
             /\ m \in Entering <=> m.op = "control" /\ m.code = "enterBoot"
             /\ m \in StatusReads <=> m.op = "read" /\ m.obj = "status"
             /\ m \in Others <=> m.op \notin {"initiate", "data"}
  BY <1>1 DEF Inits, Datas, Clears, SignOrders, Starting, Entering, StatusReads, Others, Control, Read
<1>5. ASSUME NEW m \in Requests, m.op = "data" PROVE m = Data(m.blk)
  BY <1>5 DEF Requests, Reset, Read, Control, Initiate, Data
<1>6. "program" \in Objects
  BY DEF Objects
<1> QED
  BY <1>3, <1>4, <1>5, <1>6, SmokeSets, Messages DEF FlashOps, Orders, Others, OkStatuses, ProgAcks

-----------------------------------------------------------------------------
(* What the node does with the requests of a flash                         *)

\* Answers go missing.
Loses == UNCHANGED <<c2s, node>> /\ Rest(s2c', s2c)

\* A flash operation ends.
Finishes ==
  /\ UNCHANGED <<c2s, s2c, mode, sdo, target>> /\ work # "none" /\ work' = "none"
  /\ \/ status' = "error" /\ UNCHANGED <<flash, written, signed>>
     \/ work = "erase" /\ flash' = "erased" /\ UNCHANGED <<written, signed>>
     \/ work = "program" /\ flash = "erased" /\ written' = written \cup {target} /\ UNCHANGED <<flash, signed>>
     \/ work = "sign" /\ Complete /\ signed' = TRUE /\ UNCHANGED <<flash, written>>
     \/ work = "sign" /\ ~Complete /\ status' = "error" /\ UNCHANGED <<flash, written, signed>>

\* An answer to another request than those of a flash: a good status is one of the moment.
Tells == \E r \in Responses \ ProgAcks :
  /\ s2c' = Append(s2c, r)
  /\ r \in Statuses => Head(c2s) \in StatusReads
  /\ r \in OkStatuses => work = "none" /\ status # "error"

\* Such a request is served; a change of mode may lose the ones behind it.
Serves ==
  /\ c2s # <<>> /\ Head(c2s) \notin FlashOps
  /\ c2s' = Tail(c2s) \/ mode' # mode
  /\ \/ mode' = mode
     \/ mode = "boot" /\ mode' = "app" /\ Head(c2s) \in Starting
     \/ mode = "app" /\ mode' = "boot" /\ Head(c2s) \in Entering
  /\ sdo' \in {sdo, "idle"} /\ UNCHANGED <<work, target, status, flash, written, signed>>
  /\ s2c' = s2c \/ Tells

\* A request of a flash comes at a time when it is not carried out.
Refuses ==
  /\ c2s # <<>>
  /\ \/ Head(c2s) \in Inits \cup Orders /\ (mode = "app" \/ work # "none")
     \/ Head(c2s) \in Orders /\ sdo # "idle"
     \/ Head(c2s) \in Datas /\ sdo # "download"

\* An erase or a signature begins; a download is opened; its block is taken.
Begins ==
  /\ c2s # <<>> /\ c2s' = Tail(c2s) /\ s2c' = Append(s2c, Ack("control")) /\ sdo = "idle"
  /\ UNCHANGED <<mode, sdo, target, status>>
  /\ \/ Head(c2s) \in Clears /\ work' = "erase"
     \/ Head(c2s) \in SignOrders /\ work' = "sign" /\ UNCHANGED <<flash, written, signed>>
Opens ==
  /\ c2s # <<>> /\ c2s' = Tail(c2s) /\ Head(c2s) \in Inits /\ s2c' = Append(s2c, Ack("program"))
  /\ sdo' = "download" /\ UNCHANGED <<mode, work, target, status, flash, written, signed>>
Writes ==
  /\ c2s # <<>> /\ c2s' = Tail(c2s) /\ Head(c2s) \in Datas /\ s2c' = Append(s2c, Done)
  /\ sdo = "download" /\ sdo' = "idle" /\ work' = "program" /\ target' = Head(c2s).blk
  /\ UNCHANGED <<mode, status, flash, written, signed>>

Works == Loses \/ Finishes \/ Serves \/ Refuses \/ Begins \/ Opens \/ Writes

\* As long as requests arrive, these are the node's steps.
LEMMA NodeWorks ==
  ASSUME Typed, RequestsArrive,
         NodeNext \/ NodeCold \/ FlashFault \/ PowerCycle \/ LoseRequest \/ LoseResponse \/ LoseSegments
  PROVE  Works
<1>1. /\ c2s \in Seq(Requests) /\ s2c \in Seq(Responses) /\ mode \in {"boot", "app"} /\ sdo \in {"idle", "download"}
      /\ work \in {"none", "erase", "program", "sign"} /\ status \in {"ok", "error"}
  BY DEF Typed, TypeOK
<1>2. c2s # <<>> => Head(c2s) \in Requests
  BY <1>1, TailRests
<1>3. /\ "control" \in Objects /\ "program" \in Objects /\ \A m \in Requests : m.obj \in Objects
      /\ \A m \in Requests : m.op = "read" => m.obj \in Readable
  BY Fields DEF Objects
<1>4. ASSUME c2s # <<>>, NEW o \in Objects, NEW r \in {Abort(o, FALSE), Abort(o, TRUE), Ack("control")}, Reply(r)
      PROVE  Tells
  <2>1. r \in Responses /\ r.kind # "value"
    <3>1. Abort(o, FALSE) \in Responses /\ Abort(o, TRUE) \in Responses /\ Ack("control") \in Responses
      BY <1>3, Messages
    <3>2. Abort(o, FALSE).kind # "value" /\ Abort(o, TRUE).kind # "value" /\ Ack("control").kind # "value"
      BY DEF Abort, Ack
    <3> QED
      BY <3>1, <3>2
  <2>2. r \notin ProgAcks
    BY DEF ProgAcks, Ack, Abort
  <2>3. r \notin Statuses
    BY <2>1 DEF Statuses, Values
  <2> QED
    BY <1>4, <2>1, <2>2, <2>3, Kinds DEF Tells, Reply
<1>5. CASE NodeReset
  <2>1. Head(c2s) \notin FlashOps
    BY <1>2, <1>5, Kinds DEF NodeReset, Next1, FlashOps, Orders
  <2> QED
    BY <1>5, <2>1 DEF NodeReset, Next1, Serves, Works, Silent, area
<1>6. CASE NodeOutOfPlace
  <2>1. CASE Head(c2s) \in FlashOps
    BY <1>2, <1>6, <2>1, Kinds DEF NodeOutOfPlace, Next1, FlashOps, Orders, Refuses, Works
  <2>2. CASE Head(c2s) \notin FlashOps
    <3>1. Tells
      BY <1>2, <1>3, <1>4, <1>6 DEF NodeOutOfPlace, Next1
    <3> QED
      BY <1>6, <2>2, <3>1 DEF NodeOutOfPlace, Next1, Serves, Works, area
  <2> QED
    BY <2>1, <2>2
<1>7. CASE NodeRead
  <2> DEFINE o == Head(c2s).obj
  <2>1. /\ Next1 /\ Head(c2s).op = "read" /\ o \in Readable /\ UNCHANGED <<client, node, given, mishaps>>
    BY <1>2, <1>3, <1>7 DEF NodeRead, Next1
  <2>2. Head(c2s) \notin FlashOps
    BY <1>2, <2>1, Kinds DEF Next1, FlashOps, Orders
  <2>3. s2c' = s2c \/ Tells
    <3>1. \/ Reply(Abort(o, FALSE)) \/ Silent
          \/ \E v \in {"boot", "blupdate", "app", "ok", "busy", "error", "match", "other", "none"} :
               /\ Reply(Value(o, v))
               /\ o = "status" => v = (IF work # "none" THEN "busy" ELSE status)
      <4>1. /\ DevType \in {"boot", "blupdate", "app"}
            /\ \A x \in {"vendor", "product"} : ident[x] \in {"match", "other"}
        BY DEF DevType, Typed, TypeOK
      <4>2. \/ Reply(Abort(o, FALSE)) \/ Silent
            \/ o = "devType" /\ Reply(Value(o, DevType))
            \/ o = "status" /\ Reply(Value(o, IF work # "none" THEN "busy" ELSE status))
            \/ o \in {"vendor", "product"} /\ Reply(Value(o, ident[o]))
            \/ o = "version" /\ Reply(Value(o, "none"))
        BY <1>7, <2>1 DEF NodeRead, Readable
      <4> HIDE DEF o
      <4> QED
        BY <1>1, <4>1, <4>2
    <3>2. CASE Reply(Abort(o, FALSE))
      BY <1>4, <2>1, <3>2 DEF Objects, Next1
    <3>3. CASE \E v \in {"boot", "blupdate", "app", "ok", "busy", "error", "match", "other", "none"} :
                 /\ Reply(Value(o, v))
                 /\ o = "status" => v = (IF work # "none" THEN "busy" ELSE status)
      <4>1. PICK v \in {"boot", "blupdate", "app", "ok", "busy", "error", "match", "other", "none"} :
                 /\ Reply(Value(o, v))
                 /\ o = "status" => v = (IF work # "none" THEN "busy" ELSE status)
        BY <3>3
      <4> DEFINE r == Value(o, v)
      <4>2. r \in Responses /\ r.kind = "value" /\ r.obj = o /\ r.val = v
        BY <2>1, Messages DEF Objects, Value
      <4>3. r \notin ProgAcks
        BY <4>2 DEF ProgAcks, Ack
      <4>4. r \in Statuses => Head(c2s) \in StatusReads /\ o = "status"
        BY <1>2, <2>1, <4>2, Kinds DEF Statuses, Next1
      <4>5. r \in OkStatuses => r \in Statuses /\ v = "ok"
        BY <4>2, Kinds DEF OkStatuses
      <4> HIDE DEF r, o
      <4>6. r \in OkStatuses => work = "none" /\ status # "error"
        BY <4>1, <4>4, <4>5
      <4>7. s2c' = Append(s2c, r)
        BY <4>1 DEF Reply, r
      <4> QED
        BY <4>2, <4>3, <4>4, <4>6, <4>7 DEF Tells
    <3> QED
      BY <3>1, <3>2, <3>3 DEF Silent
  <2> QED
    BY <2>1, <2>2, <2>3 DEF Next1, Serves, Works, node, area
<1>8. CASE NodeSwitch
  <2>1. /\ c2s # <<>> /\ Head(c2s).op = "control" /\ UNCHANGED <<sdo, work, target, status, flash, written, signed>>
        /\ Reply(Ack("control")) \/ Silent
        /\ \/ Head(c2s).code = "enterBoot" /\ mode = "app" /\ mode' = "boot"
           \/ Head(c2s).code = "startApp" /\ mode = "boot" /\ mode' = "app"
    BY <1>8 DEF NodeSwitch, SwitchTo
  <2>2. Head(c2s) \notin FlashOps
    BY <1>2, <2>1, Kinds DEF FlashOps, Orders
  <2>3. s2c' = s2c \/ Tells
    BY <1>3, <1>4, <2>1 DEF Silent
  <2>4. \/ mode = "boot" /\ mode' = "app" /\ Head(c2s) \in Starting
        \/ mode = "app" /\ mode' = "boot" /\ Head(c2s) \in Entering
    BY <1>2, <2>1, Kinds
  <2> QED
    BY <2>1, <2>2, <2>3, <2>4 DEF Serves, Works
<1>9. CASE NodeStay \/ NodeCold
  <2>1. /\ Next1 /\ Head(c2s).op = "control" /\ Head(c2s).code \in {"enterBoot", "startApp"} /\ UNCHANGED node
        /\ Reply(Ack("control")) \/ Reply(Abort("control", TRUE))
    <3>1. CASE NodeStay
      BY <3>1 DEF NodeStay
    <3>2. CASE NodeCold
      BY <3>2, Zenon DEF NodeCold
    <3> QED
      BY <1>9, <3>1, <3>2
  <2>2. Head(c2s) \notin FlashOps
    BY <1>2, <2>1, Kinds DEF FlashOps, Orders, Next1
  <2>3. Tells
    BY <1>3, <1>4, <2>1 DEF Next1
  <2> QED
    BY <2>1, <2>2, <2>3 DEF Serves, Works, Next1, node, area
<1>10. CASE NodeClear
  BY <1>2, <1>10, Kinds DEF NodeClear, Begins, Works, Next1, Reply
<1>11. CASE NodeSign
  BY <1>2, <1>11, Kinds DEF NodeSign, Begins, Works, Next1, Reply, area
<1>12. CASE NodeInitiate
  BY <1>2, <1>12, Kinds DEF NodeInitiate, Opens, Works, Next1, Reply, area
<1>13. CASE NodeData
  BY <1>2, <1>13, Kinds DEF NodeData, Writes, Works, Next1, Reply, area
<1>14. CASE NodeIgnore
  BY <1>2, <1>14, Kinds DEF NodeIgnore, Refuses, Works, Next1
<1>15. CASE NodeRefuse
  <2>1. CASE Head(c2s) \in FlashOps
    <3>1. c2s # <<>> /\ Head(c2s).op # "data" /\ (mode = "app" \/ work # "none")
      BY <1>15 DEF NodeRefuse, Next1
    <3>2. Head(c2s) \in Inits \cup Orders
      BY <1>2, <2>1, <3>1, Kinds DEF FlashOps
    <3> QED
      BY <3>1, <3>2 DEF Refuses, Works
  <2>2. CASE Head(c2s) \notin FlashOps
    <3>1. Tells
      BY <1>2, <1>3, <1>4, <1>15 DEF NodeRefuse, Next1
    <3> QED
      BY <1>15, <2>2, <3>1 DEF NodeRefuse, Next1, Serves, Works, node, area
  <2> QED
    BY <2>1, <2>2
<1>16. CASE FinishWork
  <2>1. /\ UNCHANGED <<c2s, s2c, mode, sdo, target>> /\ work # "none" /\ work' = "none"
        /\ \/ work = "erase" /\ flash' = "erased" /\ UNCHANGED <<written, signed>>
           \/ /\ work = "sign" /\ signed' = (signed \/ Complete) /\ UNCHANGED <<flash, written>>
              /\ status' = IF Complete THEN "ok" ELSE "error"
           \/ /\ work = "program" /\ UNCHANGED <<flash, signed>>
              /\ \/ flash = "erased" /\ written' = written \cup {target}
                 \/ status' = "error" /\ UNCHANGED written
    BY <1>1, <1>16 DEF FinishWork
  <2>2. Complete /\ signed' = (signed \/ Complete) => signed' = TRUE
    BY Zenon
  <2>3. ~Complete /\ signed' = (signed \/ Complete) => signed' = signed
    <3>1. signed \in BOOLEAN
      BY DEF Typed, TypeOK
    <3> QED
      BY <3>1, Zenon
  <2>4. ~Complete => (IF Complete THEN "ok" ELSE "error") = "error"
    OBVIOUS
  <2> QED
    BY <2>1, <2>2, <2>3, <2>4 DEF Finishes, Works
<1>17. CASE FlashFault
  BY <1>17, Zenon DEF FlashFault, Finishes, Works, area
<1>18. CASE LoseResponse
  <2>1. Rest(Tail(s2c), s2c)
    BY <1>1, <1>18, TailRests DEF LoseResponse
  <2> QED
    BY <1>18, <2>1 DEF LoseResponse, Loses, Works
<1>19. ~PowerCycle /\ ~LoseRequest /\ ~LoseSegments
  BY Zenon DEF PowerCycle, LoseRequest, LoseSegments, Mishap, RequestsArrive
<1> QED
  BY <1>5, <1>6, <1>7, <1>8, <1>9, <1>10, <1>11, <1>12, <1>13, <1>14, <1>15, <1>16, <1>17, <1>18, <1>19 DEF NodeNext

-----------------------------------------------------------------------------
(* What the tool goes by                                                   *)

\* It asks; for an erase, a signature and with a block it does so once.
Asks == Sends /\ waiting' = TRUE /\ blk' = blk /\ (pc \in {"clear", "sign", "data"} => ~waiting)

\* It goes on, stays or gives up: past a poll of the flash on a good status, to the block on
\* an acknowledged initiate, past an order or a block that was sent.
Proceeds ==
  /\ Moves
  /\ pc' # pc => waiting' = FALSE
  /\ blk' = IF pc = "waitBlock" /\ pc' \in {"download", "firstStart"} THEN blk + 1 ELSE blk
  /\ pc \in {"clear", "sign", "data"} => IF pc' = pc THEN waiting' = waiting ELSE waiting \/ pc' = "failed"
  /\ pc = "download" => pc' \in {pc, "failed"} \/ (s2c # <<>> /\ Head(s2c) \in ProgAcks)
  /\ pc \in StatusWaits => pc' \in {pc, "failed"} \/ (s2c # <<>> /\ Head(s2c) \in OkStatuses)

\* What an outcome does at the steps of a flash.
LEMMA ConcludesHow ==
  ASSUME Typed, NEW o, NEW v, Conclude(o, v)
  PROVE  /\ waiting' = FALSE
         /\ blk' = IF pc = "waitBlock" /\ pc' \in {"download", "firstStart"} THEN blk + 1 ELSE blk
         /\ pc \in {"clear", "sign", "data"} => pc' \in {NextStep, "failed"}
         /\ pc = "download" => pc' = "failed" \/ o = "ok"
         /\ pc \in StatusWaits => pc' \in {pc, "failed"} \/ (o = "ok" /\ v = "ok")
<1> USE DEF Active, Reading, Polling, BootWaits, AppWaits, StatusWaits, Infos, Queries, Controls, Commands
<1>1. CASE PollOutcome(o, v)
  <2>1. /\ pc \in Polling
        /\ (o = "ok" /\ Passes(v) /\ Goto(NextStep)) \/ PollAgain \/ Goto("failed")
    BY <1>1 DEF PollOutcome, Advance, Fail
  <2>2. CASE PollAgain
    BY <2>1, <2>2 DEF PollAgain, Fail, Goto
  <2>3. CASE Goto("failed")
    BY <2>1, <2>3 DEF Goto
  <2>4. CASE o = "ok" /\ Passes(v) /\ Goto(NextStep)
    BY <2>1, <2>4 DEF Goto, Passes
  <2> QED
    BY <2>1, <2>2, <2>3, <2>4
<1>2. CASE QueryOutcome(o, v) \/ InfoOutcome
  BY <1>2 DEF QueryOutcome, InfoOutcome, Advance, Fail, Goto
<1>3. CASE ControlOutcome(o)
  BY <1>3 DEF ControlOutcome, Advance, Fail, Goto
<1>4. CASE CommandOutcome(o) \/ DownloadOutcome(o)
  BY <1>4 DEF CommandOutcome, DownloadOutcome, Advance, Fail, Goto
<1> QED
  BY <1>1, <1>2, <1>3, <1>4 DEF Conclude

\* A tool that is not run again asks or proceeds.
LEMMA ToolAsksOrProceeds ==
  ASSUME Typed, RequestsArrive, ToolNext \/ Disconnect \/ FileError \/ Rerun
  PROVE  Asks \/ Proceeds
<1>1. /\ Sends \/ Moves \/ Reruns
      /\ s2c \in Seq(Responses)
  BY ToolSteps DEF Typed, TypeOK
<1>2. ~Reruns /\ ~Rerun
  BY Zenon DEF Reruns, Rerun, Mishap, RequestsArrive
<1>3. s2c # <<>> => Head(s2c) \in Responses
  BY <1>1, TailRests
<1>4. CASE Issue \/ Resend
  <2>1. /\ pc' = pc /\ waiting' = TRUE /\ blk' = blk
        /\ c2s' = Append(c2s, Request)
        /\ pc \in {"clear", "sign", "data"} => ~waiting
    BY <1>4 DEF Issue, Resend, Repeatable, Reading, Polling, BootWaits, AppWaits, StatusWaits, Infos, Queries
  <2>2. ~Moves \/ Sends
    <3>1. Len(c2s') = Len(c2s) + 1 /\ Len(c2s) \in Nat
      <4>1. c2s \in Seq(Requests)
        BY DEF Typed, TypeOK
      <4>2. pc \in Active
        BY <1>4 DEF Issue, Resend, Repeatable, Active, Typed, TypeOK
      <4>3. Request \in Requests
        BY <4>2, RequestIs
      <4> QED
        BY <2>1, <4>1, <4>3, AppendProperties, LenProperties
    <3>2. c2s' # c2s
      BY <3>1
    <3> QED
      BY <3>2 DEF Moves
  <2> QED
    BY <1>1, <1>2, <2>1, <2>2 DEF Asks
<1>5. ASSUME Moves \/ Sends, c2s' = c2s PROVE Moves
  <2>1. CASE Sends
    <3>1. c2s \in Seq(Requests) /\ Request \in Requests /\ c2s' = Append(c2s, Request)
      BY <2>1, RequestIs DEF Sends, Typed, TypeOK
    <3>2. Len(c2s') = Len(c2s) + 1 /\ Len(c2s) \in Nat
      BY <3>1, AppendProperties, LenProperties
    <3> QED
      BY <1>5, <3>2
  <2> QED
    BY <1>5, <2>1
<1>6. CASE Receive
  <2> DEFINE m == Head(s2c)
  <2>1. s2c # <<>> /\ waiting /\ Accepts(m) /\ c2s' = c2s /\ m \in Responses
    BY <1>3, <1>6 DEF Receive
  <2>2. PICK o, v :
          /\ Conclude(o, v)
          /\ o = "ok" => m.kind # "abort" /\ (m.kind = "value" => v = m.val)
    <3>1. CASE m.kind = "value"
      BY <1>6, <3>1 DEF Receive
    <3>2. CASE m.kind = "abort"
      BY <1>6, <3>2 DEF Receive
    <3>3. CASE m.kind \notin {"value", "abort"}
      BY <1>6, <3>3 DEF Receive
    <3> QED
      BY <3>1, <3>2, <3>3
  <2>3. pc = "download" /\ o = "ok" => m \in ProgAcks
    <3> SUFFICES ASSUME pc = "download", o = "ok" PROVE m \in ProgAcks
      OBVIOUS
    <3>1. m.obj = "program" /\ m.kind = "ack"
      BY <2>1, <2>2 DEF Accepts, Object, Reading, Polling, BootWaits, AppWaits, StatusWaits, Infos, Queries, Controls, Commands
    <3>2. m = Ack("program")
      BY <2>1, <3>1 DEF Responses, Done, Ack, Abort, Value
    <3> QED
      BY <3>2 DEF ProgAcks
  <2>4. pc \in StatusWaits /\ o = "ok" /\ v = "ok" => m \in OkStatuses
    <3> SUFFICES ASSUME pc \in StatusWaits, o = "ok", v = "ok" PROVE m \in OkStatuses
      OBVIOUS
    <3>1. m.obj = "status" /\ m.kind = "value"
      BY <2>1, <2>2 DEF Accepts, Object, Reading, Polling, BootWaits, AppWaits, StatusWaits, Infos, Queries, Controls, Commands
    <3> QED
      BY <2>1, <2>2, <3>1 DEF OkStatuses, Statuses, Values
  <2>5. Moves
    BY <1>1, <1>2, <1>5, <2>1
  <2> HIDE DEF m
  <2>6. /\ waiting' = FALSE
        /\ blk' = IF pc = "waitBlock" /\ pc' \in {"download", "firstStart"} THEN blk + 1 ELSE blk
        /\ pc \in {"clear", "sign", "data"} => pc' \in {NextStep, "failed"}
        /\ pc = "download" => pc' = "failed" \/ o = "ok"
        /\ pc \in StatusWaits => pc' \in {pc, "failed"} \/ (o = "ok" /\ v = "ok")
    BY <2>2, ConcludesHow
  <2>7. pc \in {"clear", "sign", "data"} => pc' # pc
    BY <2>6, NextSteps
  <2> QED
    BY <2>1, <2>3, <2>4, <2>5, <2>6, <2>7 DEF Proceeds, m
<1>7. CASE SkipFrame
  <2>1. UNCHANGED <<pc, waiting, blk>> /\ c2s' = c2s
    BY <1>7 DEF SkipFrame, client
  <2>2. Moves
    BY <1>1, <1>2, <1>5, <2>1
  <2> QED
    BY <2>1, <2>2 DEF Proceeds
<1>8. CASE Timeout \/ Disconnect
  <2>1. waiting /\ c2s' = c2s /\ \E o \in {"timeout", "disconnected"} : Conclude(o, "none")
    BY <1>8 DEF Timeout, Disconnect
  <2>2. PICK o \in {"timeout", "disconnected"} : Conclude(o, "none")
    BY <2>1
  <2>3. Moves
    BY <1>1, <1>2, <1>5, <2>1
  <2>4. /\ waiting' = FALSE
        /\ blk' = IF pc = "waitBlock" /\ pc' \in {"download", "firstStart"} THEN blk + 1 ELSE blk
        /\ pc \in {"clear", "sign", "data"} => pc' \in {NextStep, "failed"}
        /\ pc = "download" => pc' = "failed"
        /\ pc \in StatusWaits => pc' \in {pc, "failed"}
    BY <2>2, ConcludesHow
  <2>5. pc \in {"clear", "sign", "data"} => pc' # pc
    BY <2>4, NextSteps
  <2> QED
    BY <2>1, <2>3, <2>4, <2>5 DEF Proceeds
<1>9. CASE FileError
  <2>1. pc = "download" /\ pc' = "failed" /\ waiting' = FALSE /\ blk' = blk /\ c2s' = c2s
    BY <1>9 DEF FileError, Fail, Goto
  <2>2. Moves
    BY <1>1, <1>2, <1>5, <2>1
  <2> QED
    BY <2>1, <2>2 DEF Proceeds, StatusWaits
<1> QED
  BY <1>2, <1>4, <1>6, <1>7, <1>8, <1>9 DEF ToolNext

\* A step of the node as the tool sees it.
NodeStep ==
  /\ Works /\ Rest(c2s', c2s) /\ c2s' \in Seq(Requests) /\ s2c' \in Seq(Responses)
  /\ UNCHANGED <<client, given>>

\* The kinds of messages are the same in every state.
LEMMA KindsStay ==
  /\ Clears' = Clears /\ SignOrders' = SignOrders /\ FlashOps' = FlashOps /\ StatusReads' = StatusReads
  /\ Statuses' = Statuses /\ OkStatuses' = OkStatuses /\ ProgAcks' = ProgAcks /\ Inits' = Inits
  /\ Others' = Others /\ Starting' = Starting /\ Entering' = Entering /\ Requests' = Requests
  BY DEF Clears, SignOrders, FlashOps, StatusReads, Statuses, OkStatuses, ProgAcks, Inits, Others,
         Starting, Entering, Requests, Datas, Orders, Values, Responses

\* A flash request that is refused, begun, opened or written is in front.
LEMMA Fronts ==
  ASSUME Refuses \/ Begins \/ Opens \/ Writes
  PROVE  c2s # <<>> /\ Head(c2s) \in FlashOps
  BY DEF Refuses, Begins, Opens, Writes, FlashOps, Orders

\* What an answer to another request leaves of the order of the answers.
LEMMA ServesKeeps ==
  ASSUME Typed, Serves, s2c' \in Seq(Responses), NEW T
  PROVE  /\ Lacks(s2c, ProgAcks) => Lacks(s2c', ProgAcks)
         /\ Ahead(s2c, ProgAcks, T) => Ahead(s2c', ProgAcks, T)
         /\ Lacks(s2c, Statuses) /\ Head(c2s) \notin StatusReads => Lacks(s2c', Statuses)
         /\ Ahead(s2c, Statuses, T) /\ Head(c2s) \notin StatusReads => Ahead(s2c', Statuses, T)
         /\ Lacks(s2c, OkStatuses) /\ (work # "none" \/ status = "error") => Lacks(s2c', OkStatuses)
<1>1. s2c \in Seq(Responses)
  BY DEF Typed, TypeOK
<1>2. CASE s2c' = s2c
  BY <1>2
<1>3. CASE Tells
  <2>1. PICK r \in Responses \ ProgAcks :
          /\ s2c' = Append(s2c, r)
          /\ r \in Statuses => Head(c2s) \in StatusReads
          /\ r \in OkStatuses => work = "none" /\ status # "error"
    BY <1>3 DEF Tells
  <2>2. /\ Lacks(s2c, ProgAcks) => Lacks(s2c', ProgAcks)
        /\ Ahead(s2c, ProgAcks, T) => Ahead(s2c', ProgAcks, T)
        /\ r \notin Statuses => /\ Lacks(s2c, Statuses) => Lacks(s2c', Statuses)
                                /\ Ahead(s2c, Statuses, T) => Ahead(s2c', Statuses, T)
        /\ r \notin OkStatuses => (Lacks(s2c, OkStatuses) => Lacks(s2c', OkStatuses))
    BY <1>1, <2>1, AppendKeeps
  <2> QED
    BY <2>1, <2>2
<1> QED
  BY <1>2, <1>3 DEF Serves

\* Missing answers and the order of the rest.
LEMMA LosesKeeps ==
  ASSUME Typed, Loses, s2c' \in Seq(Responses), NEW S, NEW T
  PROVE  (Lacks(s2c, S) => Lacks(s2c', S)) /\ (Ahead(s2c, S, T) => Ahead(s2c', S, T))
  BY RestKeeps DEF Typed, TypeOK, Loses

\* A node at rest that is asked nothing of a flash stays as it is.
LEMMA NodeRests ==
  ASSUME Typed, NodeStep, AtRest
  PROVE  /\ AtRest' /\ UNCHANGED <<flash, written, signed>>
         /\ Lacks(s2c, ProgAcks) => Lacks(s2c', ProgAcks)
         /\ NoPolls => NoPolls'
         /\ Loses \/ Serves
<1>1. /\ c2s \in Seq(Requests) /\ Lacks(c2s, FlashOps) /\ work = "none" /\ sdo = "idle"
      /\ s2c' \in Seq(Responses)
  BY DEF Typed, TypeOK, AtRest, NodeStep
<1>2. Lacks(c2s', FlashOps) /\ (Lacks(c2s, StatusReads) => Lacks(c2s', StatusReads))
  BY <1>1, RequestsKept DEF NodeStep
<1>3. c2s # <<>> => Head(c2s) \notin FlashOps /\ (Lacks(c2s, StatusReads) => Head(c2s) \notin StatusReads)
  BY <1>1, HeadOf
<1>4. Loses \/ Serves
  BY <1>1, <1>3, Fronts DEF NodeStep, Works, Finishes
<1>5. CASE Loses
  <2>1. UNCHANGED <<sdo, work, flash, written, signed>> /\ c2s' = c2s
    BY <1>5 DEF Loses, node, area
  <2>2. /\ Lacks(s2c, ProgAcks) => Lacks(s2c', ProgAcks)
        /\ Lacks(s2c, Statuses) => Lacks(s2c', Statuses)
    BY <1>1, <1>5, LosesKeeps
  <2> QED
    BY <1>1, <1>2, <1>4, <2>1, <2>2, KindsStay DEF AtRest, NoPolls
<1>6. CASE Serves
  <2>1. sdo' = "idle" /\ UNCHANGED <<work, flash, written, signed>> /\ c2s # <<>>
    BY <1>1, <1>6 DEF Serves
  <2>2. /\ Lacks(s2c, ProgAcks) => Lacks(s2c', ProgAcks)
        /\ Lacks(s2c, Statuses) /\ Head(c2s) \notin StatusReads => Lacks(s2c', Statuses)
    BY <1>1, <1>6, ServesKeeps
  <2> QED
    BY <1>1, <1>2, <1>3, <1>4, <2>1, <2>2, KindsStay DEF AtRest, NoPolls
<1> QED
  BY <1>4, <1>5, <1>6

\* An operation that was begun goes on, fails or has its effect.
LEMMA NodeTaken ==
  ASSUME Typed, NodeStep, NEW w \in {"erase", "program", "sign"}, Taken(w),
         w = "program" => flash = "erased" /\ (work = "program" => target = blk + 1)
  PROVE  /\ Taken(w)'
         /\ w # "erase" => flash' = flash /\ written \subseteq written'
         /\ w = "sign" => written' = written
         /\ w = "program" /\ work' = "program" => work = "program" /\ target' = target
         /\ Lacks(s2c, ProgAcks) => Lacks(s2c', ProgAcks)
         /\ Ahead(s2c, ProgAcks, Statuses) => Ahead(s2c', ProgAcks, Statuses)
<1>1. /\ c2s \in Seq(Requests) /\ Lacks(c2s, FlashOps) /\ sdo = "idle" /\ Begun(w) /\ blk' = blk
      /\ s2c' \in Seq(Responses)
  BY DEF Typed, TypeOK, Taken, NodeStep, client
<1>2. Lacks(c2s', FlashOps)
  BY <1>1, RequestsKept DEF NodeStep
<1>3. Loses \/ Serves \/ Finishes
  <2>1. c2s # <<>> => Head(c2s) \notin FlashOps
    BY <1>1, HeadOf
  <2> QED
    BY <2>1, Fronts DEF NodeStep, Works
<1>4. ASSUME UNCHANGED <<work, status, flash, written, signed>>,
             Lacks(s2c, OkStatuses) /\ (work # "none" \/ status = "error") => Lacks(s2c', OkStatuses)
      PROVE  Begun(w)'
  <2>1. Effect(w)' <=> Effect(w)
    BY <1>1, <1>4 DEF Effect
  <2> QED
    BY <1>1, <1>4, <2>1, KindsStay DEF Begun
<1>5. CASE Loses
  <2>1. UNCHANGED <<sdo, work, target, status, flash, written, signed>>
    BY <1>5 DEF Loses, node, area
  <2>2. /\ Lacks(s2c, OkStatuses) => Lacks(s2c', OkStatuses)
        /\ Lacks(s2c, ProgAcks) => Lacks(s2c', ProgAcks)
        /\ Ahead(s2c, ProgAcks, Statuses) => Ahead(s2c', ProgAcks, Statuses)
    BY <1>1, <1>5, LosesKeeps
  <2> QED
    BY <1>1, <1>2, <1>4, <2>1, <2>2, KindsStay DEF Taken
<1>6. CASE Serves
  <2>1. sdo' = "idle" /\ UNCHANGED <<work, target, status, flash, written, signed>>
    BY <1>1, <1>6 DEF Serves
  <2>2. /\ Lacks(s2c, OkStatuses) /\ (work # "none" \/ status = "error") => Lacks(s2c', OkStatuses)
        /\ Lacks(s2c, ProgAcks) => Lacks(s2c', ProgAcks)
        /\ Ahead(s2c, ProgAcks, Statuses) => Ahead(s2c', ProgAcks, Statuses)
    BY <1>1, <1>6, ServesKeeps
  <2> QED
    BY <1>1, <1>2, <1>4, <2>1, <2>2, KindsStay DEF Taken
<1>7. CASE Finishes
  <2>1. work = w /\ Lacks(s2c, OkStatuses) /\ work' = "none" /\ sdo' = "idle" /\ s2c' = s2c
    BY <1>1, <1>7 DEF Finishes, Begun
  <2>2. \/ status' = "error" /\ UNCHANGED <<flash, written, signed>>
        \/ w = "erase" /\ flash' = "erased" /\ UNCHANGED <<written, signed>>
        \/ w = "program" /\ written' = written \cup {target} /\ UNCHANGED <<flash, signed>>
        \/ w = "sign" /\ signed' = TRUE /\ UNCHANGED <<flash, written>>
    BY <1>7, <2>1 DEF Finishes
  <2>3. status' = "error" \/ Effect(w)'
    <3>1. CASE w = "sign" /\ signed' = TRUE
      BY <3>1 DEF Effect
    <3>2. CASE w = "program" /\ written' = written \cup {target}
      <4>1. target = blk' + 1 /\ target \in written'
        BY <1>1, <2>1, <3>2
      <4> QED
        BY <3>2, <4>1 DEF Effect
    <3>3. CASE w = "erase" /\ flash' = "erased"
      BY <3>3 DEF Effect
    <3> QED
      BY <2>2, <3>1, <3>2, <3>3
  <2>4. Taken(w)'
    BY <1>2, <2>1, <2>3, KindsStay DEF Taken, Begun
  <2>5. /\ w # "erase" => flash' = flash /\ written \subseteq written'
        /\ w = "sign" => written' = written
    BY <2>2
  <2> QED
    BY <2>1, <2>4, <2>5
<1> QED
  BY <1>3, <1>5, <1>6, <1>7

\* An order is taken as soon as it is in front: the bootloader is idle and nothing resets
\* it on the way.
LEMMA NodeOrdered ==
  ASSUME Typed, NodeStep, NEW S, NEW w, mode = "boot", Lacks(c2s, Starting), Ordered(S, w),
         (S = Clears /\ w = "erase") \/ (S = SignOrders /\ w = "sign")
  PROVE  /\ Ordered(S, w)'
         /\ w = "sign" => UNCHANGED <<flash, written>>
         /\ Lacks(s2c, ProgAcks) => Lacks(s2c', ProgAcks)
<1>1. /\ c2s \in Seq(Requests) /\ s2c \in Seq(Responses) /\ c2s' \in Seq(Requests) /\ s2c' \in Seq(Responses)
      /\ S \in SUBSET FlashOps /\ S \in SUBSET Orders
  BY Kinds DEF Typed, TypeOK, NodeStep, Orders
<1>2. CASE Taken(w)
  <2>1. /\ Taken(w)'
        /\ w # "erase" => flash' = flash
        /\ w = "sign" => written' = written
        /\ Lacks(s2c, ProgAcks) => Lacks(s2c', ProgAcks)
    BY <1>2, NodeTaken
  <2> QED
    BY <2>1 DEF Ordered
<1>3. CASE Pending(S) /\ sdo = "idle" /\ Lacks(c2s, FlashOps \ S)
  <2>1. /\ work = "none" /\ ~Lacks(c2s, S) /\ Single(c2s, S) /\ Ahead(c2s, S, StatusReads)
        /\ Lacks(s2c, Statuses)
    BY <1>3 DEF Pending
  <2>2. Ahead(c2s', S, StatusReads) /\ Lacks(c2s', FlashOps \ S)
    BY <1>3, <2>1, RequestsKept DEF NodeStep
  <2>3. c2s # <<>> => /\ Head(c2s) \in Requests /\ Head(c2s) \notin Starting /\ Head(c2s) \notin FlashOps \ S
                      /\ Head(c2s) \notin StatusReads
    BY <1>1, <1>3, <2>1, HeadOf, TailRests
  <2>4. CASE Loses
    <3>1. c2s' = c2s /\ UNCHANGED <<sdo, work, flash, written>>
      BY <2>4 DEF Loses, node, area
    <3>2. /\ Lacks(s2c, Statuses) => Lacks(s2c', Statuses)
          /\ Lacks(s2c, ProgAcks) => Lacks(s2c', ProgAcks)
      BY <1>1, <2>4, LosesKeeps
    <3> QED
      BY <1>3, <2>1, <2>2, <3>1, <3>2, KindsStay DEF Ordered, Pending
  <2>5. CASE Serves
    <3>1. /\ c2s # <<>> /\ c2s' = Tail(c2s) /\ sdo' = "idle" /\ work' = "none" /\ Head(c2s) \notin S
          /\ UNCHANGED <<flash, written>>
      BY <1>1, <1>3, <2>1, <2>3, <2>5 DEF Serves
    <3>2. /\ Lacks(s2c, Statuses) => Lacks(s2c', Statuses)
          /\ Lacks(s2c, ProgAcks) => Lacks(s2c', ProgAcks)
      BY <1>1, <2>3, <2>5, <3>1, ServesKeeps
    <3>3. ~Lacks(c2s', S) /\ Single(c2s', S)
      BY <1>1, <2>1, <3>1, OneOfAKind
    <3> QED
      BY <2>1, <2>2, <3>1, <3>2, <3>3, KindsStay DEF Ordered, Pending
  <2>6. ~Finishes /\ ~Refuses /\ ~Opens /\ ~Writes
    <3>1. c2s # <<>> => /\ Head(c2s) \in Inits => Head(c2s) \notin S
                        /\ Head(c2s) \in Datas => Head(c2s) \notin S
      BY <2>3, Kinds
    <3>2. c2s # <<>> => Head(c2s) \notin Inits /\ Head(c2s) \notin Datas
      BY <2>3, <3>1, Kinds
    <3> QED
      BY <1>3, <2>1, <3>2 DEF Finishes, Refuses, Opens, Writes
  <2>7. CASE Begins
    <3>1. /\ c2s # <<>> /\ c2s' = Tail(c2s) /\ s2c' = Append(s2c, Ack("control")) /\ sdo' = "idle"
          /\ Head(c2s) \in Clears => work' = "erase"
          /\ Head(c2s) \in SignOrders => work' = "sign" /\ UNCHANGED <<flash, written>>
          /\ Head(c2s) \in Orders
      <4>1. c2s # <<>> /\ Head(c2s) \in Clears => Head(c2s) \notin SignOrders
        BY <2>3, Kinds
      <4> QED
        BY <1>3, <2>7, <4>1 DEF Begins, Orders
    <3>2. Head(c2s) \in S
      BY <2>3, <3>1 DEF FlashOps
    <3>3. Lacks(c2s', S)
      BY <1>1, <2>1, <3>1, <3>2, OneOfAKind
    <3>4. Lacks(c2s', FlashOps)
      BY <2>2, <3>3 DEF Lacks
    <3>5. Ack("control") \in Responses /\ Ack("control") \notin ProgAcks /\ Ack("control") \notin OkStatuses
      BY Messages DEF Objects, Ack, ProgAcks, OkStatuses, Statuses, Values
    <3>6. Lacks(s2c, OkStatuses)
      BY <2>1, Kinds, Parts
    <3>7. Lacks(s2c', OkStatuses) /\ (Lacks(s2c, ProgAcks) => Lacks(s2c', ProgAcks))
      BY <1>1, <3>1, <3>5, <3>6, AppendKeeps
    <3>8. work' = w /\ (w = "sign" => UNCHANGED <<flash, written>>)
      BY <3>1, <3>2
    <3> QED
      BY <3>1, <3>4, <3>7, <3>8, KindsStay DEF Ordered, Taken, Begun
  <2> QED
    BY <2>4, <2>5, <2>6, <2>7 DEF NodeStep, Works
<1> QED
  BY <1>2, <1>3 DEF Ordered

\* A download is opened only when everything asked before it is answered or gone.
LEMMA NodeInitiating ==
  ASSUME Typed, NodeStep, mode = "boot", Lacks(c2s, Starting), Initiating
  PROVE  Initiating' /\ UNCHANGED <<flash, written>>
<1>1. /\ c2s \in Seq(Requests) /\ s2c \in Seq(Responses) /\ c2s' \in Seq(Requests) /\ s2c' \in Seq(Responses)
      /\ sdo \in {"idle", "download"}
  BY DEF Typed, TypeOK, NodeStep
<1>2. /\ work = "none" /\ Lacks(c2s, FlashOps \ Inits)
      /\ Ahead(c2s, Others, Inits) /\ Ahead(s2c, Statuses, ProgAcks)
      /\ sdo = "download" => Lacks(c2s, Others)
      /\ Lacks(s2c, ProgAcks) \/ sdo = "download"
  BY DEF Initiating
<1>3. /\ Lacks(c2s', FlashOps \ Inits) /\ Ahead(c2s', Others, Inits)
      /\ Lacks(c2s, Others) => Lacks(c2s', Others)
  BY <1>2, RequestsKept DEF NodeStep
<1>4. c2s # <<>> => /\ Head(c2s) \in Requests /\ Head(c2s) \notin FlashOps \ Inits
                    /\ sdo = "download" => Head(c2s) \notin Others
                    /\ Head(c2s) \in Inits => Lacks(c2s, Others)
  BY <1>1, <1>2, HeadOf, TailRests
<1>5. c2s # <<>> => /\ Head(c2s) \notin Orders /\ Head(c2s) \notin Datas
                    /\ Head(c2s) \notin FlashOps => Head(c2s) \in Others
  <2>1. c2s # <<>> => Head(c2s) \notin Orders /\ Head(c2s) \notin Datas
    BY <1>4, Kinds DEF Orders
  <2> QED
    BY <1>4, <2>1 DEF Others, FlashOps
<1>6. CASE Loses
  <2>1. c2s' = c2s /\ UNCHANGED <<sdo, work, flash, written>>
    BY <1>6 DEF Loses, node, area
  <2>2. Ahead(s2c', Statuses, ProgAcks) /\ (Lacks(s2c, ProgAcks) => Lacks(s2c', ProgAcks))
    BY <1>1, <1>2, <1>6, LosesKeeps
  <2> QED
    BY <1>2, <1>3, <2>1, <2>2, KindsStay DEF Initiating
<1>7. CASE Serves
  <2>1. sdo = "idle" /\ sdo' = "idle" /\ work' = "none" /\ UNCHANGED <<flash, written>> /\ Lacks(s2c, ProgAcks)
    BY <1>1, <1>2, <1>4, <1>5, <1>7 DEF Serves
  <2>2. Lacks(s2c', ProgAcks)
    BY <1>1, <1>7, <2>1, ServesKeeps
  <2>3. Ahead(s2c', Statuses, ProgAcks)
    BY <1>1, <2>2, HeadOf
  <2> QED
    BY <1>3, <2>1, <2>2, <2>3, KindsStay DEF Initiating
<1>8. CASE Opens
  <2>1. /\ s2c' = Append(s2c, Ack("program")) /\ sdo' = "download" /\ work' = "none" /\ Lacks(c2s, Others)
        /\ UNCHANGED <<flash, written>>
    BY <1>2, <1>4, <1>8 DEF Opens
  <2>2. Ack("program") \in Responses /\ Ack("program") \notin Statuses
    BY Messages DEF Objects, Ack, Statuses, Values
  <2>3. Ahead(s2c', Statuses, ProgAcks)
    BY <1>1, <1>2, <2>1, <2>2, AppendKeeps
  <2> QED
    BY <1>3, <2>1, <2>3, KindsStay DEF Initiating
<1>9. ~Finishes /\ ~Refuses /\ ~Begins /\ ~Writes
  BY <1>2, <1>5 DEF Finishes, Refuses, Begins, Writes, Orders
<1> QED
  BY <1>6, <1>7, <1>8, <1>9 DEF NodeStep, Works

\* An opened download stays open until its block is sent.
LEMMA NodeOpened ==
  ASSUME Typed, NodeStep, mode = "boot", Opened
  PROVE  Opened' /\ UNCHANGED <<flash, written>>
<1>1. /\ c2s \in Seq(Requests) /\ s2c \in Seq(Responses) /\ c2s' \in Seq(Requests) /\ s2c' \in Seq(Responses)
  BY DEF Typed, TypeOK, NodeStep
<1>2. work = "none" /\ sdo = "download" /\ Lacks(s2c, Statuses) /\ Lacks(c2s, Requests \ Inits)
  BY DEF Opened
<1>3. Lacks(c2s', Requests \ Inits)
  BY <1>2, RequestsKept DEF NodeStep
<1>4. c2s # <<>> => Head(c2s) \in Inits
  <2>1. c2s # <<>> => Head(c2s) \in Requests /\ Head(c2s) \notin Requests \ Inits
    BY <1>1, <1>2, HeadOf, TailRests
  <2> QED
    BY <2>1
<1>5. c2s # <<>> => Head(c2s) \in FlashOps /\ Head(c2s) \notin Orders /\ Head(c2s) \notin Datas
  BY <1>1, <1>4, Kinds, TailRests DEF Orders
<1>6. CASE Loses
  <2>1. UNCHANGED <<sdo, work, flash, written>>
    BY <1>6 DEF Loses, node, area
  <2>2. Lacks(s2c', Statuses)
    BY <1>1, <1>2, <1>6, LosesKeeps
  <2> QED
    BY <1>2, <1>3, <2>1, <2>2, KindsStay DEF Opened
<1>7. CASE Opens
  <2>1. s2c' = Append(s2c, Ack("program")) /\ sdo' = "download" /\ work' = "none" /\ UNCHANGED <<flash, written>>
    BY <1>2, <1>7 DEF Opens
  <2>2. Ack("program") \in Responses /\ Ack("program") \notin Statuses
    BY Messages DEF Objects, Ack, Statuses, Values
  <2>3. Lacks(s2c', Statuses)
    BY <1>1, <1>2, <2>1, <2>2, AppendKeeps
  <2> QED
    BY <1>3, <2>1, <2>3, KindsStay DEF Opened
<1>8. ~Finishes /\ ~Serves /\ ~Refuses /\ ~Begins /\ ~Writes
  BY <1>2, <1>5 DEF Finishes, Serves, Refuses, Begins, Writes, Orders
<1> QED
  BY <1>6, <1>7, <1>8 DEF NodeStep, Works

\* A block that was sent is taken before anything asked after it.
LEMMA NodeSent ==
  ASSUME Typed, NodeStep, mode = "boot", flash = "erased", Sent
  PROVE  Sent' /\ flash' = flash /\ written \subseteq written'
<1>1. /\ c2s \in Seq(Requests) /\ s2c \in Seq(Responses) /\ c2s' \in Seq(Requests) /\ s2c' \in Seq(Responses)
      /\ blk' = blk
  BY DEF Typed, TypeOK, NodeStep, client
<1>2. CASE Programmed
  <2>1. /\ Taken("program") /\ Ahead(s2c, ProgAcks, Statuses) /\ (work = "program" => target = blk + 1)
    BY <1>2 DEF Programmed
  <2>2. /\ Taken("program")' /\ flash' = flash /\ written \subseteq written'
        /\ work' = "program" => work = "program" /\ target' = target
        /\ Ahead(s2c', ProgAcks, Statuses)
    BY <2>1, NodeTaken
  <2>3. work' = "program" => target' = blk' + 1
    BY <1>1, <2>1, <2>2
  <2> QED
    BY <2>2, <2>3, KindsStay DEF Sent, Programmed
<1>3. CASE InFlight
  <2>1. /\ work = "none" /\ ~Lacks(c2s, ThisBlock) /\ Single(c2s, ThisBlock) /\ Ahead(c2s, ThisBlock, StatusReads)
        /\ Lacks(s2c, Statuses) /\ sdo = "download" /\ Lacks(c2s, FlashOps \ (Inits \cup ThisBlock))
        /\ Ahead(c2s, Inits, ThisBlock) /\ Ahead(c2s, ThisBlock, Others)
    BY <1>3 DEF InFlight, Pending
  <2>2. /\ Ahead(c2s', ThisBlock, StatusReads) /\ Lacks(c2s', FlashOps \ (Inits \cup ThisBlock))
        /\ Ahead(c2s', Inits, ThisBlock) /\ Ahead(c2s', ThisBlock, Others)
        /\ Lacks(c2s, Inits) => Lacks(c2s', Inits)
    BY <2>1, RequestsKept DEF NodeStep
  <2>3. ThisBlock' = ThisBlock
    BY <1>1 DEF ThisBlock
  <2>4. c2s # <<>> => /\ Head(c2s) \in Requests /\ Head(c2s) \notin FlashOps \ (Inits \cup ThisBlock)
                      /\ Head(c2s) \notin Others
                      /\ Head(c2s) \in ThisBlock => Lacks(c2s, Inits)
    BY <1>1, <2>1, HeadOf, TailRests
  <2>5. c2s # <<>> => /\ Head(c2s) \in Inits \cup Datas /\ Head(c2s) \notin Orders /\ Head(c2s) \in FlashOps
                      /\ Head(c2s) \in Datas => Head(c2s) \in ThisBlock /\ Head(c2s) \notin Inits
                      /\ Head(c2s) \in Inits => Head(c2s) \notin ThisBlock
    <3>1. c2s # <<>> => Head(c2s) \in Inits \cup Datas
      BY <2>4 DEF Others
    <3>2. c2s # <<>> => /\ Head(c2s) \in Datas => Head(c2s) \notin Inits
                        /\ Head(c2s) \notin Orders /\ Head(c2s) \in FlashOps
      BY <2>4, <3>1, Kinds DEF Orders
    <3>3. ASSUME c2s # <<>>, Head(c2s) \in Inits PROVE Head(c2s) \notin ThisBlock
      BY <3>3 DEF ThisBlock, Inits, Data
    <3> QED
      BY <2>4, <3>1, <3>2, <3>3
  <2>6. CASE Loses
    <3>1. c2s' = c2s /\ UNCHANGED <<sdo, work, flash, written>>
      BY <2>6 DEF Loses, node, area
    <3>2. Lacks(s2c', Statuses)
      BY <1>1, <2>1, <2>6, LosesKeeps
    <3> QED
      BY <2>1, <2>2, <2>3, <3>1, <3>2, KindsStay DEF Sent, InFlight, Pending
  <2>7. CASE Opens
    <3>1. /\ c2s # <<>> /\ c2s' = Tail(c2s) /\ Head(c2s) \notin ThisBlock
          /\ s2c' = Append(s2c, Ack("program")) /\ sdo' = "download" /\ work' = "none" /\ UNCHANGED <<flash, written>>
      BY <2>1, <2>5, <2>7 DEF Opens
    <3>2. Ack("program") \in Responses /\ Ack("program") \notin Statuses
      BY Messages DEF Objects, Ack, Statuses, Values
    <3>3. Lacks(s2c', Statuses)
      BY <1>1, <2>1, <3>1, <3>2, AppendKeeps
    <3>4. ~Lacks(c2s', ThisBlock) /\ Single(c2s', ThisBlock)
      BY <1>1, <2>1, <3>1, OneOfAKind
    <3> QED
      BY <2>2, <2>3, <3>1, <3>3, <3>4, KindsStay DEF Sent, InFlight, Pending
  <2>8. CASE Writes
    <3>1. /\ c2s # <<>> /\ c2s' = Tail(c2s) /\ Head(c2s) \in ThisBlock /\ s2c' = Append(s2c, Done)
          /\ sdo' = "idle" /\ work' = "program" /\ target' = Head(c2s).blk /\ UNCHANGED <<flash, written>>
      BY <2>5, <2>8 DEF Writes
    <3>2. target' = blk' + 1
      BY <1>1, <3>1 DEF ThisBlock, Data
    <3>3. Lacks(c2s', ThisBlock) /\ Lacks(c2s', Inits)
      BY <1>1, <2>1, <2>2, <2>4, <3>1, OneOfAKind
    <3>4. Lacks(c2s', FlashOps)
      BY <2>2, <3>3 DEF Lacks
    <3>5. Done \in Responses /\ Done \notin Statuses
      BY Messages DEF Done, Statuses, Values
    <3>6. Lacks(s2c', Statuses)
      BY <1>1, <2>1, <3>1, <3>5, AppendKeeps
    <3>7. Lacks(s2c', OkStatuses) /\ Ahead(s2c', ProgAcks, Statuses)
      BY <1>1, <3>6, HeadOf, Kinds, Parts
    <3> QED
      BY <3>1, <3>2, <3>4, <3>7, KindsStay DEF Sent, Programmed, Taken, Begun
  <2>9. ~Finishes /\ ~Serves /\ ~Refuses /\ ~Begins
    BY <2>1, <2>5 DEF Finishes, Serves, Refuses, Begins, Orders
  <2> QED
    BY <2>6, <2>7, <2>8, <2>9 DEF NodeStep, Works
<1> QED
  BY <1>2, <1>3 DEF Sent

\* What a step of the node does to its mode and to the answers that tell of it.
LEMMA ModeSteps ==
  ASSUME Typed, Answers \/ (Plain /\ NodeDoes), ~Restarts, s2c' \in Seq(Responses)
  PROVE  /\ \/ mode' = mode
            \/ Plain /\ mode = "app" /\ mode' = "boot" /\ c2s # <<>> /\ Head(c2s) \in Entering
            \/ Plain /\ mode = "boot" /\ mode' = "app" /\ c2s # <<>> /\ Head(c2s) \in Starting
         /\ mode = "boot" \/ Plain => /\ Lacks(s2c, InApp) => Lacks(s2c', InApp)
                                      /\ Ahead(s2c, InApp, InBoot) => Ahead(s2c', InApp, InBoot)
         /\ mode = "app" \/ Plain => (Lacks(s2c, InBoot) => Lacks(s2c', InBoot))
<1>1. s2c \in Seq(Responses) /\ mode \in {"boot", "app"}
  BY DEF Typed, TypeOK
<1>2. ASSUME Plain
      PROVE  /\ Lacks(s2c, InApp) => Lacks(s2c', InApp)
             /\ Ahead(s2c, InApp, InBoot) => Ahead(s2c', InApp, InBoot)
             /\ Lacks(s2c, InBoot) => Lacks(s2c', InBoot)
  BY <1>1, <1>2, PlainKeeps, SmokeSets
<1>3. CASE Answers
  <2>1. mode' = mode
    BY <1>3 DEF Answers, node
  <2>2. PICK o \in Readable, v \in {"boot", "blupdate", "app", "ok", "busy", "error", "match", "other", "none"} :
          /\ s2c' = Append(s2c, Value(o, v))
          /\ o = "devType" => v = DevType
    BY <1>3 DEF Answers
  <2> DEFINE e == Value(o, v)
  <2>3. e \in Responses /\ e.obj = o /\ e.val = v
    BY Messages DEF Objects, Value
  <2>4. (mode = "boot" => e \notin InApp) /\ (mode = "app" => e \notin InBoot)
    BY <2>2, <2>3, DevTypeIs DEF InApp, InBoot
  <2> HIDE DEF e
  <2>5. /\ e \notin InApp => /\ Lacks(s2c, InApp) => Lacks(s2c', InApp)
                             /\ Ahead(s2c, InApp, InBoot) => Ahead(s2c', InApp, InBoot)
        /\ e \notin InBoot => (Lacks(s2c, InBoot) => Lacks(s2c', InBoot))
    BY <1>1, <2>2, <2>3, AppendKeeps DEF e
  <2> QED
    BY <1>2, <2>1, <2>4, <2>5
<1>4. CASE Plain /\ NodeDoes
  <2>1. mode' = mode \/ Switches
    BY <1>4 DEF NodeDoes, Idles, Erases, Signs, Ends
  <2>2. Switches => \/ mode = "app" /\ mode' = "boot" /\ c2s # <<>> /\ Head(c2s) \in Entering
                    \/ mode = "boot" /\ mode' = "app" /\ c2s # <<>> /\ Head(c2s) \in Starting
    BY <1>1 DEF Switches, Entering, Starting
  <2> QED
    BY <1>2, <1>4, <2>1, <2>2
<1> QED
  BY <1>3, <1>4

\* The polls of the last block are over when the application starts.
LEMMA NodePollsOver ==
  ASSUME Typed, NodeStep, Answers \/ (Plain /\ NodeDoes), ~Restarts, Loses \/ Serves,
         mode = "boot" => Lacks(s2c, InApp), PollsOver
  PROVE  PollsOver'
<1>1. /\ c2s \in Seq(Requests) /\ s2c \in Seq(Responses) /\ s2c' \in Seq(Responses) /\ mode \in {"boot", "app"}
      /\ InApp' = InApp
  BY DEF Typed, TypeOK, NodeStep, InApp, BootTypes, given
<1>2. /\ Ahead(c2s', StatusReads, Starting)
      /\ Lacks(c2s, StatusReads) => Lacks(c2s', StatusReads)
  BY RequestsKept DEF NodeStep, PollsOver
<1>3. CASE mode = "app" /\ mode' = "app"
  <2>1. Lacks(c2s, StatusReads) /\ Ahead(s2c, Statuses, InApp)
    BY <1>3 DEF PollsOver
  <2>2. Ahead(s2c', Statuses, InApp)
    <3>1. CASE Loses
      BY <1>1, <2>1, <3>1, LosesKeeps
    <3>2. CASE Serves
      <4>1. Head(c2s) \notin StatusReads
        BY <1>1, <2>1, <3>2, HeadOf DEF Serves
      <4> QED
        BY <1>1, <2>1, <3>2, <4>1, ServesKeeps
    <3> QED
      BY <3>1, <3>2
  <2> QED
    BY <1>1, <1>2, <2>1, <2>2, KindsStay DEF PollsOver
<1>4. CASE mode = "boot" /\ mode' = "app"
  <2>1. Plain /\ c2s # <<>> /\ Head(c2s) \in Starting
    BY <1>1, <1>4, ModeSteps
  <2>2. Lacks(c2s, StatusReads)
    BY <1>1, <2>1, HeadOf DEF PollsOver
  <2>3. Lacks(s2c', InApp)
    BY <1>1, <1>4, <2>1, ModeSteps
  <2>4. Ahead(s2c', Statuses, InApp)
    BY <1>1, <2>3, HeadOf
  <2> QED
    BY <1>1, <1>2, <2>2, <2>4, KindsStay DEF PollsOver
<1>5. CASE mode' # "app"
  BY <1>2, <1>5, KindsStay DEF PollsOver
<1> QED
  BY <1>1, <1>3, <1>4, <1>5

\* The modes at the end, in a step of the node.
LEMMA NodeLast ==
  ASSUME Typed, NodeStep, Answers \/ (Plain /\ NodeDoes), ~Restarts, Phases, LastPhases
  PROVE  LastPhases'
<1>1. /\ c2s \in Seq(Requests) /\ s2c \in Seq(Responses) /\ s2c' \in Seq(Responses) /\ mode \in {"boot", "app"}
      /\ pc' = pc /\ InApp' = InApp /\ InBoot' = InBoot
  BY DEF Typed, TypeOK, NodeStep, InApp, InBoot, BootTypes, given, client
<1>2. /\ \/ mode' = mode
         \/ Plain /\ mode = "app" /\ mode' = "boot" /\ c2s # <<>> /\ Head(c2s) \in Entering
         \/ Plain /\ mode = "boot" /\ mode' = "app" /\ c2s # <<>> /\ Head(c2s) \in Starting
      /\ mode = "boot" \/ Plain => /\ Lacks(s2c, InApp) => Lacks(s2c', InApp)
                                   /\ Ahead(s2c, InApp, InBoot) => Ahead(s2c', InApp, InBoot)
      /\ mode = "app" \/ Plain => (Lacks(s2c, InBoot) => Lacks(s2c', InBoot))
      /\ Plain \/ mode' = mode
  BY <1>1, ModeSteps
<1>3. /\ Lacks(c2s, Entering) => Lacks(c2s', Entering)
      /\ Ahead(c2s, Entering, Starting) => Ahead(c2s', Entering, Starting)
  BY RequestsKept DEF NodeStep
<1>4. c2s # <<>> => /\ Lacks(c2s, Entering) => Head(c2s) \notin Entering
                    /\ Head(c2s) \in Starting /\ Ahead(c2s, Entering, Starting) => Lacks(c2s, Entering)
  BY <1>1, HeadOf
<1>5. pc \in Returning => Ahead(s2c', InApp, InBoot)
  <2> SUFFICES ASSUME pc \in Returning PROVE Ahead(s2c', InApp, InBoot)
    OBVIOUS
  <2>1. Ahead(s2c, InApp, InBoot) /\ (mode = "app" => Lacks(s2c, InBoot))
    BY DEF LastPhases, Phases
  <2>2. CASE mode = "boot" \/ Plain
    BY <1>2, <2>1, <2>2
  <2>3. CASE mode = "app"
    <3>1. Lacks(s2c', InBoot)
      BY <1>2, <2>1, <2>3
    <3> QED
      BY <1>1, <3>1, HeadOf
  <2> QED
    BY <1>1, <2>2, <2>3
<1>6. pc \in Signing => Lacks(s2c', InApp)
  BY <1>2 DEF LastPhases, Phases
<1>7. pc \in {"finalStart", "finalCheck"} =>
        \/ mode' = "boot" /\ Lacks(s2c', InApp) /\ Ahead(c2s', Entering, Starting)
        \/ mode' = "app" /\ Lacks(c2s', Entering)
  <2> SUFFICES ASSUME pc \in {"finalStart", "finalCheck"}
               PROVE  \/ mode' = "boot" /\ Lacks(s2c', InApp) /\ Ahead(c2s', Entering, Starting)
                      \/ mode' = "app" /\ Lacks(c2s', Entering)
    OBVIOUS
  <2>1. CASE mode = "boot" /\ Lacks(s2c, InApp) /\ Ahead(c2s, Entering, Starting)
    BY <1>2, <1>3, <1>4, <2>1
  <2>2. CASE mode = "app" /\ Lacks(c2s, Entering)
    BY <1>2, <1>3, <1>4, <2>2
  <2> QED
    BY <2>1, <2>2 DEF LastPhases
<1>8. pc = "done" => mode' = "app" /\ Lacks(c2s', Entering)
  BY <1>2, <1>3, <1>4 DEF LastPhases
<1> QED
  BY <1>1, <1>5, <1>6, <1>7, <1>8, KindsStay DEF LastPhases

\* A step of the node keeps what the tool goes by.
LEMMA NodeRight ==
  ASSUME Typed, NodeStep, Answers \/ (Plain /\ NodeDoes), ~Restarts, Phases,
         EraseRight, BlocksRight, SignatureRight, LastPhases
  PROVE  (EraseRight /\ BlocksRight /\ SignatureRight /\ LastPhases)'
<1>1. pc' = pc /\ waiting' = waiting /\ blk' = blk
  BY DEF NodeStep, client
<1>2. pc \in Loading \cup Signing => mode = "boot" /\ Lacks(c2s, Starting)
  BY DEF Phases
<1>3. AtRest => /\ AtRest' /\ UNCHANGED <<flash, written, signed>>
                /\ Lacks(s2c, ProgAcks) => Lacks(s2c', ProgAcks)
                /\ NoPolls => NoPolls'
                /\ Loses \/ Serves
  BY NodeRests
<1>4. UNCHANGED <<flash, written>> => (Complete => Complete') /\ (Stored => Stored')
  BY <1>1 DEF Complete, Stored
<1>5. EraseRight'
  <2>1. CASE pc \in UpToClear /\ ~(pc = "clear" /\ waiting)
    <3>1. AtRest' /\ Lacks(s2c', ProgAcks)
      BY <1>3, <2>1 DEF EraseRight, UpToClear
    <3> QED
      BY <1>1, <2>1, <3>1, KindsStay DEF EraseRight, UpToClear
  <2>2. CASE pc = "waitClear" \/ (pc = "clear" /\ waiting)
    <3>1. Ordered(Clears, "erase") /\ Lacks(s2c, ProgAcks) /\ mode = "boot" /\ Lacks(c2s, Starting)
      BY <1>2, <2>2 DEF EraseRight, BeforeErase, Loading
    <3>2. Ordered(Clears, "erase")' /\ Lacks(s2c', ProgAcks)
      BY <3>1, NodeOrdered
    <3> QED
      BY <1>1, <2>2, <3>2, KindsStay DEF EraseRight, UpToClear
  <2>3. CASE pc \notin BeforeErase
    BY <1>1, <2>3 DEF EraseRight, UpToClear, BeforeErase
  <2> QED
    BY <2>1, <2>2, <2>3 DEF UpToClear
<1>6. BlocksRight'
  <2>1. CASE pc = "download"
    <3>1. Stored /\ Initiating /\ mode = "boot" /\ Lacks(c2s, Starting)
      BY <1>2, <2>1 DEF BlocksRight, Loading
    <3>2. Initiating' /\ UNCHANGED <<flash, written>>
      BY <3>1, NodeInitiating
    <3> QED
      BY <1>1, <1>4, <2>1, <3>1, <3>2 DEF BlocksRight
  <2>2. CASE pc = "data" /\ ~waiting
    <3>1. Stored /\ Opened /\ mode = "boot"
      BY <1>2, <2>2 DEF BlocksRight, Loading
    <3>2. Opened' /\ UNCHANGED <<flash, written>>
      BY <3>1, NodeOpened
    <3> QED
      BY <1>1, <1>4, <2>2, <3>1, <3>2 DEF BlocksRight
  <2>3. CASE pc = "waitBlock" \/ (pc = "data" /\ waiting)
    <3>1. Stored /\ Sent /\ mode = "boot"
      BY <1>2, <2>3 DEF BlocksRight, Loading
    <3>2. Sent' /\ flash' = flash /\ written \subseteq written'
      BY <3>1, NodeSent DEF Stored
    <3>3. Stored'
      BY <1>1, <3>1, <3>2 DEF Stored
    <3> QED
      BY <1>1, <2>3, <3>2, <3>3 DEF BlocksRight
  <2> QED
    BY <1>1, <2>1, <2>2, <2>3 DEF BlocksRight
<1>7. SignatureRight'
  <2>1. CASE pc \in Trying
    <3>1. Complete /\ AtRest /\ PollsOver /\ (mode = "boot" => Lacks(s2c, InApp))
      BY <2>1 DEF SignatureRight, Phases
    <3>2. Complete' /\ AtRest' /\ (Loses \/ Serves)
      BY <1>3, <1>4, <3>1
    <3>3. PollsOver'
      BY <3>1, <3>2, NodePollsOver
    <3> QED
      BY <1>1, <2>1, <3>2, <3>3 DEF SignatureRight, Trying, Returning
  <2>2. CASE pc \in Returning \cup {"newVersion"} \/ (pc = "sign" /\ ~waiting)
    <3>1. Complete' /\ AtRest' /\ NoPolls'
      BY <1>3, <1>4, <2>2 DEF SignatureRight
    <3> QED
      BY <1>1, <2>2, <3>1 DEF SignatureRight, Trying, Returning
  <2>3. CASE pc = "waitSign" \/ (pc = "sign" /\ waiting)
    <3>1. Complete /\ Ordered(SignOrders, "sign") /\ mode = "boot" /\ Lacks(c2s, Starting)
      BY <1>2, <2>3 DEF SignatureRight, Signing
    <3>2. Ordered(SignOrders, "sign")' /\ UNCHANGED <<flash, written>>
      BY <3>1, NodeOrdered
    <3> QED
      BY <1>1, <1>4, <2>3, <3>1, <3>2, KindsStay DEF SignatureRight, Trying, Returning
  <2>4. CASE pc \in {"finalStart", "finalCheck", "done"}
    <3>1. Complete' /\ AtRest' /\ signed'
      BY <1>3, <1>4, <2>4 DEF SignatureRight
    <3> QED
      BY <1>1, <2>4, <3>1 DEF SignatureRight, Trying, Returning
  <2> QED
    BY <1>1, <2>1, <2>2, <2>3, <2>4 DEF SignatureRight
<1>8. LastPhases'
  BY NodeLast
<1> QED
  BY <1>5, <1>6, <1>7, <1>8

\* Which request is of which kind, and which step it belongs to.
LEMMA AsksWhat ==
  ASSUME Typed, pc \in Active
  PROVE  /\ Request \in Requests
         /\ Request \in FlashOps => pc \in {"clear", "sign", "download", "data"}
         /\ Request \in StatusReads => pc \in StatusWaits
         /\ Request \in Entering => pc \in {"startBoot", "restartBoot"}
         /\ pc = "clear" => Request \in Clears /\ Request \notin FlashOps \ Clears
         /\ pc = "sign" => Request \in SignOrders /\ Request \notin FlashOps \ SignOrders
         /\ pc = "download" => Request \in Inits
         /\ pc = "data" => Request \in ThisBlock /\ Request \in Datas
<1>1. Request \in Requests
  BY RequestIs
<1>2. /\ Request \in Inits => pc = "download"
      /\ Request \in Clears => pc = "clear"
      /\ Request \in SignOrders => pc = "sign"
      /\ Request \in StatusReads => pc \in StatusWaits
      /\ Request \in Entering => pc \in {"startBoot", "restartBoot"}
  BY SendsWhat DEF Inits, Clears, SignOrders, StatusReads, Entering
<1>3. pc # "data" => Request.op # "data"
  <2>1. CASE pc \in Reading
    BY <2>1, RequestIs DEF Read
  <2>2. CASE pc \in Controls \cup Commands
    BY <2>2, RequestIs DEF Control
  <2>3. CASE pc = "download"
    BY <2>3, RequestIs
  <2> QED
    BY <2>1, <2>2, <2>3 DEF Active
<1>4. pc \in Commands => Request = Control(ControlCode(pc))
  BY RequestIs DEF Commands
<1>5. pc = "clear" => Request \in Clears
  BY <1>4 DEF Commands, ControlCode, Clears
<1>6. pc = "sign" => Request \in SignOrders
  BY <1>4 DEF Commands, ControlCode, SignOrders
<1>7. pc = "data" => Request \in ThisBlock
  BY DEF Request, ThisBlock, Reading, Polling, BootWaits, AppWaits, StatusWaits, Infos, Queries
<1>8. pc = "download" => Request \in Inits
  BY <1>1, RequestIs DEF Inits
<1>9. pc = "data" => Request \in Datas
  BY <1>1, RequestIs DEF Datas
<1>10. Request \in FlashOps => pc \in {"clear", "sign", "download", "data"}
  BY <1>2, <1>3 DEF FlashOps, Orders, Datas
<1>11. /\ Request \in Clears => Request \notin Inits \cup Datas \cup SignOrders
       /\ Request \in SignOrders => Request \notin Inits \cup Datas \cup Clears
  BY <1>1, Kinds
<1>12. /\ pc = "clear" => Request \notin FlashOps \ Clears
       /\ pc = "sign" => Request \notin FlashOps \ SignOrders
  BY <1>5, <1>6, <1>11 DEF FlashOps, Orders
<1> QED
  BY <1>1, <1>2, <1>5, <1>6, <1>7, <1>8, <1>9, <1>10, <1>12

\* A request of another kind is added.
LEMMA Adds ==
  ASSUME c2s \in Seq(Requests), Request \in Requests, c2s' = Append(c2s, Request), NEW S, Request \notin S, NEW T
  PROVE  /\ Lacks(c2s, S) => Lacks(c2s', S)
         /\ Ahead(c2s, S, T) => Ahead(c2s', S, T)
         /\ ~Lacks(c2s, S) => ~Lacks(c2s', S)
         /\ Single(c2s, S) => Single(c2s', S)
  BY AppendKeeps, OneOfAKind

\* What the tool does leaves an operation that was taken as it is.
LEMMA TakenStays ==
  ASSUME Typed, NEW w, Taken(w), UNCHANGED <<node, blk>>, s2c' \in Seq(Responses), Rest(s2c', s2c),
         Lacks(c2s', FlashOps)
  PROVE  Taken(w)'
<1>1. UNCHANGED <<sdo, work, status, flash, written, signed, blk>> /\ s2c \in Seq(Responses)
  BY DEF node, area, Typed, TypeOK
<1>2. Lacks(s2c, OkStatuses) => Lacks(s2c', OkStatuses)
  BY <1>1, RestKeeps
<1>3. Effect(w)' <=> Effect(w)
  BY <1>1 DEF Effect
<1> QED
  BY <1>1, <1>2, <1>3, KindsStay DEF Taken, Begun

\* Another request leaves an order as it is.
LEMMA OrderedStays ==
  ASSUME Typed, NEW S, NEW w, Ordered(S, w), UNCHANGED <<node, blk>>,
         s2c' \in Seq(Responses), Rest(s2c', s2c), S \in {Clears, SignOrders},
         c2s' = c2s \/ (Request \in Requests /\ Request \notin FlashOps /\ c2s' = Append(c2s, Request))
  PROVE  Ordered(S, w)'
<1>1. /\ c2s \in Seq(Requests) /\ s2c \in Seq(Responses) /\ UNCHANGED <<sdo, work>>
      /\ S \in SUBSET FlashOps
  BY Kinds DEF node, area, Typed, TypeOK
<1>2. ASSUME NEW R \in SUBSET FlashOps, NEW T
      PROVE  /\ Lacks(c2s, R) => Lacks(c2s', R)
             /\ Ahead(c2s, R, T) => Ahead(c2s', R, T)
             /\ ~Lacks(c2s, R) => ~Lacks(c2s', R)
             /\ Single(c2s, R) => Single(c2s', R)
  <2>1. CASE c2s' = c2s
    BY <2>1
  <2>2. CASE Request \in Requests /\ Request \notin FlashOps /\ c2s' = Append(c2s, Request)
    <3>1. Request \notin R
      BY <2>2
    <3> QED
      BY <1>1, <2>2, <3>1, Adds
  <2> QED
    BY <2>1, <2>2
<1>3. CASE Taken(w)
  <2>1. Lacks(c2s', FlashOps)
    BY <1>2, <1>3 DEF Taken
  <2>2. Taken(w)'
    BY <1>3, <2>1, TakenStays
  <2> QED
    BY <2>2 DEF Ordered
<1>4. CASE Pending(S) /\ sdo = "idle" /\ Lacks(c2s, FlashOps \ S)
  <2>1. Lacks(s2c', Statuses)
    BY <1>1, <1>4, RestKeeps DEF Pending
  <2>2. ~Lacks(c2s', S) /\ Single(c2s', S) /\ Ahead(c2s', S, StatusReads)
    BY <1>1, <1>2, <1>4 DEF Pending
  <2>3. Lacks(c2s', FlashOps \ S)
    BY <1>2, <1>4
  <2> QED
    BY <1>1, <1>4, <2>1, <2>2, <2>3, KindsStay DEF Ordered, Pending
<1> QED
  BY <1>3, <1>4 DEF Ordered

\* An order is given: none is in the channel, and no poll or answer to one.
LEMMA OrderGiven ==
  ASSUME Typed, AtRest, NoPolls, UNCHANGED node, s2c' \in Seq(Responses), Rest(s2c', s2c),
         NEW S \in {Clears, SignOrders}, NEW w, Request \in S, Request \notin FlashOps \ S,
         Request \in Requests, c2s' = Append(c2s, Request)
  PROVE  Ordered(S, w)'
<1>1. /\ c2s \in Seq(Requests) /\ s2c \in Seq(Responses) /\ UNCHANGED <<sdo, work>>
      /\ S \in SUBSET FlashOps
  BY Kinds DEF node, area, Typed, TypeOK
<1>2. /\ Lacks(c2s, S) /\ Lacks(c2s, FlashOps \ S) /\ work = "none" /\ sdo = "idle"
      /\ Lacks(c2s, StatusReads) /\ Lacks(s2c, Statuses)
  BY <1>1, Parts DEF AtRest, NoPolls
<1>3. Request \notin StatusReads
  BY Kinds
<1>4. Lacks(c2s', FlashOps \ S) /\ Lacks(c2s', StatusReads)
  BY <1>1, <1>2, <1>3, Adds
<1>5. ~Lacks(c2s', S) /\ Single(c2s', S)
  BY <1>1, <1>2, OneOfAKind
<1>6. Ahead(c2s', S, StatusReads)
  BY <1>4 DEF Lacks, Ahead
<1>7. Lacks(s2c', Statuses)
  BY <1>1, <1>2, RestKeeps
<1> QED
  BY <1>1, <1>2, <1>4, <1>5, <1>6, <1>7, KindsStay DEF Ordered, Pending

\* The tool asks: an erase and a signature when the node is at rest, a block when its
\* download is open.
LEMMA AsksRight ==
  ASSUME Typed, ClearsFirst, Asks, UNCHANGED <<node, given>>,
         EraseRight, BlocksRight, SignatureRight, LastPhases
  PROVE  (EraseRight /\ BlocksRight /\ SignatureRight /\ LastPhases)'
<1>1. /\ c2s \in Seq(Requests) /\ s2c \in Seq(Responses) /\ s2c' \in Seq(Responses) /\ Rest(s2c', s2c)
      /\ pc \in Active /\ pc' = pc /\ waiting' = TRUE /\ blk' = blk /\ c2s' = Append(c2s, Request)
      /\ UNCHANGED <<mode, sdo, work, target, status, flash, written, signed>>
      /\ pc \in {"clear", "sign", "data"} => ~waiting
  BY DEF Asks, Sends, Typed, TypeOK, node, area
<1>2. /\ Request \in Requests
      /\ Request \in FlashOps => pc \in {"clear", "sign", "download", "data"}
      /\ Request \in StatusReads => pc \in StatusWaits
      /\ Request \in Entering => pc \in {"startBoot", "restartBoot"}
      /\ pc = "clear" => Request \in Clears /\ Request \notin FlashOps \ Clears
      /\ pc = "sign" => Request \in SignOrders /\ Request \notin FlashOps \ SignOrders
      /\ pc = "download" => Request \in Inits
      /\ pc = "data" => Request \in ThisBlock /\ Request \in Datas
  BY <1>1, AsksWhat
<1>3. ASSUME NEW S, NEW T
      PROVE  /\ Lacks(s2c, S) => Lacks(s2c', S)
             /\ Ahead(s2c, S, T) => Ahead(s2c', S, T)
             /\ Request \notin S => /\ Lacks(c2s, S) => Lacks(c2s', S)
                                    /\ Ahead(c2s, S, T) => Ahead(c2s', S, T)
                                    /\ ~Lacks(c2s, S) => ~Lacks(c2s', S)
                                    /\ Single(c2s, S) => Single(c2s', S)
  BY <1>1, <1>2, RestKeeps, Adds
<1>4. /\ Complete' = Complete /\ Stored' = Stored /\ InApp' = InApp /\ InBoot' = InBoot /\ ThisBlock' = ThisBlock
  BY <1>1 DEF Complete, Stored, InApp, InBoot, BootTypes, given, ThisBlock
<1>5. AtRest /\ Request \notin FlashOps => AtRest'
  BY <1>1, <1>3, KindsStay DEF AtRest
<1>6. NoPolls /\ Request \notin StatusReads => NoPolls'
  BY <1>3, KindsStay DEF NoPolls
<1>7. EraseRight'
  <2>1. pc \in BeforeErase => Lacks(s2c', ProgAcks)
    BY <1>3 DEF EraseRight
  <2>2. CASE pc \in UpToClear /\ pc # "clear"
    <3>1. Request \notin FlashOps
      BY <1>2, <2>2 DEF UpToClear, BeforeErase
    <3>2. AtRest'
      BY <1>5, <2>2, <3>1 DEF EraseRight
    <3> QED
      BY <1>1, <2>1, <2>2, <3>2, KindsStay DEF EraseRight, UpToClear
  <2>3. CASE pc = "clear"
    <3>1. AtRest /\ NoPolls
      BY <1>1, <2>3 DEF EraseRight, ClearsFirst, NoPolls, UpToClear, BeforeErase
    <3>2. Ordered(Clears, "erase")'
      BY <1>1, <1>2, <2>3, <3>1, OrderGiven
    <3> QED
      BY <1>1, <2>1, <2>3, <3>2, KindsStay DEF EraseRight, UpToClear
  <2>4. CASE pc = "waitClear"
    <3>1. Request \notin FlashOps
      BY <1>2, <2>4
    <3>2. Ordered(Clears, "erase")'
      BY <1>1, <1>2, <2>4, <3>1, OrderedStays DEF EraseRight
    <3> QED
      BY <1>1, <2>1, <2>4, <3>2, KindsStay DEF EraseRight, UpToClear
  <2>5. CASE pc \notin BeforeErase
    BY <1>1, <2>5 DEF EraseRight, UpToClear, BeforeErase
  <2> QED
    BY <2>2, <2>3, <2>4, <2>5 DEF UpToClear
<1>8. BlocksRight'
  <2>1. CASE pc = "download"
    <3>1. Stored /\ Initiating
      BY <2>1 DEF BlocksRight
    <3>2. Request \notin FlashOps \ Inits /\ Request \notin Others
      BY <1>2, <2>1 DEF Others
    <3>3. Initiating'
      BY <1>1, <1>3, <3>1, <3>2, KindsStay DEF Initiating
    <3> QED
      BY <1>1, <1>4, <2>1, <3>1, <3>3 DEF BlocksRight
  <2>2. CASE pc = "data"
    <3>1. /\ Stored /\ work = "none" /\ sdo = "download" /\ Lacks(s2c, Statuses) /\ Lacks(c2s, Requests \ Inits)
      BY <1>1, <2>2 DEF BlocksRight, Opened
    <3>2. /\ Request \in ThisBlock /\ Request \in Datas /\ Request \notin Inits /\ Request \notin Others
          /\ Request \notin StatusReads
      BY <1>2, <2>2, Kinds
    <3>3. ThisBlock = {Request}
      BY <3>2 DEF ThisBlock
    <3>4. /\ ThisBlock \in SUBSET (Requests \ Inits) /\ StatusReads \in SUBSET (Requests \ Inits)
          /\ Others \in SUBSET (Requests \ Inits)
          /\ FlashOps \ (Inits \cup ThisBlock) \in SUBSET (Requests \ Inits)
      <4>1. ThisBlock \in SUBSET (Requests \ Inits)
        BY <1>2, <3>2, <3>3
      <4>2. StatusReads \in SUBSET (Requests \ Inits)
        BY Messages DEF StatusReads, Inits, Read, Readable
      <4>3. Others \in SUBSET (Requests \ Inits)
        BY DEF Others
      <4>4. FlashOps \ (Inits \cup ThisBlock) \in SUBSET (Requests \ Inits)
        BY Kinds
      <4> QED
        BY <4>1, <4>2, <4>3, <4>4
    <3>5. /\ Lacks(c2s, ThisBlock) /\ Lacks(c2s, StatusReads) /\ Lacks(c2s, Others)
          /\ Lacks(c2s, FlashOps \ (Inits \cup ThisBlock))
      BY <3>1, <3>4, Parts
    <3>6. /\ Lacks(c2s', StatusReads) /\ Lacks(c2s', Others) /\ Lacks(c2s', FlashOps \ (Inits \cup ThisBlock))
      BY <1>3, <3>2, <3>5
    <3>7. ~Lacks(c2s', ThisBlock) /\ Single(c2s', ThisBlock)
      BY <1>1, <1>2, <3>2, <3>5, OneOfAKind
    <3>8. Ahead(c2s, Inits, ThisBlock) /\ Ahead(c2s', ThisBlock, StatusReads) /\ Ahead(c2s', ThisBlock, Others)
      BY <3>5, <3>6 DEF Lacks, Ahead
    <3>9. Ahead(c2s', Inits, ThisBlock)
      BY <1>3, <3>2, <3>8
    <3>10. Lacks(s2c', Statuses)
      BY <1>3, <3>1
    <3>11. Sent'
      BY <1>1, <1>4, <3>1, <3>6, <3>7, <3>8, <3>9, <3>10, KindsStay DEF Sent, InFlight, Pending
    <3> QED
      BY <1>1, <1>4, <2>2, <3>1, <3>11 DEF BlocksRight
  <2>3. CASE pc = "waitBlock"
    <3>1. Stored /\ Sent /\ Request \notin FlashOps
      BY <1>2, <2>3 DEF BlocksRight
    <3>2. CASE InFlight
      <4>1. Request \notin ThisBlock \/ Request \in Datas
        BY <1>2, ConstantsOK DEF ThisBlock, Datas, Data
      <4>2. Request \notin ThisBlock /\ Request \notin Inits
        BY <3>1, <4>1, Kinds
      <4>3. Request \notin FlashOps \ (Inits \cup ThisBlock)
        BY <3>1
      <4>4. /\ ~Lacks(c2s', ThisBlock) /\ Single(c2s', ThisBlock) /\ Ahead(c2s', ThisBlock, StatusReads)
            /\ Lacks(s2c', Statuses) /\ Lacks(c2s', FlashOps \ (Inits \cup ThisBlock))
            /\ Ahead(c2s', Inits, ThisBlock) /\ Ahead(c2s', ThisBlock, Others)
        BY <1>3, <3>2, <4>2, <4>3 DEF InFlight, Pending
      <4>5. Sent'
        BY <1>1, <1>4, <3>2, <4>4, KindsStay DEF Sent, InFlight, Pending
      <4> QED
        BY <1>1, <1>4, <2>3, <3>1, <4>5 DEF BlocksRight
    <3>3. CASE Programmed
      <4>1. /\ Taken("program") /\ Ahead(s2c', ProgAcks, Statuses) /\ (work = "program" => target = blk + 1)
            /\ Lacks(c2s', FlashOps)
        BY <1>3, <3>1, <3>3 DEF Programmed, Taken
      <4>2. Taken("program")'
        BY <1>1, <4>1, TakenStays
      <4>3. Sent'
        BY <1>1, <4>1, <4>2, KindsStay DEF Sent, Programmed
      <4> QED
        BY <1>1, <1>4, <2>3, <3>1, <4>3 DEF BlocksRight
    <3> QED
      BY <3>1, <3>2, <3>3 DEF Sent
  <2> QED
    BY <1>1, <2>1, <2>2, <2>3 DEF BlocksRight
<1>9. SignatureRight'
  <2>1. CASE pc \in Trying
    <3>1. Complete /\ AtRest /\ PollsOver /\ Request \notin FlashOps /\ Request \notin StatusReads
      BY <1>2, <2>1 DEF SignatureRight, Trying, StatusWaits
    <3>2. PollsOver'
      BY <1>1, <1>3, <1>4, <3>1, KindsStay DEF PollsOver
    <3> QED
      BY <1>1, <1>4, <1>5, <2>1, <3>1, <3>2 DEF SignatureRight, Trying, Returning
  <2>2. CASE pc \in Returning \cup {"newVersion"}
    <3>1. Complete /\ AtRest /\ NoPolls /\ Request \notin FlashOps /\ Request \notin StatusReads
      BY <1>2, <2>2 DEF SignatureRight, Returning, StatusWaits
    <3> QED
      BY <1>1, <1>4, <1>5, <1>6, <2>2, <3>1 DEF SignatureRight, Trying, Returning
  <2>3. CASE pc = "sign"
    <3>1. Complete /\ AtRest /\ NoPolls
      BY <1>1, <2>3 DEF SignatureRight
    <3>2. Ordered(SignOrders, "sign")'
      BY <1>1, <1>2, <2>3, <3>1, OrderGiven
    <3> QED
      BY <1>1, <1>4, <2>3, <3>1, <3>2, KindsStay DEF SignatureRight, Trying, Returning
  <2>4. CASE pc = "waitSign"
    <3>1. Complete /\ Ordered(SignOrders, "sign") /\ Request \notin FlashOps
      BY <1>2, <2>4 DEF SignatureRight
    <3>2. Ordered(SignOrders, "sign")'
      BY <1>1, <1>2, <3>1, OrderedStays
    <3> QED
      BY <1>1, <1>4, <2>4, <3>1, <3>2, KindsStay DEF SignatureRight, Trying, Returning
  <2>5. CASE pc \in {"finalStart", "finalCheck", "done"}
    <3>1. Complete /\ AtRest /\ signed /\ Request \notin FlashOps
      BY <1>2, <2>5 DEF SignatureRight
    <3> QED
      BY <1>1, <1>4, <1>5, <2>5, <3>1 DEF SignatureRight, Trying, Returning
  <2> QED
    BY <1>1, <2>1, <2>2, <2>3, <2>4, <2>5 DEF SignatureRight
<1>10. LastPhases'
  <2>1. pc \in {"finalStart", "finalCheck", "done"} => Request \notin Entering
    BY <1>2
  <2> QED
    BY <1>1, <1>3, <1>4, <2>1, KindsStay DEF LastPhases
<1> QED
  BY <1>7, <1>8, <1>9, <1>10

\* The tool's way through the flash, and what lets it past each step.
LEMMA Ways ==
  ASSUME Typed, Proceeds
  PROVE  /\ pc' \in BeforeErase => pc \in BeforeErase
         /\ pc' \in UpToClear => pc \in UpToClear
         /\ pc' = "clear" => IF pc = "clear" THEN waiting' = waiting ELSE waiting' = FALSE
         /\ pc' = "waitClear" => pc = "waitClear" \/ (pc = "clear" /\ waiting)
         /\ pc' = "download" => \/ pc = "download" /\ blk' = blk
                                \/ pc = "waitClear" /\ s2c # <<>> /\ Head(s2c) \in OkStatuses /\ blk' = blk
                                \/ pc = "waitBlock" /\ s2c # <<>> /\ Head(s2c) \in OkStatuses /\ blk' = blk + 1
         /\ pc' = "data" => /\ blk' = blk
                            /\ \/ pc = "data" /\ waiting' = waiting
                               \/ pc = "download" /\ waiting' = FALSE /\ s2c # <<>> /\ Head(s2c) \in ProgAcks
         /\ pc' = "waitBlock" => blk' = blk /\ (pc = "waitBlock" \/ (pc = "data" /\ waiting))
         /\ pc' = "firstStart" => \/ pc = "firstStart"
                                  \/ /\ pc = "waitBlock" /\ s2c # <<>> /\ Head(s2c) \in OkStatuses
                                     /\ blk + 1 = NumBlocks
         /\ pc' = "checkApp" => pc \in Trying
         /\ pc' = "newVersion" => pc = "newVersion" \/ (pc = "checkApp" /\ s2c # <<>> /\ Head(s2c) \in InApp)
         /\ pc' \in Returning => pc \in Returning \cup {"newVersion"}
         /\ pc' = "sign" => \/ pc = "sign" /\ waiting' = waiting
                            \/ pc = "waitReenter" /\ waiting' = FALSE /\ s2c # <<>> /\ Head(s2c) \in InBoot
         /\ pc' = "waitSign" => pc = "waitSign" \/ (pc = "sign" /\ waiting)
         /\ pc' = "finalStart" => pc = "finalStart" \/ (pc = "waitSign" /\ s2c # <<>> /\ Head(s2c) \in OkStatuses)
         /\ pc' = "finalCheck" => pc \in {"finalStart", "finalCheck"}
         /\ pc' = "done" => pc = "done" \/ (pc = "finalCheck" /\ s2c # <<>> /\ Head(s2c) \in InApp)
<1>1. /\ Moves
      /\ pc' # pc => waiting' = FALSE
      /\ blk' = IF pc = "waitBlock" /\ pc' \in {"download", "firstStart"} THEN blk + 1 ELSE blk
      /\ pc \in {"clear", "sign", "data"} => IF pc' = pc THEN waiting' = waiting ELSE waiting \/ pc' = "failed"
      /\ pc = "download" => pc' \in {pc, "failed"} \/ (s2c # <<>> /\ Head(s2c) \in ProgAcks)
      /\ pc \in StatusWaits => pc' \in {pc, "failed"} \/ (s2c # <<>> /\ Head(s2c) \in OkStatuses)
  BY DEF Proceeds
<1>2. /\ pc' \in UpToClear => pc \in UpToClear
      /\ pc' = "newVersion" => pc = "newVersion" \/ (pc = "checkApp" /\ s2c # <<>> /\ Head(s2c) \in InApp)
      /\ pc' \in Returning => pc \in Returning \cup {"newVersion"}
      /\ pc' \in Signing => pc \in Signing \/ (pc = "waitReenter" /\ s2c # <<>> /\ Head(s2c) \in InBoot)
  BY <1>1, Route
<1>3. CASE pc' = pc
  BY <1>1, <1>3 DEF UpToClear, BeforeErase, Returning, Trying
<1>4. CASE pc' = "failed"
  BY <1>4 DEF UpToClear, BeforeErase, Returning
<1>5. CASE pc = "checkBoot" /\ pc' \in {"blVersion", "appVersion"}
  BY <1>5 DEF UpToClear, BeforeErase, Returning
<1>6. CASE pc \in Active \ {"checkBoot"} /\ pc' = NextStep /\ pc' # pc
  <2>1. waiting' = FALSE /\ (pc \in {"clear", "sign", "data"} => waiting \/ pc' = "failed")
    BY <1>1, <1>6
  <2>2. /\ pc' \in BeforeErase => pc \in BeforeErase
        /\ pc' = "waitClear" => pc = "clear"
        /\ pc' = "download" => pc \in {"waitClear", "waitBlock"}
        /\ pc' = "data" => pc = "download"
        /\ pc' = "waitBlock" => pc = "data"
        /\ pc' = "firstStart" => pc = "waitBlock"
        /\ pc' = "checkApp" => pc = "firstStart"
        /\ pc' = "sign" => pc = "waitReenter"
        /\ pc' = "waitSign" => pc = "sign"
        /\ pc' = "finalStart" => pc = "waitSign"
        /\ pc' = "finalCheck" => pc = "finalStart"
        /\ pc' = "done" => pc = "finalCheck"
    BY <1>6, NextSteps DEF Active, Reading, Polling, BootWaits, AppWaits, StatusWaits, Infos, Queries, Controls,
         Commands, FirstCheck, AfterBlock, BeforeErase
  <2>3. pc' = "firstStart" => blk + 1 = NumBlocks
    BY <1>6, <2>2, NextSteps DEF AfterBlock
  <2>4. pc' = "done" => s2c # <<>> /\ Head(s2c) \in InApp
    <3> SUFFICES ASSUME pc' = "done" PROVE s2c # <<>> /\ Head(s2c) \in InApp
      OBVIOUS
    <3>1. /\ s2c # <<>> /\ Head(s2c).kind = "value" /\ Head(s2c).obj = Object(pc)
          /\ Passed("ok", Head(s2c).val) /\ pc = "finalCheck"
      BY <1>1, <1>6, <2>2 DEF Moves, Infos, Controls, Commands
    <3>2. Head(s2c) \in Responses
      BY <3>1, TailRests DEF Typed, TypeOK
    <3>3. Head(s2c).obj = "devType" /\ Head(s2c).val \notin BootTypes
      <4>1. Object(pc) = "devType"
        BY <3>1 DEF Object, BootWaits, AppWaits, StatusWaits, Infos, Controls, Commands
      <4>2. Passes(Head(s2c).val)
        BY <3>1 DEF Passed
      <4>3. Head(s2c).val \notin BootTypes
        BY <3>1, <4>2 DEF Passes, BootWaits, AppWaits, StatusWaits
      <4> QED
        BY <3>1, <4>1, <4>3
    <3> QED
      BY <3>1, <3>2, <3>3 DEF InApp, Values
  <2>5. /\ pc' = "download" => s2c # <<>> /\ Head(s2c) \in OkStatuses
        /\ pc' = "firstStart" => s2c # <<>> /\ Head(s2c) \in OkStatuses
        /\ pc' = "finalStart" => s2c # <<>> /\ Head(s2c) \in OkStatuses
        /\ pc' = "data" => s2c # <<>> /\ Head(s2c) \in ProgAcks
    BY <1>1, <1>6, <2>2 DEF StatusWaits
  <2>6. pc' = "sign" => s2c # <<>> /\ Head(s2c) \in InBoot
    BY <1>2, <2>2 DEF Signing
  <2> QED
    BY <1>1, <1>2, <2>1, <2>2, <2>3, <2>4, <2>5, <2>6 DEF Trying
<1>7. \/ pc' \in {pc, "failed"}
      \/ pc = "checkBoot" /\ pc' \in {"blVersion", "appVersion"}
      \/ pc \in Active \ {"checkBoot"} /\ pc' = NextStep
  BY <1>1 DEF Moves, Passed, Active, Reading, Polling, BootWaits, AppWaits, StatusWaits, Infos, Queries, Controls,
       Commands
<1> QED
  BY <1>3, <1>4, <1>5, <1>6, <1>7

\* A good status tells of the end of the operation it was asked about.
LEMMA OkTells ==
  ASSUME Typed, s2c # <<>>, Head(s2c) \in OkStatuses
  PROVE  /\ \A w : Taken(w) => work = "none" /\ sdo = "idle" /\ Effect(w) /\ Lacks(c2s, FlashOps)
         /\ \A S : ~Pending(S)
         /\ ~InFlight
<1>1. Head(s2c) \in Statuses /\ s2c \in Seq(Responses)
  BY Kinds DEF Typed, TypeOK
<1>2. ~Lacks(s2c, OkStatuses) /\ ~Lacks(s2c, Statuses)
  BY <1>1, HeadOf
<1> QED
  BY <1>2 DEF Taken, Begun, Pending, InFlight

\* The tool goes on: it erased, wrote and signed what it goes by.
LEMMA ProceedsRight ==
  ASSUME Typed, Phases, Proceeds, UNCHANGED <<node, given>>,
         EraseRight, BlocksRight, SignatureRight, LastPhases
  PROVE  (EraseRight /\ BlocksRight /\ SignatureRight /\ LastPhases)'
<1>1. /\ c2s \in Seq(Requests) /\ s2c \in Seq(Responses) /\ s2c' \in Seq(Responses) /\ Rest(s2c', s2c)
      /\ c2s' = c2s /\ mode \in {"boot", "app"} /\ blk \in Nat /\ NumBlocks \in Nat \ {0}
      /\ UNCHANGED <<mode, sdo, work, target, status, flash, written, signed>>
      /\ written \subseteq 1..NumBlocks
  BY ConstantsOK DEF Proceeds, Moves, Typed, TypeOK, node, area
<1>2. ASSUME NEW S, NEW T
      PROVE  (Lacks(s2c, S) => Lacks(s2c', S)) /\ (Ahead(s2c, S, T) => Ahead(s2c', S, T))
  BY <1>1, RestKeeps
<1>3. /\ Complete' = Complete /\ InApp' = InApp /\ InBoot' = InBoot /\ (AtRest => AtRest') /\ (NoPolls => NoPolls')
  BY <1>1, <1>2, KindsStay DEF Complete, InApp, InBoot, BootTypes, given, AtRest, NoPolls
<1>4. s2c # <<>> => /\ Lacks(s2c, InApp) => Head(s2c) \notin InApp
                    /\ Head(s2c) \in InBoot /\ Ahead(s2c, InApp, InBoot) => Lacks(s2c, InApp)
                    /\ Head(s2c) \in InApp /\ Ahead(s2c, Statuses, InApp) => Lacks(s2c, Statuses)
                    /\ Head(s2c) \in ProgAcks /\ Ahead(s2c, Statuses, ProgAcks) => Lacks(s2c, Statuses)
                    /\ Head(s2c) \in OkStatuses /\ Ahead(s2c, ProgAcks, Statuses) => Lacks(s2c, ProgAcks)
                    /\ Lacks(s2c, ProgAcks) => Head(s2c) \notin ProgAcks
  BY <1>1, HeadOf, Kinds
<1>5. ASSUME NEW S \in {Clears, SignOrders}, NEW w, Ordered(S, w), blk' = blk PROVE Ordered(S, w)'
  BY <1>1, <1>5, OrderedStays
<1>6. EraseRight'
  <2>1. pc' \in UpToClear /\ ~(pc' = "clear" /\ waiting') => AtRest'
    <3> SUFFICES ASSUME pc' \in UpToClear, ~(pc' = "clear" /\ waiting') PROVE AtRest'
      OBVIOUS
    <3>1. pc \in UpToClear
      BY Ways
    <3>2. pc = "clear" => pc' = "clear" /\ ~waiting
      <4>1. Moves
        BY DEF Proceeds
      <4>2. pc = "clear" => pc' = "clear"
        BY <4>1, Route DEF UpToClear, BeforeErase
      <4> QED
        BY <4>2, Ways
    <3> QED
      BY <1>3, <3>1, <3>2 DEF EraseRight
  <2>2. pc' \in BeforeErase => Lacks(s2c', ProgAcks)
    BY <1>2, Ways DEF EraseRight
  <2>3. ASSUME pc' = "waitClear" \/ (pc' = "clear" /\ waiting') PROVE Ordered(Clears, "erase")'
    <3>1. pc = "waitClear" \/ (pc = "clear" /\ waiting)
      BY <2>3, Ways
    <3>2. blk' = blk
      BY <3>1 DEF Proceeds
    <3> QED
      BY <1>5, <3>1, <3>2 DEF EraseRight
  <2> QED
    BY <2>1, <2>2, <2>3, KindsStay DEF EraseRight, UpToClear, BeforeErase
<1>7. BlocksRight'
  <2>1. ASSUME pc' = "download" PROVE (Stored /\ Initiating)'
    <3>1. CASE pc = "download" /\ blk' = blk
      <4>1. Stored /\ Initiating
        BY <3>1 DEF BlocksRight
      <4> QED
        BY <1>1, <1>2, <3>1, <4>1, KindsStay DEF Stored, Initiating
    <3>2. ASSUME work = "none", sdo = "idle", Lacks(c2s, FlashOps), Lacks(s2c, ProgAcks) PROVE Initiating'
      <4>1. Lacks(c2s, FlashOps \ Inits) /\ Lacks(c2s, Inits)
        BY <3>2, Kinds, Parts
      <4>2. Ahead(c2s, Others, Inits)
        BY <1>1, <4>1, HeadOf
      <4>3. Lacks(s2c', ProgAcks)
        BY <1>2, <3>2
      <4>4. Ahead(s2c', Statuses, ProgAcks)
        BY <1>1, <4>3, HeadOf
      <4> QED
        BY <1>1, <3>2, <4>1, <4>2, <4>3, <4>4, KindsStay DEF Initiating
    <3>3. CASE pc = "waitClear" /\ s2c # <<>> /\ Head(s2c) \in OkStatuses /\ blk' = blk
      <4>1. Ordered(Clears, "erase") /\ Lacks(s2c, ProgAcks) /\ blk = 0
        BY <3>3 DEF EraseRight, BeforeErase, Typed, Bounds
      <4>2. Taken("erase")
        BY <3>3, <4>1, OkTells DEF Ordered
      <4>3. work = "none" /\ sdo = "idle" /\ flash = "erased" /\ Lacks(c2s, FlashOps)
        BY <3>3, <4>2, OkTells DEF Effect
      <4>4. Stored'
        BY <1>1, <3>3, <4>1, <4>3 DEF Stored
      <4> QED
        BY <3>2, <4>1, <4>3, <4>4
    <3>4. CASE pc = "waitBlock" /\ s2c # <<>> /\ Head(s2c) \in OkStatuses /\ blk' = blk + 1
      <4>1. Stored /\ Programmed
        BY <3>4, OkTells DEF BlocksRight, Sent
      <4>2. work = "none" /\ sdo = "idle" /\ Effect("program") /\ Lacks(c2s, FlashOps)
        BY <3>4, <4>1, OkTells DEF Programmed
      <4>3. blk + 1 \in written /\ 1..blk \subseteq written /\ flash = "erased"
        BY <4>1, <4>2 DEF Effect, Stored
      <4>4. Stored'
        BY <1>1, <3>4, <4>3 DEF Stored
      <4>5. Lacks(s2c, ProgAcks)
        BY <1>4, <3>4, <4>1 DEF Programmed
      <4> QED
        BY <3>2, <4>2, <4>4, <4>5
    <3> QED
      BY <2>1, <3>1, <3>3, <3>4, Ways
  <2>2. ASSUME pc' = "data", ~waiting' PROVE (Stored /\ Opened)'
    <3>1. blk' = blk
      BY <2>2, Ways
    <3>2. CASE pc = "data" /\ waiting' = waiting
      <4>1. Stored /\ Opened
        BY <2>2, <3>2 DEF BlocksRight
      <4> QED
        BY <1>1, <1>2, <3>1, <4>1, KindsStay DEF Stored, Opened
    <3>3. CASE pc = "download" /\ s2c # <<>> /\ Head(s2c) \in ProgAcks
      <4>1. Stored /\ Initiating
        BY <3>3 DEF BlocksRight
      <4>2. sdo = "download" /\ Lacks(s2c, Statuses) /\ work = "none" /\ Lacks(c2s, Others) /\ Lacks(c2s, FlashOps \ Inits)
        BY <1>4, <3>3, <4>1 DEF Initiating
      <4>3. Lacks(c2s, Requests \ Inits)
        <5>1. Requests \ Inits \subseteq Others \cup (FlashOps \ Inits)
          BY DEF Others, FlashOps
        <5> QED
          BY <4>2, <5>1 DEF Lacks
      <4>4. Opened'
        BY <1>1, <1>2, <4>2, <4>3, KindsStay DEF Opened
      <4> QED
        BY <1>1, <3>1, <4>1, <4>4 DEF Stored
    <3> QED
      BY <2>2, <3>2, <3>3, Ways
  <2>3. ASSUME pc' = "waitBlock" \/ (pc' = "data" /\ waiting') PROVE (Stored /\ Sent)'
    <3>1. blk' = blk /\ (pc = "waitBlock" \/ (pc = "data" /\ waiting))
      BY <2>3, Ways
    <3>2. Stored /\ Sent
      BY <3>1 DEF BlocksRight
    <3>3. ThisBlock' = ThisBlock
      BY <3>1 DEF ThisBlock
    <3>4. CASE InFlight
      <4>1. InFlight'
        BY <1>1, <1>2, <3>3, <3>4, KindsStay DEF InFlight, Pending
      <4> QED
        BY <1>1, <3>1, <3>2, <4>1 DEF Stored, Sent
    <3>5. CASE Programmed
      <4>1. Taken("program") /\ Lacks(c2s', FlashOps)
        BY <1>1, <3>5 DEF Programmed, Taken
      <4>2. Taken("program")'
        BY <1>1, <3>1, <4>1, TakenStays
      <4>3. Programmed'
        BY <1>1, <1>2, <3>1, <3>5, <4>2, KindsStay DEF Programmed
      <4> QED
        BY <1>1, <3>1, <3>2, <4>3 DEF Stored, Sent
    <3> QED
      BY <3>2, <3>4, <3>5 DEF Sent
  <2> QED
    BY <2>1, <2>2, <2>3 DEF BlocksRight
<1>8. SignatureRight'
  <2>1. ASSUME pc' \in Trying PROVE (Complete /\ AtRest /\ PollsOver)'
    <3>1. CASE pc \in Trying
      <4>1. Complete /\ AtRest /\ PollsOver
        BY <3>1 DEF SignatureRight
      <4>2. PollsOver'
        BY <1>1, <1>2, <1>3, <4>1, KindsStay DEF PollsOver
      <4> QED
        BY <1>3, <4>1, <4>2
    <3>2. CASE pc = "waitBlock" /\ s2c # <<>> /\ Head(s2c) \in OkStatuses /\ blk + 1 = NumBlocks
      <4>1. Stored /\ Programmed /\ mode = "boot" /\ Lacks(c2s, Starting)
        BY <3>2, OkTells DEF BlocksRight, Sent, Phases, Loading
      <4>2. work = "none" /\ sdo = "idle" /\ Effect("program") /\ Lacks(c2s, FlashOps)
        BY <3>2, <4>1, OkTells DEF Programmed
      <4>3. blk + 1 \in written /\ 1..blk \subseteq written /\ flash = "erased"
        BY <4>1, <4>2 DEF Effect, Stored
      <4>4. written = 1..NumBlocks
        <5>1. \A i \in 1..NumBlocks : i \in 1..blk \/ i = blk + 1
          BY <1>1, <3>2
        <5>2. \A i \in 1..NumBlocks : i \in written
          BY <4>3, <5>1
        <5> QED
          BY <1>1, <5>2
      <4>5. Ahead(c2s, StatusReads, Starting)
        BY <1>1, <4>1, HeadOf
      <4>6. PollsOver'
        BY <1>1, <4>1, <4>5, KindsStay DEF PollsOver
      <4> QED
        BY <1>3, <4>2, <4>3, <4>4, <4>6 DEF Complete, AtRest
    <3> QED
      BY <2>1, <3>1, <3>2, Ways DEF Trying
  <2>2. ASSUME pc' \in Returning \cup {"newVersion"} \/ (pc' = "sign" /\ ~waiting')
        PROVE  (Complete /\ AtRest /\ NoPolls)'
    <3>1. CASE pc \in Returning \cup {"newVersion"} \/ (pc = "sign" /\ ~waiting)
      BY <1>3, <3>1 DEF SignatureRight
    <3>2. CASE pc = "checkApp" /\ s2c # <<>> /\ Head(s2c) \in InApp
      <4>1. Complete /\ AtRest /\ PollsOver /\ mode = "app"
        BY <1>1, <1>4, <3>2 DEF SignatureRight, Phases, Trying
      <4>2. NoPolls
        BY <1>4, <3>2, <4>1 DEF PollsOver, NoPolls
      <4> QED
        BY <1>3, <4>1, <4>2
    <3> QED
      BY <2>2, <3>1, <3>2, Ways DEF Returning
  <2>3. ASSUME pc' = "waitSign" \/ (pc' = "sign" /\ waiting') PROVE (Complete /\ Ordered(SignOrders, "sign"))'
    <3>1. pc = "waitSign" \/ (pc = "sign" /\ waiting)
      BY <2>3, Ways
    <3>2. blk' = blk
      BY <3>1 DEF Proceeds
    <3> QED
      BY <1>3, <1>5, <3>1, <3>2 DEF SignatureRight
  <2>4. ASSUME pc' \in {"finalStart", "finalCheck", "done"} PROVE (Complete /\ AtRest /\ signed)'
    <3>1. CASE pc \in {"finalStart", "finalCheck", "done"}
      BY <1>1, <1>3, <3>1 DEF SignatureRight
    <3>2. CASE pc = "waitSign" /\ s2c # <<>> /\ Head(s2c) \in OkStatuses
      <4>1. Complete /\ Taken("sign")
        BY <3>2, OkTells DEF SignatureRight, Ordered
      <4>2. work = "none" /\ sdo = "idle" /\ Effect("sign") /\ Lacks(c2s, FlashOps)
        BY <3>2, <4>1, OkTells
      <4>3. signed
        BY <4>2 DEF Effect
      <4> QED
        BY <1>1, <1>3, <4>1, <4>2, <4>3 DEF AtRest
    <3> QED
      BY <2>4, <3>1, <3>2, Ways
  <2> QED
    BY <2>1, <2>2, <2>3, <2>4, KindsStay DEF SignatureRight, Trying, Returning
<1>9. LastPhases'
  <2>1. ASSUME pc' \in Returning PROVE Ahead(s2c', InApp, InBoot)
    <3>1. CASE pc \in Returning
      BY <1>2, <3>1 DEF LastPhases
    <3>2. CASE pc = "newVersion"
      <4>1. Lacks(s2c', InBoot)
        BY <1>2, <3>2 DEF Phases
      <4> QED
        BY <1>1, <4>1, HeadOf
    <3> QED
      BY <2>1, <3>1, <3>2, Ways
  <2>2. ASSUME pc' \in Signing PROVE Lacks(s2c', InApp)
    <3>1. pc \in Signing \/ (pc = "waitReenter" /\ s2c # <<>> /\ Head(s2c) \in InBoot)
      BY <2>2, Ways DEF Signing
    <3> QED
      BY <1>2, <1>4, <3>1 DEF LastPhases, Returning
  <2>3. ASSUME pc' \in {"finalStart", "finalCheck"}
        PROVE  \/ mode = "boot" /\ Lacks(s2c', InApp) /\ Ahead(c2s, Entering, Starting)
               \/ mode = "app" /\ Lacks(c2s, Entering)
    <3>1. CASE pc \in {"finalStart", "finalCheck"}
      BY <1>2, <3>1 DEF LastPhases
    <3>2. CASE pc = "waitSign"
      <4>1. mode = "boot" /\ Lacks(c2s, Starting) /\ Lacks(s2c', InApp)
        BY <1>2, <3>2 DEF LastPhases, Phases, Signing
      <4> QED
        BY <1>1, <4>1, HeadOf
    <3> QED
      BY <2>3, <3>1, <3>2, Ways
  <2>4. ASSUME pc' = "done" PROVE mode = "app" /\ Lacks(c2s, Entering)
    <3>1. CASE pc = "done"
      BY <3>1 DEF LastPhases
    <3>2. CASE pc = "finalCheck" /\ s2c # <<>> /\ Head(s2c) \in InApp
      BY <1>4, <3>2 DEF LastPhases
    <3> QED
      BY <2>4, <3>1, <3>2, Ways
  <2> QED
    BY <1>1, <1>3, <2>1, <2>2, <2>3, <2>4, KindsStay DEF LastPhases
<1> QED
  BY <1>6, <1>7, <1>8, <1>9

\* Every step keeps what the tool goes by.
LEMMA StepRight ==
  ASSUME Typed, SmokeInv, ModeInv, RightInv, [Next]_vars
  PROVE  RightInv'
<1> SUFFICES ASSUME RequestsArrive' PROVE (EraseRight /\ BlocksRight /\ SignatureRight /\ LastPhases)'
  BY DEF RightInv
<1>1. UNCHANGED given
  BY DEF Next, ToolNext, NodeNext, MishapNext, vars, Issue, Resend, Receive, SkipFrame, Timeout, Disconnect,
         FileError, Rerun, NodeReset, NodeOutOfPlace, NodeRead, NodeSwitch, NodeStay, NodeClear, NodeSign,
         NodeInitiate, NodeData, NodeIgnore, NodeRefuse, NodeCold, FinishWork, FlashFault, PowerCycle,
         LoseRequest, LoseResponse, LoseSegments
<1>2. RequestsArrive
  BY <1>1 DEF RequestsArrive, given
<1>3. EraseRight /\ BlocksRight /\ SignatureRight /\ LastPhases /\ Phases /\ ClearsFirst
  <2>1. world.mishaps \cap {"powerCycle", "kill"} = {} /\ "kill" \notin world.mishaps
    BY <1>2 DEF RequestsArrive
  <2> QED
    BY <1>2, <2>1 DEF RightInv, ModeInv, SmokeInv
<1>4. CASE ToolNext \/ Disconnect \/ FileError \/ Rerun
  <2>1. UNCHANGED <<node, given>> /\ (Asks \/ Proceeds)
    BY <1>2, <1>4, ToolSteps, ToolAsksOrProceeds
  <2> QED
    BY <1>3, <2>1, AsksRight, ProceedsRight
<1>5. CASE NodeNext \/ NodeCold \/ FlashFault \/ PowerCycle \/ LoseRequest \/ LoseResponse \/ LoseSegments
  <2>1. /\ Answers \/ (Plain /\ NodeDoes)
        /\ Rest(c2s', c2s) /\ UNCHANGED <<client, given>>
        /\ c2s' \in Seq(Requests) /\ s2c' \in Seq(Responses)
    BY <1>5, NodeSteps
  <2>2. NodeStep
    BY <1>2, <1>5, <2>1, NodeWorks DEF NodeStep
  <2>3. ~Restarts
    BY <1>2 DEF Restarts, RequestsArrive
  <2> QED
    BY <1>3, <2>1, <2>2, <2>3, NodeRight
<1>6. CASE UNCHANGED vars
  <2>1. /\ UNCHANGED <<pc, waiting, blk, mode, sdo, work, target, status, flash, written, signed, world>>
        /\ c2s' = c2s /\ s2c' = s2c
    BY <1>6 DEF vars, client, node, area, given
  <2>2. /\ InApp' = InApp /\ InBoot' = InBoot /\ ThisBlock' = ThisBlock /\ Stored' = Stored /\ Complete' = Complete
        /\ AtRest' = AtRest /\ NoPolls' = NoPolls
    BY <2>1, KindsStay DEF InApp, InBoot, BootTypes, ThisBlock, Stored, Complete, AtRest, NoPolls
  <2>3. /\ Taken("erase")' = Taken("erase") /\ Taken("program")' = Taken("program") /\ Taken("sign")' = Taken("sign")
    BY <2>1, KindsStay DEF Taken, Begun, Effect
  <2>4. /\ Ordered(Clears, "erase")' = Ordered(Clears, "erase")
        /\ Ordered(SignOrders, "sign")' = Ordered(SignOrders, "sign")
    BY <2>1, <2>3, KindsStay DEF Ordered, Pending
  <2>5. Initiating' = Initiating /\ Opened' = Opened /\ PollsOver' = PollsOver
    BY <2>1, <2>2, KindsStay DEF Initiating, Opened, PollsOver
  <2>6. Sent' = Sent
    BY <2>1, <2>2, <2>3, KindsStay DEF Sent, InFlight, Pending, Programmed
  <2>7. EraseRight' /\ BlocksRight'
    BY <1>3, <2>1, <2>2, <2>4, <2>5, <2>6, KindsStay DEF EraseRight, BlocksRight, UpToClear, BeforeErase
  <2>8. SignatureRight' /\ LastPhases'
    BY <1>3, <2>1, <2>2, <2>4, <2>5, KindsStay DEF SignatureRight, LastPhases, Trying, Returning, Signing
  <2> QED
    BY <2>7, <2>8
<1> QED
  BY <1>4, <1>5, <1>6 DEF Next, MishapNext

\* A run starts with its node at rest.
LEMMA InitRight == Init => RightInv
<1> SUFFICES ASSUME Init PROVE RightInv
  OBVIOUS
<1>1. /\ Len(c2s) = 1 /\ c2s[1] = Reset /\ Len(s2c) = 0 /\ pc = "checkBoot" /\ work = "none" /\ sdo = "idle"
  BY DEF Init
<1>2. Lacks(c2s, FlashOps) /\ Lacks(s2c, ProgAcks)
  <2>1. Reset \notin FlashOps
    BY Messages, Kinds DEF FlashOps, Orders, Reset
  <2> QED
    BY <1>1, <2>1 DEF Lacks
<1>3. EraseRight
  BY <1>1, <1>2 DEF EraseRight, AtRest
<1>4. BlocksRight /\ SignatureRight /\ LastPhases
  BY <1>1 DEF BlocksRight, SignatureRight, LastPhases, Trying, Returning, Signing
<1> QED
  BY <1>3, <1>4 DEF RightInv

-----------------------------------------------------------------------------
(* The theorems                                                            *)

\* The invariant of a run and what follows from it.
Guarded == Typed /\ Identified /\ SmokeInv /\ ModeInv /\ RightInv

\* Guarded is an invariant of the specification.
LEMMA GuardedAlways == Spec => []Guarded
<1>1. Init => Guarded
  BY InitTyped, InitGuarded, InitRight DEF Guarded
<1>2. Guarded /\ [Next]_vars => Guarded'
  BY StepTyped, StepIdentified, StepSmoke, StepPhases, StepRight DEF Guarded
<1> QED
  BY <1>1, <1>2, PTL DEF Spec

\* Whatever goes wrong, and however often the tool is run again, the flash of a node
\* that fails a configured validation is left alone.
THEOREM IdentityGuards == Spec => []IdentityGuardsFlash
<1>1. Guarded => IdentityGuardsFlash
  BY DEF Guarded, Identified, IdentityGuardsFlash, Match
<1> QED
  BY <1>1, GuardedAlways, PTL

\* As long as the tool is not run a second time, no order of any number of mishaps gets
\* past the steps that guard the flash: identity, bootloader, smoke test.
THEOREM FlashGuarded == Spec => []("kill" \notin world.mishaps => FlashIsGuarded)
<1>1. ASSUME Guarded, "kill" \notin world.mishaps PROVE FlashIsGuarded
  <2>1. IdentityGuardsFlash
    BY <1>1 DEF Guarded, Identified, IdentityGuardsFlash, Match
  <2>2. SignedImageHasRun
    BY <1>1 DEF Guarded, SmokeInv, NodeSmoke, Fresh, SignedImageHasRun
  <2>3. FlashCommandsReachBootloader
    <3> SUFFICES ASSUME RequestsArrive, c2s # <<>>,
                        \/ Head(c2s).op = "initiate"
                        \/ Head(c2s).op = "control" /\ Head(c2s).code \in {"clear", "sign"}
                 PROVE  mode = "boot"
      BY DEF FlashCommandsReachBootloader
    <3>1. c2s \in Seq(Requests) /\ mode \in {"boot", "app"} /\ Head(c2s) \in Requests
      BY <1>1, TailRests DEF Guarded, Typed, TypeOK
    <3>2. Head(c2s) \in Flashing
      BY <3>1, Fields DEF Flashing, Clears, SignOrders
    <3>3. Shielded
      BY <1>1 DEF Guarded, ModeInv, RequestsArrive
    <3> QED
      BY <3>1, <3>2, <3>3, HeadOf DEF Shielded
  <2> QED
    BY <2>1, <2>2, <2>3 DEF FlashIsGuarded
<1>2. Guarded => ("kill" \notin world.mishaps => FlashIsGuarded)
  BY <1>1
<1> QED
  BY <1>2, GuardedAlways, PTL
\* As long as requests arrive and neither the node nor the tool starts anew: the poll of
\* the flash never lets the tool past an erase, a block or a signature that is not there,
\* and a run that reports success leaves the whole image running and signed, whatever
\* becomes of the answers, the adapter and the flash.
THEOREM ToolRight == Spec => []ToolIsRight
<1>1. ASSUME Guarded, RequestsArrive PROVE StatusPollIsAuthoritative
  <2>1. EraseRight /\ BlocksRight /\ SignatureRight
    BY <1>1 DEF Guarded, RightInv
  <2>2. pc \in {"download", "data", "waitBlock"} => flash = "erased" /\ 1..blk \subseteq written
    BY <2>1 DEF BlocksRight, Stored
  <2>3. pc = "firstStart" => Complete
    BY <2>1 DEF SignatureRight, Trying
  <2>4. pc = "finalStart" => signed
    BY <2>1 DEF SignatureRight
  <2> QED
    BY <2>2, <2>3, <2>4 DEF StatusPollIsAuthoritative
<1>2. ASSUME Guarded, RequestsArrive, pc = "done" PROVE mode = "app" /\ Complete /\ signed
  BY <1>2 DEF Guarded, RightInv, SignatureRight, LastPhases
<1>3. Guarded => ToolIsRight
  BY <1>1, <1>2 DEF ToolIsRight, PollIsAuthoritative, DoneIsInstalled
<1> QED
  BY <1>3, GuardedAlways, PTL
=============================================================================
