-------------------------- MODULE FirmwareDownload --------------------------
(***************************************************************************)
(* The firmware download of the bbd tool (run_firmware_download): enter    *)
(* the bootloader, validate the node, erase, write every block, start the  *)
(* application as a smoke test, return to the bootloader to sign the image *)
(* and start it for good.                                                  *)
(*                                                                         *)
(* Every step of the tool is one SDO transaction with the node, repeated   *)
(* where the code polls or retries.  Requests and responses travel in FIFO *)
(* channels; which mishaps a run has to live with is part of its world.  A *)
(* block travels as one request: its segments are the business of          *)
(* SdoBlockDownload and SdoSegmentedDownload, whose contract is            *)
(* SdoTransfer.  The node, its bootloader and its flash, is external.      *)
(***************************************************************************)
EXTENDS Integers, Sequences, FiniteSets

CONSTANTS
  NumBlocks,    \* blocks of the firmware file
  MaxSends,     \* bound: requests one timeout budget of a read has room for
  MaxTries,     \* MAX_ATTEMPTS of write_control_expect_reset
  MaxMishaps,   \* bound: mishaps in one behaviour
  Worlds        \* the configurations and surroundings of a run, see World

\* How the tool is called, and what it has to live with:
\*   action       ActionType
\*   checks       which of "vendor" and "product" are to be validated
\*   noWait       SegmentedNoWait, else an acknowledged transfer
\*   timely       no timer expires while an answer or a flash operation is due
\*   busyRejects  a busy bootloader refuses or ignores requests
\*   polls        bound: polls before the deadline of a polling loop
\*   mishaps      the mishaps that may occur
World ==
  [action : {"UpdateFirmware", "LoadBlupdateApp", "UpdateBootloader"},
   checks : SUBSET {"vendor", "product"},
   noWait : BOOLEAN, timely : BOOLEAN, busyRejects : BOOLEAN, polls : Nat \ {0},
   mishaps : SUBSET {"loseRequest", "loseResponse", "loseSegments", "coldAbort",
                     "disconnect", "fileError", "flashFault", "powerCycle", "kill"}]

ASSUME ConstantsOK ==
  /\ NumBlocks \in Nat \ {0}
  /\ MaxSends \in Nat \ {0} /\ MaxTries \in Nat \ {0}
  /\ MaxMishaps \in Nat
  /\ Worlds \subseteq World

VARIABLES
  pc,         \* the step run_firmware_download is at
  waiting,    \* is a transaction under way?
  sends,      \* requests sent in this transaction
  polls,      \* polls made in this polling loop
  tries,      \* attempts made at this control write
  blk,        \* blocks_written
  c2s,        \* requests in flight
  s2c,        \* responses in flight or buffered in the adapter
  mode,       \* node: "boot" or "app"
  sdo,        \* node: SDO server "idle" or in a "download"
  work,       \* node: flash operation under way, "none" if there is none
  target,     \* node: block being programmed
  status,     \* node: outcome of the last flash operation (object 0x1F57)
  flash,      \* node: "old" image, "dirty" or "erased" program area
  written,    \* node: blocks programmed since the erase
  signed,     \* node: does the image in the flash carry its signature?
  ran,        \* node: has the new image ever been started?
  ident,      \* node: do its vendor ID and product code match the expected?
  healthy,    \* does the new image start at all?
  mishaps,    \* mishaps so far
  world       \* the configuration and the surroundings of this run

client == <<pc, waiting, sends, polls, tries, blk>>
area == <<flash, written, signed, ran>>
node == <<mode, sdo, work, target, status, area>>
given == <<ident, healthy, world>>
vars == <<client, c2s, s2c, node, given, mishaps>>

-----------------------------------------------------------------------------
(* The steps and their requests                                            *)

BootWaits == {"waitBoot", "waitReenter"}
AppWaits == {"checkApp", "finalCheck"}
StatusWaits == {"waitClear", "waitBlock", "waitSign"}
Polling == BootWaits \cup AppWaits \cup StatusWaits
Infos == {"appVersion", "blVersion", "newVersion"}
Queries == {"checkBoot", "vendor", "product"}
Controls == {"startBoot", "firstStart", "restartBoot", "finalStart"}
Commands == {"clear", "sign"}
Reading == Polling \cup Infos \cup Queries
Active == Reading \cup Controls \cup Commands \cup {"download", "data"}

\* The object a step reads or writes: what the multiplexer of a frame tells.
Object(p) ==
  CASE p \in BootWaits \cup AppWaits \cup {"checkBoot"} -> "devType"
    [] p \in StatusWaits -> "status"
    [] p \in Infos -> "version"
    [] p \in {"vendor", "product"} -> p
    [] p \in Controls \cup Commands -> "control"
    [] p \in {"download", "data"} -> "program"

ControlCode(p) ==
  CASE p \in {"startBoot", "restartBoot"} -> "enterBoot"
    [] p \in {"firstStart", "finalStart"} -> "startApp"
    [] p = "clear" -> "clear"
    [] p = "sign" -> "sign"

Read(o) == [op |-> "read", obj |-> o]
Control(c) == [op |-> "control", obj |-> "control", code |-> c]
Initiate(b) == [op |-> "initiate", obj |-> "program", blk |-> b]
Data(b) == [op |-> "data", obj |-> "program", blk |-> b]
Reset == [op |-> "sdoAbort", obj |-> "program"]

Value(o, v) == [kind |-> "value", obj |-> o, val |-> v]
Ack(o) == [kind |-> "ack", obj |-> o]
Done == [kind |-> "done", obj |-> "program"]
Abort(o, cold) == [kind |-> "abort", obj |-> o, cold |-> cold]

Request ==
  IF pc \in Reading THEN Read(Object(pc))
  ELSE IF pc = "download" THEN Initiate(blk + 1)
  ELSE IF pc = "data" THEN Data(blk + 1)
  ELSE Control(ControlCode(pc))

\* initiate_retry repeats a read and the initiate of a download, nothing else.
Repeatable == pc \in Reading \cup {"download"}

\* The responses the pending transaction accepts: the expected kind for its own
\* object, or an abort of it.  A data transfer has no multiplexer to compare,
\* and the streaming one takes any frame.
Accepts(m) ==
  IF pc = "data" THEN m.kind \in {"done", "abort"} \/ world.noWait
  ELSE m.obj = Object(pc) /\ m.kind \in {"abort", IF pc \in Reading THEN "value" ELSE "ack"}

\* device_type_is_bootloader
BootTypes == IF world.action = "UpdateBootloader" THEN {"boot", "blupdate"} ELSE {"boot"}

CheckNothing == "clear"   \* mutant

\* The first step after the bootloader version that is not configured away.
FirstCheck == IF "vendor" \in world.checks THEN "vendor"
              ELSE IF "product" \in world.checks THEN "product" ELSE "clear"

\* The block download loop.
WithoutSmokeTest == IF blk + 1 = NumBlocks THEN "restartBoot" ELSE "download"   \* mutant
AfterBlock == IF blk + 1 = NumBlocks THEN "firstStart" ELSE "download"

FinalStartFirst == "finalStart"   \* mutant: the signature is skipped
AfterReenter == "sign"

NextStep ==
  CASE pc = "appVersion" -> "startBoot"      [] pc = "startBoot" -> "waitBoot"
    [] pc = "waitBoot" -> "blVersion"        [] pc = "blVersion" -> FirstCheck
    [] pc = "vendor" -> IF "product" \in world.checks THEN "product" ELSE "clear"
    [] pc = "product" -> "clear"             [] pc = "clear" -> "waitClear"
    [] pc = "waitClear" -> "download"        [] pc = "download" -> "data"
    [] pc = "data" -> "waitBlock"
    [] pc = "waitBlock" -> AfterBlock
    [] pc = "firstStart" -> "checkApp"       [] pc = "checkApp" -> "newVersion"
    [] pc = "newVersion" -> "restartBoot"    [] pc = "restartBoot" -> "waitReenter"
    [] pc = "waitReenter" -> AfterReenter        [] pc = "sign" -> "waitSign"
    [] pc = "waitSign" -> "finalStart"       [] pc = "finalStart" -> "finalCheck"
    [] pc = "finalCheck" -> "done"

-----------------------------------------------------------------------------
Init ==
  /\ pc = "checkBoot" /\ waiting = FALSE /\ sends = 0 /\ polls = 0 /\ tries = 0
  /\ blk = 0
  /\ c2s = <<Reset>> /\ s2c = <<>>
  /\ mode \in {"boot", "app"}
  /\ sdo = "idle" /\ work = "none" /\ target = 1 /\ status = "ok"
  /\ flash = "old" /\ written = {} /\ signed = TRUE /\ ran = FALSE
  /\ ident \in [{"vendor", "product"} -> {"match", "other"}]
  /\ healthy \in BOOLEAN
  /\ mishaps = 0
  /\ world \in Worlds

Mishap(m) == m \in world.mishaps /\ mishaps < MaxMishaps /\ mishaps' = mishaps + 1

-----------------------------------------------------------------------------
(* The tool                                                                *)

Goto(p) ==
  /\ pc' = p /\ waiting' = FALSE /\ sends' = 0 /\ polls' = 0 /\ tries' = 0
  /\ blk' = IF pc = "waitBlock" /\ p \in {"download", "firstStart"} THEN blk + 1 ELSE blk

\* The deadlines of a timely run are longer than any flash operation.
InTime == world.timely /\ work # "none"

Advance == Goto(NextStep)
Fail == Goto("failed")

\* Mutant: a polling loop without a deadline.
PollForever == polls' = polls /\ waiting' = FALSE /\ sends' = 0 /\ UNCHANGED <<pc, tries, blk>>

\* A polling loop goes round again unless its deadline has passed.
PollAgain ==
  \/ /\ polls < world.polls \/ InTime
     /\ polls' = IF InTime THEN polls ELSE polls + 1
     /\ waiting' = FALSE /\ sends' = 0
     /\ UNCHANGED <<pc, tries, blk>>
  \/ ~InTime /\ (world.timely => polls = world.polls) /\ Fail

\* What the outcome of its transaction, "ok", "timeout", "disconnected",
\* "coldAbort" or "abort", makes of each kind of step.

\* Mutant: a busy flash passes.
PassesUnlessError(v) ==
  CASE pc \in StatusWaits -> v # "error"
    [] pc \in BootWaits -> v \in BootTypes
    [] pc \in AppWaits -> v \notin BootTypes

Passes(v) ==
  CASE pc \in StatusWaits -> v = "ok"
    [] pc \in BootWaits -> v \in BootTypes
    [] pc \in AppWaits -> v \notin BootTypes

\* wait_flash_status, wait_bootloader_active, wait_app_running
PollOutcome(o, v) ==
  /\ pc \in Polling
  /\ IF o = "ok" /\ Passes(v) THEN Advance
     ELSE IF \/ o = "timeout"
             \/ pc \in StatusWaits /\ (o \in {"coldAbort", "abort"} \/ (o = "ok" /\ v = "busy"))
             \/ pc \notin StatusWaits /\ o \in {"ok", "disconnected"}
       THEN PollAgain
       ELSE Fail

AlreadyBoot(v) == TRUE   \* mutant
BootActive(v) == v \in BootTypes

\* is_bootloader_active and the two validations
QueryOutcome(o, v) ==
  /\ pc \in Queries
  /\ IF o # "ok" THEN Fail
     ELSE IF pc = "checkBoot" THEN Goto(IF BootActive(v) THEN "blVersion" ELSE "appVersion")
     ELSE IF v = "match" THEN Advance ELSE Fail

\* The version reads end in .ok(): their errors are dropped.
InfoOutcome == pc \in Infos /\ Advance

\* write_control_expect_reset; the mutant wants an acknowledgement.
WantsAck(o) == o = "ok"
SwitchUnderWay(o) == o \in {"ok", "timeout", "disconnected"}

ControlOutcome(o) ==
  /\ pc \in Controls
  /\ IF SwitchUnderWay(o) THEN Advance
     ELSE IF o = "coldAbort" /\ tries + 1 < MaxTries
       THEN tries' = tries + 1 /\ waiting' = FALSE /\ sends' = 0 /\ UNCHANGED <<pc, polls, blk>>
       ELSE Fail

\* Clear and SetSignature: a lost ack is tolerated.
CommandOutcome(o) ==
  /\ pc \in Commands
  /\ IF o \in {"ok", "timeout"} THEN Advance ELSE Fail

\* client.download(...)?  The streaming transfer takes silence for success.
DownloadOutcome(o) ==
  /\ pc \in {"download", "data"}
  /\ IF o = "ok" \/ (pc = "data" /\ world.noWait /\ o = "timeout") THEN Advance ELSE Fail

Conclude(o, v) ==
  \/ PollOutcome(o, v) \/ QueryOutcome(o, v) \/ InfoOutcome
  \/ ControlOutcome(o) \/ CommandOutcome(o) \/ DownloadOutcome(o)

\* Begin the transaction of this step: discard what has arrived, send.  The
\* segments of a download follow its initiate without draining.
Issue ==
  /\ pc \in Active /\ ~waiting
  /\ \E k \in (IF pc = "data" THEN {0} ELSE 0..Len(s2c)) : s2c' = SubSeq(s2c, k + 1, Len(s2c))
  /\ c2s' = Append(c2s, Request)
  /\ waiting' = TRUE /\ sends' = 1
  /\ UNCHANGED <<pc, polls, tries, blk, node, given, mishaps>>

BusQuiet == c2s = <<>> /\ s2c = <<>>

Resend ==
  /\ waiting /\ Repeatable /\ sends < MaxSends
  /\ world.timely => BusQuiet
  /\ c2s' = Append(c2s, Request)
  /\ sends' = sends + 1
  /\ UNCHANGED <<pc, waiting, polls, tries, blk, s2c, node, given, mishaps>>

Receive ==
  /\ waiting /\ s2c # <<>> /\ Accepts(Head(s2c))
  /\ s2c' = Tail(s2c)
  /\ LET m == Head(s2c) IN
       CASE m.kind = "value" -> Conclude("ok", m.val)
         [] m.kind = "abort" -> Conclude(IF m.cold THEN "coldAbort" ELSE "abort", "none")
         [] OTHER -> Conclude("ok", "none")
  /\ UNCHANGED <<c2s, node, given, mishaps>>

SkipFrame ==
  /\ waiting /\ s2c # <<>> /\ ~Accepts(Head(s2c))
  /\ s2c' = Tail(s2c)
  /\ UNCHANGED <<client, c2s, node, given, mishaps>>

Timeout ==
  /\ waiting
  /\ world.timely => BusQuiet /\ (Repeatable => sends = MaxSends)
  /\ Conclude("timeout", "none")
  /\ UNCHANGED <<c2s, s2c, node, given, mishaps>>

\* The adapter reports Disconnected in the middle of a transaction.
Disconnect ==
  /\ waiting /\ Mishap("disconnect")
  /\ Conclude("disconnected", "none")
  /\ UNCHANGED <<c2s, s2c, node, given>>

\* The next block of the file is truncated (BinaryBlockIter).
FileError ==
  /\ pc = "download" /\ ~waiting /\ Mishap("fileError")
  /\ Fail
  /\ UNCHANGED <<c2s, s2c, node, given>>

\* A run begins with an SDO abort that nobody answers.
FirstFrame == <<Reset>>

\* The tool is interrupted, or has failed, and is run again.
Rerun ==
  /\ pc # "done" /\ Mishap("kill")
  /\ pc' = "checkBoot" /\ waiting' = FALSE /\ sends' = 0 /\ polls' = 0 /\ tries' = 0 /\ blk' = 0
  /\ c2s' = c2s \o FirstFrame
  /\ UNCHANGED <<s2c, node, given>>

ToolNext == Issue \/ Resend \/ Receive \/ SkipFrame \/ Timeout

-----------------------------------------------------------------------------
(* The node (external)                                                     *)

Complete == flash = "erased" /\ written = 1..NumBlocks
Startable == flash = "old" \/ (Complete /\ healthy)

DevType ==
  IF mode = "boot" THEN IF world.action = "UpdateBootloader" THEN "blupdate" ELSE "boot"
  ELSE IF world.action = "LoadBlupdateApp" /\ flash # "old" THEN "blupdate" ELSE "app"

Next1 == c2s # <<>> /\ c2s' = Tail(c2s)
Reply(m) == s2c' = Append(s2c, m)
Silent == UNCHANGED s2c

\* An SDO abort from the client ends whatever the SDO server was doing.
NodeReset ==
  /\ Next1 /\ Head(c2s).op = "sdoAbort"
  /\ sdo' = "idle" /\ Silent
  /\ UNCHANGED <<client, mode, work, target, status, area, given, mishaps>>

\* Expecting segments, the SDO server refuses reads and control writes.
NodeOutOfPlace ==
  /\ Next1 /\ sdo = "download" /\ Head(c2s).op \in {"read", "control"}
  /\ sdo' = "idle" /\ Reply(Abort(Head(c2s).obj, FALSE))
  /\ UNCHANGED <<client, mode, work, target, status, area, given, mishaps>>

NodeRead ==
  /\ Next1 /\ Head(c2s).op = "read" /\ sdo = "idle"
  /\ LET o == Head(c2s).obj IN
       \/ Reply(CASE o = "devType" -> Value(o, DevType)
                  [] o = "status" /\ mode = "app" -> Abort(o, FALSE)
                  [] o = "status" -> Value(o, IF work # "none" THEN "busy" ELSE status)
                  [] o \in {"vendor", "product"} -> Value(o, ident[o])
                  [] o = "version" -> Value(o, "none"))
       \/ world.busyRejects /\ work # "none" /\ (Reply(Abort(o, FALSE)) \/ Silent)
  /\ UNCHANGED <<client, node, given, mishaps>>

\* A change of mode resets the node, which may or may not send its ack first
\* and may or may not lose the requests behind this one.
SwitchTo(m) ==
  /\ mode' = m
  /\ c2s # <<>> /\ c2s' \in {Tail(c2s), <<>>}
  /\ Reply(Ack("control")) \/ Silent
  /\ ran' = IF m = "app" /\ flash # "old" THEN TRUE ELSE ran
  /\ UNCHANGED <<sdo, work, target, status, flash, written, signed>>

NodeSwitch ==
  /\ c2s # <<>> /\ Head(c2s).op = "control" /\ sdo = "idle" /\ work = "none"
  /\ \/ Head(c2s).code = "enterBoot" /\ mode = "app" /\ SwitchTo("boot")
     \/ Head(c2s).code = "startApp" /\ mode = "boot" /\ Startable /\ SwitchTo("app")
  /\ UNCHANGED <<client, given, mishaps>>

\* A mode command with nothing to switch to is acknowledged and has no effect.
NodeStay ==
  /\ Next1 /\ Head(c2s).op = "control" /\ sdo = "idle" /\ work = "none"
  /\ \/ Head(c2s).code = "enterBoot" /\ mode = "boot"
     \/ Head(c2s).code = "startApp" /\ (mode = "app" \/ ~Startable)
  /\ Reply(Ack("control"))
  /\ UNCHANGED <<client, node, given, mishaps>>

\* The erase takes the old image and its signature with it from the start.
NodeClear ==
  /\ Next1 /\ Head(c2s).op = "control" /\ Head(c2s).code = "clear"
  /\ sdo = "idle" /\ mode = "boot" /\ work = "none"
  /\ work' = "erase" /\ flash' = "dirty" /\ written' = {} /\ signed' = FALSE /\ ran' = FALSE
  /\ Reply(Ack("control"))
  /\ UNCHANGED <<client, mode, sdo, target, status, given, mishaps>>

NodeSign ==
  /\ Next1 /\ Head(c2s).op = "control" /\ Head(c2s).code = "sign"
  /\ sdo = "idle" /\ mode = "boot" /\ work = "none"
  /\ work' = "sign" /\ Reply(Ack("control"))
  /\ UNCHANGED <<client, mode, sdo, target, status, area, given, mishaps>>

\* A repeated initiate begins the download anew, as initiate_retry relies on.
NodeInitiate ==
  /\ Next1 /\ Head(c2s).op = "initiate"
  /\ mode = "boot" /\ work = "none"
  /\ sdo' = "download" /\ Reply(Ack("program"))
  /\ UNCHANGED <<client, mode, work, target, status, area, given, mishaps>>

NodeData ==
  /\ Next1 /\ Head(c2s).op = "data" /\ sdo = "download"
  /\ sdo' = "idle" /\ work' = "program" /\ target' = Head(c2s).blk /\ Reply(Done)
  /\ UNCHANGED <<client, mode, status, area, given, mishaps>>

\* Segments nobody expects are ignored.
NodeIgnore ==
  /\ Next1 /\ Head(c2s).op = "data" /\ sdo = "idle" /\ Silent
  /\ UNCHANGED <<client, node, given, mishaps>>

\* Flash commands are refused by the application and by a bootloader that
\* refuses requests while it is busy.
NodeRefuse ==
  /\ Next1 /\ sdo = "idle"
  /\ \/ Head(c2s).op = "initiate"
     \/ Head(c2s).op = "control"
          /\ (Head(c2s).code \in {"clear", "sign"} \/ work # "none")
  /\ mode = "app" \/ (world.busyRejects /\ work # "none")
  /\ Reply(Abort(Head(c2s).obj, FALSE))
  /\ UNCHANGED <<client, node, given, mishaps>>

\* The spurious abort a mode command meets on a cold adapter or a node that is
\* just coming up; the command itself is lost.
NodeCold ==
  /\ Next1 /\ Head(c2s).op = "control" /\ Head(c2s).code \in {"enterBoot", "startApp"}
  /\ Mishap("coldAbort")
  /\ Reply(Abort("control", TRUE))
  /\ UNCHANGED <<client, node, given>>

\* The flash operation ends; a block needs erased flash, a signature a
\* complete image.
FinishWork ==
  /\ work # "none" /\ work' = "none"
  /\ CASE work = "erase" -> flash' = "erased" /\ status' = "ok" /\ UNCHANGED <<written, signed>>
       [] work = "sign" -> /\ signed' = (signed \/ Complete)
                           /\ status' = IF Complete THEN "ok" ELSE "error"
                           /\ UNCHANGED <<flash, written>>
       [] work = "program" -> /\ IF flash = "erased" THEN written' = written \cup {target} /\ status' = "ok"
                                                     ELSE status' = "error" /\ UNCHANGED written
                              /\ UNCHANGED <<flash, signed>>
  /\ UNCHANGED <<client, c2s, s2c, mode, sdo, target, ran, given, mishaps>>

FlashFault ==
  /\ work # "none" /\ Mishap("flashFault")
  /\ work' = "none" /\ status' = "error"
  /\ UNCHANGED <<client, c2s, s2c, mode, sdo, target, area, given>>

\* After a power cycle only a signed image is started without being told to.
PowerCycle ==
  /\ Mishap("powerCycle")
  /\ mode' = IF signed THEN "app" ELSE "boot"
  /\ sdo' = "idle" /\ work' = "none" /\ status' = "ok" /\ c2s' = <<>>
  /\ UNCHANGED <<client, s2c, target, area, given>>

LoseRequest ==
  /\ c2s # <<>> /\ Mishap("loseRequest") /\ c2s' = Tail(c2s)
  /\ UNCHANGED <<client, s2c, node, given>>

LoseResponse ==
  /\ s2c # <<>> /\ Mishap("loseResponse") /\ s2c' = Tail(s2c)
  /\ UNCHANGED <<client, c2s, node, given>>

\* Part of a block's segments is lost: the server aborts the download.
LoseSegments ==
  /\ c2s # <<>> /\ Head(c2s).op = "data" /\ Mishap("loseSegments")
  /\ c2s' = Tail(c2s) /\ sdo' = "idle"
  /\ Reply(Abort("program", FALSE))
  /\ UNCHANGED <<client, mode, work, target, status, area, given>>

NodeNext ==
  \/ NodeReset \/ NodeOutOfPlace \/ NodeRead \/ NodeSwitch \/ NodeStay \/ NodeClear
  \/ NodeSign \/ NodeInitiate \/ NodeData \/ NodeIgnore \/ NodeRefuse \/ FinishWork

MishapNext ==
  \/ Disconnect \/ FileError \/ Rerun \/ NodeCold \/ FlashFault \/ PowerCycle
  \/ LoseRequest \/ LoseResponse \/ LoseSegments

Next == ToolNext \/ NodeNext \/ MishapNext

Spec == Init /\ [][Next]_vars

\* The tool's thread runs on and its timers expire; the node works off what it
\* receives and finishes the flash operations it has begun.
FairSpec == Spec /\ WF_vars(ToolNext) /\ WF_vars(NodeNext) /\ WF_vars(FinishWork)

-----------------------------------------------------------------------------
(* Properties                                                              *)

Readable == {"devType", "status", "version", "vendor", "product"}
Objects == Readable \cup {"control", "program"}

Requests ==
  {Reset} \cup {Read(o) : o \in Readable}
    \cup {Control(c) : c \in {"enterBoot", "startApp", "clear", "sign"}}
    \cup {Initiate(b) : b \in 1..NumBlocks} \cup {Data(b) : b \in 1..NumBlocks}
Responses ==
  {Done} \cup {Ack(o) : o \in Objects} \cup {Abort(o, c) : o \in Objects, c \in BOOLEAN}
    \cup {Value(o, v) : o \in Objects,
          v \in {"boot", "blupdate", "app", "ok", "busy", "error", "match", "other", "none"}}

TypeOK ==
  /\ pc \in Active \cup {"done", "failed"}
  /\ waiting \in BOOLEAN
  /\ sends \in 0..MaxSends /\ polls \in 0..world.polls /\ tries \in 0..(MaxTries - 1)
  /\ blk \in 0..NumBlocks
  /\ c2s \in Seq(Requests) /\ s2c \in Seq(Responses)
  /\ mode \in {"boot", "app"} /\ sdo \in {"idle", "download"}
  /\ work \in {"none", "erase", "program", "sign"} /\ target \in 1..NumBlocks
  /\ status \in {"ok", "error"}
  /\ flash \in {"old", "dirty", "erased"} /\ written \subseteq 1..NumBlocks
  /\ signed \in BOOLEAN /\ ran \in BOOLEAN
  /\ ident \in [{"vendor", "product"} -> {"match", "other"}] /\ healthy \in BOOLEAN
  /\ mishaps \in 0..MaxMishaps /\ world \in Worlds

\* "The flash-status poll below is the authoritative completion check": once
\* the poll has let the tool pass, the erase, the block or the signature it
\* waited for is really there.  Does not hold when the request itself was lost.
StatusPollIsAuthoritative ==
  /\ pc \in {"download", "data", "waitBlock"} => flash = "erased" /\ 1..blk \subseteq written
  /\ pc = "firstStart" => Complete
  /\ pc = "finalStart" => signed

\* That is so unless a request gets lost or the node or the tool starts anew:
\* lost responses, a disconnected adapter, spurious aborts and failing flash
\* operations never make the poll say more than there is.
RequestsArrive == world.mishaps \cap {"loseRequest", "loseSegments", "powerCycle", "kill"} = {}
PollIsAuthoritative == RequestsArrive => StatusPollIsAuthoritative

\* A run that reports success leaves the node running the whole new image,
\* signed.
DoneIsInstalled == RequestsArrive /\ pc = "done" => mode = "app" /\ Complete /\ signed

\* The signature, which makes an image permanent, is never put on an image
\* that has not run: the smoke test of FirstStartApp/CheckAppWorks comes first.
\* No mishap breaks this, one more run of the tool included; nothing but its place tells
\* an answer to an earlier run from one to this run, so it is not claimed for many runs.
SignedImageHasRun == signed /\ flash # "old" => ran

\* The flash of a node that fails a configured validation is left alone,
\* whatever goes wrong.
IdentityGuardsFlash == flash # "old" => \A c \in world.checks : ident[c] = "match"

\* Flash commands only ever arrive at the bootloader: the tool has seen it
\* answer before, and nothing it sent since makes the node leave it.
FlashCommandsReachBootloader ==
  /\ RequestsArrive
  /\ c2s # <<>>
  /\ \/ Head(c2s).op = "initiate"
     \/ Head(c2s).op = "control" /\ Head(c2s).code \in {"clear", "sign"}
  => mode = "boot"

\* What the tool goes by is so, and what it reports is (state_machine.rs:295-298,
\* 378-399).
ToolIsRight == PollIsAuthoritative /\ DoneIsInstalled

\* No order of mishaps gets past the steps that guard a node's flash: identity,
\* bootloader, smoke test (state_machine.rs:268-337).
FlashIsGuarded == SignedImageHasRun /\ IdentityGuardsFlash /\ FlashCommandsReachBootloader

\* Every run ends: no polling loop outlives its deadline.
RunEnds == <>(pc \in {"done", "failed"})

\* What the tool is meant to overcome: lost responses and the aborts of a cold
\* adapter, and an interruption, when it is simply run again.
Surmountable ==
  /\ world.timely
  /\ \/ world.mishaps \subseteq {"loseResponse", "coldAbort"}
     \/ world.mishaps \subseteq {"kill"} /\ ~world.noWait /\ ~world.busyRejects

\* Then a valid node with a working image gets its firmware.
InstallsEventually ==
  Surmountable /\ healthy /\ (\A c \in world.checks : ident[c] = "match") => <>(pc = "done")
=============================================================================
