----------------------------- MODULE XcpMaster ------------------------------
(***************************************************************************)
(* XCP on CAN in the session thread: a master that has one transaction in  *)
(* flight, started by the buttons of the GUI's XCP panel, and a passive    *)
(* observer of the commands of another tool, which learns the slave's DAQ  *)
(* lists from them (DaqTracker) and decodes its measurements.              *)
(*                                                                         *)
(* A response carries nothing that tells which command it answers.  A byte *)
(* of memory is modelled by its address; writes leave the number of the    *)
(* command.  The slave and the other tool are outside the code.            *)
(***************************************************************************)
EXTENDS DaqTracker

CONSTANTS
  Addresses,    \* addresses of the slave's memory, a set of numbers
  Far,          \* an address is off by this when its bytes are swapped
  MaxOdt,       \* bound: ODTs of a DAQ list of the slave
  Regions,      \* the regions the tool measures, [addr, size]
  DaqLists,     \* the slave's DAQ lists
  Worlds

None == <<>>
Params == [order : {"little", "big"}, ag : {1, 2, 4}, cto : 1..8]

\* What the user can ask for.
Commands ==
  [op : {"connect", "disconnect", "getSeed", "unlock"}, addr : {0}, len : 0..8] \cup
  [op : {"upload", "download"}, addr : Addresses, len : Nat]

\* A frame of the CRO identifier.
Cmd(op, src) == [op |-> op, src |-> src, addr |-> 0, n |-> 0, data |-> None, daq |-> 0, odt |-> 0]

\* What the other tool sends.
ToolCommands ==
  {Cmd("connect", "tool"), Cmd("startSync", "tool")}
  \cup {[Cmd(op, "tool") EXCEPT !.daq = d] :
          d \in DaqLists, op \in {"clearDaq", "startDaq", "selectDaq", "stopDaq"}}
  \cup {[Cmd("setDaqPtr", "tool") EXCEPT !.daq = d, !.odt = o] : d \in DaqLists, o \in 0..(MaxOdt - 1)}
  \cup {[Cmd("writeDaq", "tool") EXCEPT !.addr = r.addr, !.n = r.size] : r \in Regions}

\* A user, a slave and a bus:
\*   commands  the commands the user may give, each at most once
\*   hurried   the user does not wait for the answer to the last one
\*   listen    the session is listen-only
\*   params    what the slave reports in its CONNECT response
\*   traffic   frames of other protocols arrive as well
\*   timely    answers come within the timeout
\*   tool      the commands of the other tool, in order
\*   maxLoss   bound: frames lost
\*   maxFaults bound: sends the adapter refuses
\*   errors    the slave may refuse a command
World ==
  [commands : SUBSET Commands, hurried : BOOLEAN, listen : BOOLEAN, params : Params,
   traffic : BOOLEAN, timely : BOOLEAN, tool : Seq(ToolCommands), maxLoss : Nat, maxFaults : Nat,
   errors : BOOLEAN]

ASSUME XcpConstantsOK ==
  /\ Addresses \subseteq Nat \ {0} /\ Far \in Nat /\ MaxOdt \in Nat \ {0}
  /\ Worlds \subseteq World

VARIABLES
  given,        \* commands the user has given
  connected,    \* GUI: AppState.xcp_connected
  values,       \* GUI: AppState.xcp_daq_values, address -> bytes
  pending,      \* session: pending_xcp, None or <<record>>
  nego,         \* session: xcp_byte_order, xcp_ag, xcp_max_cto
  startPending, \* session: xcp_daq_start_pending
  sawConnect,   \* session: xcp_passive_connect
  daq, pids,    \* session: the DaqTracker
  report,       \* the last success the log has reported, and its data
  toSlave, toHost, \* frames under way
  slave,        \* the slave
  toolLeft, toolWaits, \* the tool: commands left, an answer is due
  losses, faults, \* mishaps so far
  world

master == <<pending, nego, report>>
observer == <<startPending, sawConnect, daq, pids>>
gui == <<given, connected, values>>
tool == <<toolLeft, toolWaits>>
mishaps == <<losses, faults>>
vars == <<gui, master, observer, toSlave, toHost, slave, tool, mishaps, world>>

Init ==
  /\ given = {} /\ connected = FALSE /\ values = << >>
  /\ pending = None /\ nego = [order |-> "little", ag |-> 1, cto |-> 8]
  /\ startPending = None /\ sawConnect = FALSE
  /\ daq = NewTracker /\ pids = << >>
  /\ report = None
  /\ toSlave = <<>> /\ toHost = <<>>
  /\ slave = [connected |-> FALSE, mta |-> 0, mem |-> [a \in {} |-> None], ptr |-> None,
              lists |-> [d \in DaqLists |-> [odts |-> <<>>, mode |-> "idle"]]]
  /\ world \in Worlds
  /\ toolLeft = Len(world.tool) /\ toolWaits = FALSE
  /\ losses = 0 /\ faults = 0

-----------------------------------------------------------------------------
(* Frames                                                                  *)

\* An address or list number the reader takes in another byte order.
Swapped(x, written, read) == IF written = read THEN x ELSE x + Far

\* mutant: the byte order the slave reported is ignored
SetMtaLittle(c) == [Cmd("setMta", "us") EXCEPT !.addr = Swapped(c.addr, "little", world.params.order)]

\* encode_set_mta: the address in the byte order of the session
SetMta(c) == [Cmd("setMta", "us") EXCEPT !.addr = Swapped(c.addr, nego.order, world.params.order)]

\* The first frame of a command and the step that waits for its answer.
FirstFrame(c) ==
  IF c.op \in {"upload", "download"} THEN SetMta(c) ELSE [Cmd(c.op, "us") EXCEPT !.n = c.len]
FirstStep(c) == IF c.op \in {"upload", "download"} THEN "mta" ELSE c.op

\* upload_chunk: elements of the address granularity that fit a response
CeilDiv(a, b) == (a + b - 1) \div b
ChunkOf(left) ==
  LET room == (IF nego.cto > 2 THEN nego.cto - 1 ELSE 1) \div nego.ag
      most == IF room < 1 THEN 1 ELSE room
      need == CeilDiv(left, nego.ag)
  IN IF need < most THEN need ELSE most

Upload(left) == [Cmd("upload", "us") EXCEPT !.n = ChunkOf(left)]
Download(c) ==
  [Cmd("download", "us") EXCEPT !.n = CeilDiv(c.len, nego.ag), !.data = <<c>>]

\* build_xcp_frame: a payload of more than eight bytes is not sent
FitsFrame(c) == c.op \notin {"unlock", "download"} \/ c.len + 2 <= 8

Response(data) == [type |-> "res", data |-> data, conn |-> FALSE]

-----------------------------------------------------------------------------
(* The XCP panel and the session's commands                                *)

Ours(frames) == \E i \in 1..Len(frames) : frames[i].src = "us"
Quiet == pending = None /\ ~Ours(toSlave) /\ toHost = <<>>

\* A button of the panel, as far as its fields parse, and the session's handling
\* of the command: the frame goes out and the record in flight is replaced,
\* whatever it waits for.  A refused send leaves it alone, without a word.
Give(c) ==
  /\ c \in world.commands \ given /\ ~world.listen
  /\ c.op \in {"upload", "download", "unlock"} => c.len > 0
  /\ ~world.hurried => Quiet
  /\ given' = given \cup {c}
  /\ \/ /\ c.op = "unlock" => FitsFrame(c)
        /\ toSlave' = Append(toSlave, FirstFrame(c))
        /\ pending' = <<[cmd |-> c, step |-> FirstStep(c), acc |-> <<>>]>>
        /\ UNCHANGED faults
     \/ /\ c.op = "unlock" /\ ~FitsFrame(c)
        /\ UNCHANGED <<toSlave, pending, faults>>
     \/ /\ faults < world.maxFaults /\ faults' = faults + 1
        /\ UNCHANGED <<toSlave, pending>>
  /\ UNCHANGED <<connected, values, nego, report, observer, toHost, slave, tool, losses, world>>

-----------------------------------------------------------------------------
(* handle_xcp_frame                                                        *)

Received(type) == toHost # <<>> /\ Head(toHost).type = type /\ toHost' = Tail(toHost)

\* A command of the tool: only CONNECT and the DAQ commands leave a trace.  The
\* fields are read in the byte order known so far.
RecvCommand ==
  /\ Received("cmd")
  /\ LET f == Head(toHost)
         d == Swapped(f.daq, world.params.order, nego.order)
         a == Swapped(f.addr, world.params.order, nego.order)
         t == CASE f.op = "setDaqPtr" -> SetPtr(daq, d, f.odt, 0)
                [] f.op = "writeDaq" -> Write(daq, a, f.n)
                [] f.op = "clearDaq" -> Clear(daq, d)
                [] OTHER -> daq
     IN /\ daq' = t
        /\ IF f.op = "clearDaq" THEN pids' \in PidMaps(t.lists) ELSE UNCHANGED pids
        /\ sawConnect' = (sawConnect \/ f.op = "connect")
        /\ startPending' = IF f.op \in {"startDaq", "selectDaq"} THEN <<d>> ELSE startPending
  /\ UNCHANGED <<gui, master, toSlave, slave, tool, mishaps, world>>

\* A DAQ list waits for its first PID: this response is taken to carry it.
RecvFirstPid ==
  /\ Received("res") /\ startPending # None
  /\ LET data == Head(toHost).data
         pid == IF data = <<>> THEN 0 ELSE data[1] % PidRange
     IN daq' = Started(daq, startPending[1], pid)
  /\ pids' \in PidMaps(daq'.lists)
  /\ startPending' = None
  /\ UNCHANGED <<gui, master, sawConnect, toSlave, slave, tool, mishaps, world>>

\* decode_connect_response: eight bytes are a CONNECT response, whatever they are
IsConnect(f) == Len(f.data) >= 7
ParamsIn(f) == IF f.conn THEN {world.params} ELSE Params

\* No transaction of ours: after a CONNECT of the tool the response is read as
\* the answer to it.
RecvObserved ==
  /\ Received("res") /\ startPending = None /\ pending = None
  /\ sawConnect' = FALSE
  /\ IF sawConnect /\ IsConnect(Head(toHost))
       THEN nego' \in ParamsIn(Head(toHost))
       ELSE UNCHANGED nego
  /\ UNCHANGED <<gui, pending, report, startPending, daq, pids, toSlave, slave, tool, mishaps, world>>

\* The answer to a command of one frame, as far as anyone can tell.
Answer(f, p) ==
  CASE p.step = "connect" ->
         IF IsConnect(f)
           THEN nego' \in ParamsIn(f) /\ connected' = TRUE /\ report' = <<p>>
           ELSE UNCHANGED <<nego, connected, report>>
    [] p.step = "disconnect" -> connected' = FALSE /\ report' = <<p>> /\ UNCHANGED nego
    [] OTHER -> report' = <<p>> /\ UNCHANGED <<nego, connected>>

RecvAnswer ==
  /\ Received("res") /\ startPending = None /\ pending # None
  /\ pending[1].step \in {"connect", "disconnect", "getSeed", "unlock", "downloadAck"}
  /\ Answer(Head(toHost), pending[1])
  /\ pending' = None
  /\ sawConnect' = (sawConnect /\ pending[1].step # "connect")
  /\ UNCHANGED <<given, values, startPending, daq, pids, toSlave, slave, tool, mishaps, world>>

\* A follow-up frame goes out and the transaction goes on, or the adapter
\* refuses it (or it does not fit) and the transaction ends with an error.
FollowUp(frame, p, fits) ==
  \/ /\ fits
     /\ toSlave' = Append(toSlave, frame) /\ pending' = <<p>>
     /\ UNCHANGED faults
  \/ /\ ~fits /\ pending' = None /\ UNCHANGED <<toSlave, faults>>
  \/ /\ faults < world.maxFaults /\ faults' = faults + 1
     /\ pending' = None /\ UNCHANGED toSlave

\* XcpStep::MtaThen
RecvMtaAck ==
  /\ Received("res") /\ startPending = None /\ pending # None /\ pending[1].step = "mta"
  /\ LET p == pending[1] IN
       IF p.cmd.op = "upload"
         THEN FollowUp(Upload(p.cmd.len), [p EXCEPT !.step = "upload"], TRUE)
         ELSE FollowUp(Download(p.cmd), [p EXCEPT !.step = "downloadAck"], FitsFrame(p.cmd))
  /\ UNCHANGED <<gui, nego, report, observer, slave, tool, losses, world>>

\* XcpStep::Upload: what is not wanted of the chunk is cut off; a chunk without
\* data ends the transaction with an error.
RecvChunk ==
  /\ Received("res") /\ startPending = None /\ pending # None /\ pending[1].step = "upload"
  /\ LET p == pending[1]
         data == Head(toHost).data
         left == p.cmd.len - Len(p.acc)
         take == IF left < Len(data) THEN left ELSE Len(data)
         q == [p EXCEPT !.acc = @ \o SubSeq(data, 1, take)]
     IN CASE take = left -> /\ pending' = None /\ report' = <<q>>
                            /\ UNCHANGED <<toSlave, faults>>
          [] take = 0 /\ left > 0 -> pending' = None /\ UNCHANGED <<report, toSlave, faults>>
          [] OTHER -> FollowUp(Upload(left - take), q, TRUE) /\ UNCHANGED report
  /\ UNCHANGED <<gui, nego, observer, slave, tool, losses, world>>

\* ERR: of whatever command, it ends the transaction and a pending start.
RecvError ==
  /\ Received("err")
  /\ pending' = None /\ startPending' = None
  /\ UNCHANGED <<gui, nego, report, sawConnect, daq, pids, toSlave, slave, tool, mishaps, world>>

\* A DAQ frame: the decoded values replace those shown for their addresses.
RecvDaq ==
  /\ Received("daq")
  /\ LET f == Head(toHost)
         samples == Decode(daq, pids, f.pid, f.data)
         new == [a \in {s.addr : s \in samples} |-> (CHOOSE s \in samples : s.addr = a).raw]
     IN values' = new @@ values
  /\ UNCHANGED <<given, connected, master, observer, toSlave, slave, tool, mishaps, world>>

RecvFrame ==
  \/ RecvCommand \/ RecvFirstPid \/ RecvObserved \/ RecvAnswer \/ RecvMtaAck \/ RecvChunk
  \/ RecvError \/ RecvDaq

\* mutant: a transaction that got its first answer has no deadline
TimeoutScanFirstOnly ==
  /\ world.traffic /\ pending # None /\ pending[1].step = FirstStep(pending[1].cmd)
  /\ world.timely => ~Ours(toSlave) /\ toHost = <<>>
  /\ pending' = None
  /\ UNCHANGED <<gui, nego, report, observer, toSlave, toHost, slave, tool, mishaps, world>>

\* The timeout scan, which runs at the end of a turn that received a frame of
\* another protocol: XCP frames and the adapter's timeouts skip it.
TimeoutScan ==
  /\ world.traffic /\ pending # None
  /\ world.timely => ~Ours(toSlave) /\ toHost = <<>>
  /\ pending' = None
  /\ UNCHANGED <<gui, nego, report, observer, toSlave, toHost, slave, tool, mishaps, world>>

-----------------------------------------------------------------------------
(* The slave, the other tool and the bus (not part of the code)            *)

BytesAt(a, n) == [i \in 1..n |-> a + i - 1]

\* The slave's answer to a command, <<>> if there is none, and its state after.
Slave(f) ==
  LET ag == world.params.ag
      ok == <<Response(<<>>)>>
      slot == slave.lists[slave.ptr[1]].odts
      row == Append(slot[slave.ptr[2] + 1], [addr |-> f.addr, size |-> f.n])
  IN CASE f.op = "connect" ->
            [out |-> <<[type |-> "res", data |-> [i \in 1..7 |-> 0], conn |-> TRUE]>>,
             to |-> [slave EXCEPT !.connected = TRUE]]
       [] f.op # "connect" /\ ~slave.connected -> [out |-> <<>>, to |-> slave]
       [] f.op = "disconnect" /\ slave.connected ->
            [out |-> ok, to |-> [slave EXCEPT !.connected = FALSE]]
       [] f.op = "getSeed" /\ slave.connected -> [out |-> <<Response(<<2, 200, 201>>)>>, to |-> slave]
       [] f.op = "setMta" /\ slave.connected -> [out |-> ok, to |-> [slave EXCEPT !.mta = f.addr]]
       [] f.op = "upload" /\ slave.connected ->
            IF f.n * ag + 1 > world.params.cto
              THEN [out |-> <<[type |-> "err"]>>, to |-> slave]
              ELSE [out |-> <<Response(BytesAt(slave.mta, f.n * ag))>>,
                    to |-> [slave EXCEPT !.mta = @ + f.n * ag]]
       [] f.op = "download" /\ slave.connected ->
            [out |-> ok,
             to |-> [slave EXCEPT !.mta = @ + f.n * ag,
                       !.mem = [a \in {slave.mta + i : i \in 0..(f.n * ag - 1)} |-> f.data] @@ @]]
       [] f.op = "setDaqPtr" /\ slave.connected ->
            [out |-> ok,
             to |-> [slave EXCEPT !.ptr = <<f.daq, f.odt>>,
                       !.lists[f.daq].odts = [Grow(@, f.odt + 1, <<>>) EXCEPT ![f.odt + 1] = <<>>]]]
       [] f.op = "writeDaq" /\ slave.connected ->
            [out |-> ok, to |-> [slave EXCEPT !.lists[slave.ptr[1]].odts[slave.ptr[2] + 1] = row]]
       [] f.op = "clearDaq" /\ slave.connected ->
            [out |-> ok, to |-> [slave EXCEPT !.lists[f.daq] = [odts |-> <<>>, mode |-> "idle"], !.ptr = None]]
       [] f.op = "startDaq" /\ slave.connected ->
            [out |-> <<Response(<<f.daq * MaxOdt>>)>>, to |-> [slave EXCEPT !.lists[f.daq].mode = "running"]]
       [] f.op = "selectDaq" /\ slave.connected ->
            [out |-> <<Response(<<f.daq * MaxOdt>>)>>,
             to |-> [slave EXCEPT !.lists[f.daq].mode = IF @ = "running" THEN @ ELSE "selected"]]
       [] f.op = "stopDaq" /\ slave.connected ->
            [out |-> ok, to |-> [slave EXCEPT !.lists[f.daq].mode = "idle"]]
       [] f.op = "startSync" /\ slave.connected ->
            [out |-> ok,
             to |-> [slave EXCEPT !.lists = [d \in DaqLists |->
                       [slave.lists[d] EXCEPT !.mode = IF @ = "selected" THEN "running" ELSE @]]]]
       [] OTHER -> [out |-> ok, to |-> slave]

SlaveAnswers ==
  /\ toSlave # <<>>
  /\ toSlave' = Tail(toSlave)
  /\ LET f == Head(toSlave) IN
       /\ \/ slave' = Slave(f).to /\ toHost' = toHost \o Slave(f).out
          \/ /\ world.errors /\ f.src = "us" /\ slave.connected
             /\ toHost' = Append(toHost, [type |-> "err"]) /\ UNCHANGED slave
       /\ toolWaits' = (toolWaits /\ f.src # "tool")
  /\ UNCHANGED <<gui, master, observer, toolLeft, mishaps, world>>

\* A measurement of a running list; the slave waits while the host lags behind.
SlaveMeasures ==
  /\ toHost = <<>>
  /\ \E d \in DaqLists : \E o \in 1..Len(slave.lists[d].odts) :
       LET odt == slave.lists[d].odts[o]
           bytes[i \in 0..Len(odt)] == IF i = 0 THEN <<>> ELSE bytes[i - 1] \o BytesAt(odt[i].addr, odt[i].size)
       IN /\ slave.lists[d].mode = "running" /\ odt # <<>>
          /\ toHost' = <<[type |-> "daq", pid |-> d * MaxOdt + o - 1, data |-> bytes[Len(odt)]]>>
  /\ UNCHANGED <<gui, master, observer, toSlave, slave, tool, mishaps, world>>

\* One command at a time; the observer hears it as the slave does.
ToolSends ==
  /\ toolLeft > 0 /\ ~toolWaits
  /\ toolLeft' = toolLeft - 1 /\ toolWaits' = TRUE
  /\ LET f == world.tool[Len(world.tool) - toolLeft + 1] IN
       /\ toSlave' = Append(toSlave, f)
       /\ toHost' = Append(toHost, [type |-> "cmd"] @@ f)
  /\ UNCHANGED <<gui, master, observer, slave, mishaps, world>>

Lose ==
  /\ losses < world.maxLoss /\ losses' = losses + 1
  /\ \/ toSlave # <<>> /\ toSlave' = Tail(toSlave) /\ UNCHANGED toHost
     \/ toHost # <<>> /\ toHost' = Tail(toHost) /\ UNCHANGED toSlave
  /\ UNCHANGED <<gui, master, observer, slave, tool, faults, world>>

-----------------------------------------------------------------------------

Next ==
  \/ \E c \in world.commands : Give(c)
  \/ RecvFrame \/ TimeoutScan
  \/ SlaveAnswers \/ SlaveMeasures \/ ToolSends \/ Lose

Spec == Init /\ [][Next]_vars

\* The session thread runs, the slave answers, other frames keep coming.
FairSpec == Spec /\ WF_vars(RecvFrame) /\ WF_vars(TimeoutScan) /\ WF_vars(SlaveAnswers)

-----------------------------------------------------------------------------
(* Properties                                                              *)

\* Type correctness of the session's and the GUI's state.
TypeOK ==
  /\ given \subseteq Commands /\ connected \in BOOLEAN
  /\ nego \in Params
  /\ pending = None \/ /\ pending[1].cmd \in Commands
                       /\ Len(pending[1].acc) <= pending[1].cmd.len
                       /\ pending[1].step \in {"connect", "disconnect", "getSeed", "unlock", "mta",
                                               "upload", "downloadAck"}
  /\ Len(startPending) <= 1 /\ sawConnect \in BOOLEAN
  /\ DOMAIN pids \subseteq 0..(PidRange - 1)
  /\ toolLeft \in 0..Len(world.tool) /\ losses \in 0..world.maxLoss /\ faults \in 0..world.maxFaults

\* A success in the log is one: the bytes an UPLOAD reports are those at the
\* address that was asked for, all of them in order, and when a DOWNLOAD is
\* reported the slave has stored the data (session.rs:810-1000).
TrueOf(p) ==
  CASE p.cmd.op = "upload" -> p.acc = BytesAt(p.cmd.addr, p.cmd.len)
    [] p.cmd.op = "download" ->
         \A i \in 0..(p.cmd.len - 1) : p.cmd.addr + i \in DOMAIN slave.mem /\ slave.mem[p.cmd.addr + i] = <<p.cmd>>
    [] OTHER -> TRUE
SuccessIsTrue == [][report' # report /\ report' # None => TrueOf(report'[1])]_vars

\* A live measurement shows the memory at its address: the observer has put
\* together the layout the tool configured, list by list, and knows which PID
\* is which (daq.rs:91-230).
ValuesAreTrue == \A a \in DOMAIN values : values[a] = BytesAt(a, Len(values[a]))

\* No transaction stays in flight for ever: it is answered, refused or times
\* out, as long as other traffic lets the scan run (session.rs:2952).
TransactionsEnd == pending # None ~> pending = None
=============================================================================
