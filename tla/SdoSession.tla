----------------------------- MODULE SdoSession -----------------------------
(***************************************************************************)
(* The SDO master of the monitor: the front-end (GUI or TUI) queues        *)
(* commands, the session thread (recv_loop) turns them into transfers, one *)
(* pending record per node, and reports to the front-end by events.  What  *)
(* a response does to a record is SdoPending; the nodes are SdoServer.     *)
(*                                                                         *)
(* Commands and events travel in unbounded mpsc channels, requests and     *)
(* responses in FIFO order over a bus that may lose them.  A record times  *)
(* out only in the scan at the end of an iteration that received a frame.  *)
(***************************************************************************)
EXTENDS Integers, SequencesExt, SdoPending

CONSTANTS
  Nodes,
  Worlds        \* the users and surroundings of a session, see World

None == <<>>

Asks ==
  [node : Nodes, obj : Objects, dir : {"read", "write"},
   mode : {"Auto", "ForcedBlock", "ForcedSegmented"}]

\* A user, the nodes and a bus:
\*   kind       the kind of SDO server of every node, see SdoServer
\*   commands   the commands the user may give, each at most once
\*   batch      commands one click may queue ("Read all sub-entries")
\*   hurried    the user may give a command before the last one shows
\*   guarded    the GUI, which offers no command for a node that is shown as
\*              pending; if not, the TUI, which always does
\*   traffic    other frames (heartbeats, PDOs) keep arriving
\*   timely     no time passes while an answer is under way
\*   maxLoss    bound: frames lost
\*   maxFaults  bound: sends the adapter refuses
\*   maxUnplug  bound: disconnects and other errors of the adapter
\*   maxDrop    bound: commands lost between the drain and the check behind it
World ==
  [kind : [Nodes -> ServerKinds], commands : SUBSET Asks, batch : Nat \ {0},
   hurried : BOOLEAN, guarded : BOOLEAN, traffic : BOOLEAN, timely : BOOLEAN,
   maxLoss : Nat, maxFaults : Nat, maxUnplug : Nat, maxDrop : Nat]

ASSUME SessionConstantsOK == IsFiniteSet(Nodes) /\ Worlds \subseteq World

VARIABLES
  asked,      \* commands the user has given
  shown,      \* front-end: nodes shown as pending (AppState.pending_sdos)
  answered,   \* front-end: transfers with an entry in its log (sdo_log)
  cmds,       \* commands on their way to the session
  events,     \* events on their way to the front-end
  pending,    \* session: pending_sdos, None or <<record>> for every node
  noBlock,    \* session: nodes_no_block
  link,       \* the adapter: "up", "down", or "ended" with the thread
  reqs,       \* requests under way to each node
  rsps,       \* responses under way to the session
  srv,        \* the SDO server of every node
  losses, faults, unplugs,  \* mishaps so far
  dropped,    \* commands taken off the channel by a check and never looked at
  world       \* the user and the surroundings of this session

frontEnd == <<asked, shown, answered>>
session == <<pending, noBlock>>
bus == <<reqs, rsps>>
mishaps == <<losses, faults, unplugs, dropped>>
vars == <<frontEnd, cmds, events, session, link, bus, srv, mishaps, world>>

Init ==
  /\ asked = {} /\ shown = {} /\ answered = {}
  /\ cmds = <<>> /\ events = <<>>
  /\ pending = [n \in Nodes |-> None] /\ noBlock = {}
  /\ link = "up"
  /\ reqs = [n \in Nodes |-> <<>>] /\ rsps = <<>>
  /\ srv = [n \in Nodes |-> IdleServer({})]
  /\ losses = 0 /\ faults = 0 /\ unplugs = 0 /\ dropped = {}
  /\ world \in Worlds

-----------------------------------------------------------------------------
(* The front-end                                                           *)

\* A click queues one read or write, or the reads of several objects of a
\* node; while the node is shown as pending the GUI's buttons are disabled.
\* In every turn the session drains the channel and then looks once more
\* whether the front-end is there: a command that comes in between is lost.
Ask ==
  \E n \in Nodes : \E k \in 1..world.batch :
    \E batch \in [1..k -> {c \in world.commands \ asked : c.node = n}] :
      /\ world.guarded => n \notin shown
      /\ ~world.hurried => cmds = <<>> /\ events = <<>> /\ pending[n] = None
      /\ k > 1 => \A i \in 1..k : batch[i].dir = "read"
      /\ \A i, j \in 1..k : i # j => batch[i] # batch[j]
      /\ asked' = asked \cup {batch[i] : i \in 1..k}
      /\ \/ /\ cmds' = cmds \o batch
            /\ UNCHANGED dropped
         \/ /\ link = "up" /\ cmds = <<>> /\ Cardinality(dropped) < world.maxDrop
            /\ cmds' = Tail(batch)
            /\ dropped' = dropped \cup {Head(batch)}
      /\ UNCHANGED <<shown, answered, events, session, link, bus, srv, losses, faults, unplugs, world>>

\* apply_event: an SdoPending event sets the node's indicator, any Sdo event of
\* the node clears it and is logged.
ApplyEvent ==
  /\ events # <<>>
  /\ events' = Tail(events)
  /\ LET e == Head(events) IN
       IF e.kind = "pending"
         THEN shown' = shown \cup {e.node} /\ UNCHANGED answered
         ELSE /\ shown' = shown \ {e.node}
              /\ answered' = answered \cup {<<e.node, e.obj, e.dir, e.code>>}
  /\ UNCHANGED <<asked, cmds, session, link, bus, srv, mishaps, world>>

-----------------------------------------------------------------------------
(* The session thread                                                      *)

\* CanEvent::SdoPending
Pending(c) ==
  [kind |-> "pending", node |-> c.node, obj |-> c.obj, dir |-> c.dir, code |-> "none", val |-> <<>>]

\* The adapter refuses a frame.
SendFault ==
  /\ faults < world.maxFaults /\ faults' = faults + 1
  /\ UNCHANGED <<losses, unplugs, dropped>>

\* process_command: the first request goes out and the node's record is
\* replaced by a new one, whatever became of the old; a refused send is
\* reported at once.
Command ==
  /\ link = "up" /\ cmds # <<>>
  /\ cmds' = Tail(cmds)
  /\ LET c == Head(cmds)
         s == Start(c, noBlock)
     IN \/ /\ pending' = [pending EXCEPT ![c.node] = <<s.p>>]
           /\ reqs' = [reqs EXCEPT ![c.node] = Append(@, s.out)]
           /\ events' = Append(events, Pending(c))
           /\ UNCHANGED mishaps
        \/ /\ SendFault
           /\ events' = Append(events, Aborted(c.node, c.obj, c.dir, "general"))
           /\ UNCHANGED <<session, reqs>>
  /\ UNCHANGED <<frontEnd, noBlock, link, rsps, srv, world>>

\* mutant: records between the sub-blocks of a transfer are not scanned
OverdueBetweenBlocks(tbl) == {n \in Nodes : tbl[n] # None /\ ~InProgress(tbl[n][1]) /\ Due(tbl[n][1])}

\* The timeout scan over a table of records; a HashMap has no order.
Overdue(tbl) == {n \in Nodes : tbl[n] # None /\ Due(tbl[n][1])}
Scanned(tbl) == [n \in Nodes |-> IF n \in Overdue(tbl) THEN None ELSE tbl[n]]

\* mutant: only the first overdue record is reported
TimeoutEventsFirst(tbl) ==
  IF Overdue(tbl) = {} THEN <<>>
  ELSE LET n == CHOOSE i \in Overdue(tbl) : TRUE IN
    <<Aborted(n, tbl[n][1].obj, tbl[n][1].dir, "timeout")>>

TimeoutEvents(tbl) ==
  SetToSeq({Aborted(n, tbl[n][1].obj, tbl[n][1].dir, "timeout") : n \in Overdue(tbl)})

\* What gets out of the frames of one handler when the adapter takes all of
\* them, or refuses one and those after it.
GetsOut(out, ok) ==
  IF ok THEN {out} ELSE {<<>>} \cup {SubSeq(out, 1, k) : k \in 1..(Len(out) - 1)}

\* A response of a node with a transfer: handle it, then scan the table.
Respond ==
  /\ link = "up" /\ rsps # <<>> /\ pending[Head(rsps).node] # None
  /\ rsps' = Tail(rsps)
  /\ LET n == Head(rsps).node
         m == Head(rsps).rsp
         p == pending[n][1]
     IN \E ok \in BOOLEAN :
          LET r == OnResponse(p, m, ok)
              tbl == [pending EXCEPT ![n] = r.next]
          IN /\ IF ok THEN UNCHANGED mishaps
                      ELSE SendFault /\ OnResponse(p, m, TRUE).out # <<>>
             /\ \E out \in GetsOut(r.out, ok) : reqs' = [reqs EXCEPT ![n] = @ \o out]
             /\ pending' = IF r.scan THEN Scanned(tbl) ELSE tbl
             /\ events' = events \o r.ev \o (IF r.scan THEN TimeoutEvents(tbl) ELSE <<>>)
             /\ noBlock' = IF m.cs = "abort" /\ FallsBack(p, m) THEN noBlock \cup {n} ELSE noBlock
  /\ UNCHANGED <<frontEnd, cmds, link, srv, world>>

\* A response of a node without one is decoded passively.
Overhear ==
  /\ link = "up" /\ rsps # <<>> /\ pending[Head(rsps).node] = None
  /\ rsps' = Tail(rsps)
  /\ events' = events \o Passive(Head(rsps).node, Head(rsps).rsp) \o TimeoutEvents(pending)
  /\ pending' = Scanned(pending)
  /\ UNCHANGED <<frontEnd, cmds, noBlock, link, reqs, srv, mishaps, world>>

\* Any other data frame: nothing here but the scan.  When recv times out the
\* loop goes round without one.
OtherFrame ==
  /\ world.traffic /\ link = "up" /\ Overdue(pending) # {}
  /\ pending' = Scanned(pending)
  /\ events' = events \o TimeoutEvents(pending)
  /\ UNCHANGED <<frontEnd, cmds, noBlock, link, bus, srv, mishaps, world>>

\* recv reports a disconnect: recv_loop returns and its tables are gone.
Unplug ==
  /\ link = "up" /\ unplugs < world.maxUnplug
  /\ link' = "down" /\ unplugs' = unplugs + 1
  /\ pending' = [n \in Nodes |-> None] /\ noBlock' = {} /\ rsps' = <<>>
  /\ UNCHANGED <<frontEnd, cmds, events, reqs, srv, losses, faults, dropped, world>>

\* The check for a front-end that has gone away takes a command off the channel.
Swallow ==
  IF cmds = <<>> THEN UNCHANGED <<cmds, dropped>>
  ELSE cmds' = Tail(cmds) /\ dropped' = dropped \cup {Head(cmds)}

\* Any other error of recv is logged, and the check is made.
RecvError ==
  /\ link = "up" /\ cmds # <<>> /\ unplugs < world.maxUnplug
  /\ unplugs' = unplugs + 1 /\ Swallow
  /\ UNCHANGED <<frontEnd, events, session, link, bus, srv, losses, faults, world>>

\* One round of the reconnect loop makes it as well.
Reopen ==
  /\ link = "down" /\ link' = "up" /\ Swallow
  /\ UNCHANGED <<frontEnd, events, session, bus, srv, losses, faults, unplugs, world>>

PollInVain ==
  /\ link = "down" /\ cmds # <<>> /\ Swallow
  /\ UNCHANGED <<frontEnd, events, session, link, bus, srv, losses, faults, unplugs, world>>

\* Any other error on opening the adapter ends the session thread.
GiveUp ==
  /\ link = "down" /\ link' = "ended" /\ Swallow
  /\ UNCHANGED <<frontEnd, events, session, bus, srv, losses, faults, unplugs, world>>

SessionNext == Command \/ Respond \/ Overhear \/ OtherFrame

-----------------------------------------------------------------------------
(* The nodes and the bus                                                   *)

Arrive(n, out) ==
  rsps' = IF link = "up" THEN rsps \o [i \in DOMAIN out |-> [node |-> n, rsp |-> out[i]]]
                         ELSE rsps

NodeServe(n) ==
  /\ reqs[n] # <<>>
  /\ reqs' = [reqs EXCEPT ![n] = Tail(@)]
  /\ \E r \in Serve(srv[n], Head(reqs[n]), world.kind[n]) :
       srv' = [srv EXCEPT ![n] = r.srv] /\ Arrive(n, r.out)
  /\ UNCHANGED <<frontEnd, cmds, events, session, link, mishaps, world>>

NodeStall(n) ==
  /\ reqs[n] = <<>> /\ SubBlockStalls(srv[n], world.kind[n])
  /\ srv' = [srv EXCEPT ![n] = ServeStall(srv[n]).srv]
  /\ Arrive(n, ServeStall(srv[n]).out)
  /\ UNCHANGED <<frontEnd, cmds, events, session, link, reqs, mishaps, world>>

Lose ==
  /\ losses < world.maxLoss /\ losses' = losses + 1
  /\ \/ \E n \in Nodes : reqs[n] # <<>> /\ reqs' = [reqs EXCEPT ![n] = Tail(@)] /\ UNCHANGED rsps
     \/ rsps # <<>> /\ rsps' = Tail(rsps) /\ UNCHANGED reqs
  /\ UNCHANGED <<frontEnd, cmds, events, session, link, srv, faults, unplugs, dropped, world>>

BusQuiet ==
  /\ rsps = <<>>
  /\ \A n \in Nodes : reqs[n] = <<>> /\ ~SubBlockStalls(srv[n], world.kind[n])

Tick ==
  /\ \E n \in Nodes : pending[n] # None
  /\ world.timely => BusQuiet
  /\ pending' = [n \in Nodes |-> IF pending[n] = None THEN None ELSE <<Aged(pending[n][1])>>]
  /\ UNCHANGED <<frontEnd, cmds, events, noBlock, link, bus, srv, mishaps, world>>

NodeNext == \E n \in Nodes : NodeServe(n) \/ NodeStall(n)

Next ==
  \/ Ask \/ ApplyEvent \/ SessionNext \/ NodeNext \/ Tick
  \/ Lose \/ Unplug \/ Reopen \/ PollInVain \/ GiveUp \/ RecvError

Spec == Init /\ [][Next]_vars

\* The threads run on, the nodes answer, time passes, an adapter that is
\* plugged in again is found.  The user and the mishaps are free.
FairSpec ==
  /\ Spec
  /\ WF_vars(ApplyEvent) /\ WF_vars(SessionNext) /\ WF_vars(Tick) /\ WF_vars(Reopen)
  /\ WF_vars(OtherFrame)
  /\ \A n \in Nodes : WF_vars(NodeServe(n) \/ NodeStall(n))

-----------------------------------------------------------------------------
(* Properties                                                              *)

States == {"wait", "ulSeg", "dlSeg", "bdInit", "bdProg", "bdEnd", "buInit", "buProg", "buEnd"}
Segments == UNION {{<<o, i>> : i \in 1..SegCount(o)} : o \in Objects}
Ages == 0..MaxAge

TypeOK ==
  /\ world \in Worlds /\ asked \subseteq world.commands /\ shown \subseteq Nodes
  /\ cmds \in Seq(world.commands)
  /\ link \in {"up", "down", "ended"} /\ noBlock \subseteq Nodes
  /\ \A n \in Nodes : pending[n] # None =>
       LET p == pending[n][1] IN
         /\ p.node = n /\ p.obj \in Objects /\ p.dir \in {"read", "write"} /\ p.st \in States
         /\ p.sent \in 0..SegCount(p.obj) /\ p.exp \in 1..MaxBlk
         /\ p.buf \in Seq(Segments) /\ {p.started, p.active} \subseteq Ages
  /\ losses \in 0..world.maxLoss /\ faults \in 0..world.maxFaults
  /\ unplugs \in 0..world.maxUnplug

\* What the front-end will show for a node once the events on their way have
\* been applied.
WillShow(n) ==
  LET about == {i \in DOMAIN events : events[i].node = n} IN
  IF about = {} THEN n \in shown
  ELSE events[CHOOSE i \in about : \A j \in about : j <= i].kind = "pending"

\* The indicator that enables the GUI's buttons follows the session's table:
\* once the events under way are applied a node is shown as pending exactly
\* while it has a record, through overwritten records, late and overheard
\* responses, fallbacks and timeouts, for as long as the adapter stays there. A refused
\* send of a command that overlaps another clears it (session.rs:1459): claimed where
\* no send is refused, or no command overlaps.
OneAtATime == ~world.hurried /\ world.batch = 1
IndicatorMatches ==
  unplugs = 0 /\ (faults = 0 \/ OneAtATime) => \A n \in Nodes : WillShow(n) <=> pending[n] # None

Reports == {events[i] : i \in DOMAIN events}

\* A read reported as successful carries the whole object, segments in order,
\* none of another object's and none twice.
ReadsAreWhole ==
  \A e \in Reports : e.kind = "sdo" /\ e.dir = "read" /\ e.code = "ok" => e.val = Whole(e.obj)

\* A write reported as successful has been taken by the node.
WritesAreStored ==
  \A e \in Reports : e.kind = "sdo" /\ e.dir = "write" /\ e.code = "ok" => e.obj \in srv[e.node].done

\* No command overlaps another, answers are in time and the adapter stays.
Calm == OneAtATime /\ world.timely /\ unplugs = 0

\* What the session reports as done is done: the bytes of a read are the object's,
\* and a write is in the node.  An answer is told from that of another transfer by
\* its form alone (session.rs:2031, 2074), so this is claimed of transfers that do
\* not meet the answers to another: the writes, and the reads once a frame is lost,
\* of commands that do not overlap, answered in time by an adapter that stays.
\* As long as no frame is lost the reads are true however commands overlap, answers
\* come late and the adapter comes and goes.
ReportsAreTrue ==
  /\ losses = 0 \/ Calm => ReadsAreWhole
  /\ Calm => WritesAreStored

\* No transfer stays pending for ever, and with it the buttons of its node.
EveryTransferEnds == \A n \in Nodes : pending[n] # None ~> pending[n] = None

\* Every command is answered by a log entry for its object: time and again
\* nothing that was asked is left open.  Does not hold where commands overlap.
EveryCommandAnswered ==
  []<>(\A c \in asked : \E a \in answered : a[1] = c.node /\ a[2] = c.obj /\ a[3] = c.dir)

\* Nothing goes wrong around the session.
Faultless ==
  world.timely /\ ~world.hurried /\ world.maxLoss + world.maxFaults + world.maxUnplug = 0

\* Transfers the session gets wrong: a block write to a server that keeps to the
\* standard (it waits for an answer the server does not owe yet), and a block read
\* whose sum covers padding (README, section 6).
Defective(c) ==
  /\ UseBlock(c, {}) /\ world.kind[c.node] # "segmented"
  /\ IF c.dir = "write" THEN Segs[c.obj] > 0 /\ world.kind[c.node] = "strict"
     ELSE SrvCrc /\ IsPadded(<<c.obj, SegCount(c.obj)>>)

\* Then every other command that the session looks at succeeds, by the fallback to a
\* segmented transfer where the node has no block transfers, and whatever transfers
\* failed before it.  A command that comes between the drain of the channel and the
\* check behind it is not looked at (session.rs:1698).
EveryCommandSucceeds ==
  Faultless =>
    []<>(\A c \in asked \ dropped :
           \/ <<c.node, c.obj, c.dir, "ok">> \in answered
           \/ c.obj \in Missing \/ Defective(c) \/ SegCount(c.obj) > MaxBuffer)

\* Every transfer of an object the node has succeeds.  Does not hold: Defective.
EverySupportedSucceeds ==
  Faultless =>
    []<>(\A c \in asked \ dropped :
           c.obj \in Missing \/ <<c.node, c.obj, c.dir, "ok">> \in answered)
=============================================================================
