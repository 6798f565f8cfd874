------------------------------ MODULE KcanLink ------------------------------
(***************************************************************************)
(* The KCAN dongle and its host: the session thread with the adapter, the  *)
(* adapter's reader thread (adapters/kcan/mod.rs), the USB and CAN tasks   *)
(* of the firmware (usb_task.rs, can_task.rs, ep0_handler.rs of the two    *)
(* boards).  Frames go through bounded queues that drop what does not fit; *)
(* the host opens and closes sessions without a USB reset, and the cable   *)
(* may be pulled.                                                          *)
(***************************************************************************)
EXTENDS Integers, Sequences

CONSTANTS
  TxCmdCap,     \* sync_channel(8) to the reader thread
  ToUsbCap,     \* CAN_TO_USB: 256 entries on the H743, 32 on the H753
  ToCanCap,     \* USB_TO_CAN: 32 entries
  FifoCap,      \* received frames the peripheral holds
  Wrap,         \* the hardware timestamp is taken modulo this, 2^32 in the code
  Worlds

\* The board, the sessions that only listen, and bounds: sessions, frames received
\* and sent, cable pulls, failures of the bus or of USB.
World ==
  [board : {"h743", "h753"}, listen : SUBSET Nat, sessions : Nat, rx : Nat, tx : Nat,
   unplugs : Nat, faults : Nat]

ASSUME KcanConstantsOK ==
  /\ TxCmdCap \in Nat \ {0} /\ ToUsbCap \in Nat \ {0} /\ ToCanCap \in Nat \ {0}
  /\ FifoCap \in Nat \ {0} /\ Wrap \in Nat \ {0}
  /\ Worlds \subseteq World

VARIABLES
  host,       \* session thread: what it does with the adapter
  session,    \* sessions begun (SET_MODE bus-on)
  reader,     \* reader thread
  txq,        \* TxCmd channel
  rxq,        \* frame channel
  clock,      \* ts_last_100ns, ts_epoch_100ns, and the time last given to a frame
  seen,       \* frames the session has surfaced in the present session
  attached,   \* the cable
  linked,     \* the host's handles are those of the present attachment
  configured, \* USB_CONFIGURED: "none" or the value signalled last
  restart,    \* BULK_RESTART
  io,         \* kcan_io_task: "wait", "run" or "settle" (the 150 ms)
  inArm, outArm, \* its two arms
  inFlight,   \* the frame write_packet waits with
  ep1,        \* the frame in the endpoint's FIFO
  toUsb, toCan, \* CAN_TO_USB, USB_TO_CAN
  listenOnly, \* LISTEN_ONLY
  dropped,    \* received frames dropped, RX_DROP_COUNTER of them
  fifo,       \* received frames in the peripheral
  writing,    \* the frame tx.write waits with
  onBus,      \* frames handed to the peripheral for transmission
  rxCount, txCount, unplugs, faults,  \* how far the environment is
  quietFrom,  \* length of onBus when the present session began
  world

adapter == <<host, session, reader, txq, rxq, clock, seen, linked>>
usb == <<configured, restart, io, inArm, outArm, inFlight, ep1>>
canSide == <<toUsb, toCan, dropped, fifo, writing, onBus, rxCount>>
rest == <<attached, txCount, unplugs, faults, quietFrom, world>>
vars == <<adapter, usb, canSide, listenOnly, rest>>

Shutdown == [kind |-> "shutdown", n |-> 0, s |-> 0]
NoFrame == <<>>

Init ==
  /\ host = "closed" /\ session = 0 /\ reader = "none" /\ txq = <<>> /\ rxq = <<>>
  /\ clock = [last |-> 0, epoch |-> 0, given |-> 0] /\ seen = <<>>
  /\ attached = TRUE /\ linked = FALSE
  /\ configured = "yes" /\ restart = FALSE /\ io = "wait" /\ inArm = "recv" /\ outArm = "read"
  /\ inFlight = NoFrame /\ ep1 = NoFrame
  /\ toUsb = <<>> /\ toCan = <<>> /\ listenOnly = FALSE /\ dropped = {}
  /\ fifo = <<>> /\ writing = NoFrame /\ onBus = <<>>
  /\ rxCount = 0 /\ txCount = 0 /\ unplugs = 0 /\ faults = 0 /\ quietFrom = 0
  /\ world \in Worlds

\* try_send on a bounded channel; a frame remembers the session it was queued in.
Push(q, f, cap) == IF Len(q) < cap THEN Append(q, f) ELSE q

\* Hardware time: every stamp is later than the one before.
Stamp == (rxCount + Len(onBus) + 1) % Wrap

-----------------------------------------------------------------------------
(* Session thread: KCanAdapter                                             *)

Listening(s) == s \in world.listen

\* mutant: SET_MODE leaves the bulk endpoints alone
OpenSetModeQuietly ==
  /\ host = "closed" /\ attached /\ session < world.sessions
  /\ session' = session + 1 /\ host' = "opening" /\ linked' = TRUE
  /\ listenOnly' = Listening(session + 1)
  /\ quietFrom' = Len(onBus)
  /\ UNCHANGED <<reader, txq, rxq, clock, seen, usb, canSide, attached, txCount, unplugs, faults, world>>

\* open: the interface is claimed, the dongle asked for its version and timing
\* (failures so far change nothing) and put on the bus.
OpenSetMode ==
  /\ host = "closed" /\ attached /\ session < world.sessions
  /\ session' = session + 1 /\ host' = "opening" /\ linked' = TRUE
  /\ listenOnly' = Listening(session + 1) /\ restart' = TRUE
  /\ quietFrom' = Len(onBus)
  /\ UNCHANGED <<reader, txq, rxq, clock, seen, configured, io, inArm, outArm, inFlight, ep1,
                 canSide, attached, txCount, unplugs, faults, world>>

\* The endpoints are opened, their halts cleared, the reader is spawned.
OpenReader ==
  /\ host = "opening" /\ linked
  /\ host' = "open" /\ reader' = "drain"
  /\ UNCHANGED <<session, txq, rxq, clock, seen, linked, usb, canSide, listenOnly, rest>>

\* An endpoint cannot be opened: the dongle stays on the bus.
OpenFails ==
  /\ host = "opening" /\ (~linked \/ faults < world.faults)
  /\ faults' = IF linked THEN faults + 1 ELSE faults
  /\ host' = "closed" /\ linked' = FALSE
  /\ UNCHANGED <<session, reader, txq, rxq, clock, seen, usb, canSide, listenOnly, attached, txCount,
                 unplugs, quietFrom, world>>

\* send: what does not fit, or has no reader any more, is TxQueueFull.  A
\* listen-only session discards its commands before they come here.
Send ==
  /\ host = "open" /\ ~Listening(session) /\ txCount < world.tx
  /\ txCount' = txCount + 1
  /\ txq' = IF reader = "exited" THEN txq
            ELSE Push(txq, [kind |-> "tx", n |-> txCount + 1, s |-> session], TxCmdCap)
  /\ UNCHANGED <<host, session, reader, rxq, clock, seen, linked, usb, canSide, listenOnly, attached,
                 unplugs, faults, quietFrom, world>>

\* mutant: a decrease of the timestamp is not taken for a wrap
ExtendedNever(c, raw) == [last |-> raw, epoch |-> c.epoch, given |-> c.epoch + raw]

\* The session's extension of the hardware timestamp.
Extended(c, raw) ==
  LET epoch == IF raw < c.last THEN c.epoch + Wrap ELSE c.epoch
  IN [last |-> raw, epoch |-> epoch, given |-> epoch + raw]

\* recv: data frames and echoes; the session extends their timestamps.
Recv ==
  /\ host = "open" /\ rxq # <<>>
  /\ rxq' = Tail(rxq) /\ seen' = Append(seen, Head(rxq))
  /\ clock' = Extended(clock, Head(rxq).at)
  /\ UNCHANGED <<host, session, reader, txq, linked, usb, canSide, listenOnly, rest>>

\* recv finds the reader gone, or the user ends the session: the adapter is
\* dropped.  Frames not yet received are gone with it.
LoseAdapter ==
  /\ host = "open" /\ rxq = <<>> /\ reader = "exited"
  /\ host' = "closing" /\ seen' = <<>>
  /\ UNCHANGED <<session, reader, txq, rxq, clock, linked, usb, canSide, listenOnly, rest>>

Close ==
  /\ host = "open" /\ host' = "closing" /\ rxq' = <<>> /\ seen' = <<>>
  /\ UNCHANGED <<session, reader, txq, clock, linked, usb, canSide, listenOnly, rest>>

\* drop, 1: SET_MODE bus-off, if the dongle still hears it
CloseBusOff ==
  /\ host = "closing" /\ host' = "asking"
  /\ listenOnly' = (listenOnly /\ ~linked)
  /\ UNCHANGED <<session, reader, txq, rxq, clock, seen, linked, usb, canSide, rest>>

\* drop, 2: the reader is asked to end, if the queue has room
CloseShutdown ==
  /\ host = "asking" /\ host' = "joining"
  /\ txq' = IF reader = "exited" THEN txq ELSE Push(txq, Shutdown, TxCmdCap)
  /\ UNCHANGED <<session, reader, rxq, clock, seen, linked, usb, canSide, listenOnly, rest>>

\* drop, 3: join
CloseJoin ==
  /\ host = "joining" /\ reader = "exited"
  /\ host' = "closed" /\ reader' = "none" /\ linked' = FALSE /\ txq' = <<>> /\ rxq' = <<>>
  /\ clock' = [last |-> 0, epoch |-> 0, given |-> 0]
  /\ UNCHANGED <<session, seen, usb, canSide, listenOnly, rest>>

-----------------------------------------------------------------------------
(* Reader thread                                                           *)

Serving == linked /\ io = "run" /\ outArm = "read"

\* mutant: the request to end only ends the draining
ReaderDrainBreaks ==
  /\ reader = "drain"
  /\ IF txq = <<>> \/ Head(txq).kind = "shutdown"
       THEN reader' = "read" /\ txq' = (IF txq = <<>> THEN txq ELSE Tail(txq)) /\ UNCHANGED toCan
       ELSE /\ txq' = Tail(txq) /\ UNCHANGED reader
            /\ toCan' = IF Serving THEN Push(toCan, Head(txq), ToCanCap) ELSE toCan
  /\ UNCHANGED <<host, session, rxq, clock, seen, linked, usb, toUsb, dropped, fifo, writing, onBus,
                 rxCount, listenOnly, rest>>

\* A command of the queue: the frame goes to the dongle, which drops it when its
\* queue is full; a transfer that fails is not noticed.
ReaderDrain ==
  /\ reader = "drain"
  /\ IF txq = <<>> THEN reader' = "read" /\ UNCHANGED <<txq, toCan>>
     ELSE /\ txq' = Tail(txq)
          /\ IF Head(txq).kind = "shutdown" THEN reader' = "exited" /\ UNCHANGED toCan
             ELSE /\ UNCHANGED reader
                  /\ toCan' = IF Serving THEN Push(toCan, Head(txq), ToCanCap) ELSE toCan
  /\ UNCHANGED <<host, session, rxq, clock, seen, linked, usb, toUsb, dropped, fifo, writing, onBus,
                 rxCount, listenOnly, rest>>

\* A packet, or 200 ms without one.  The first packet comes after the dongle has
\* handled the restart: clearing the halts takes the host longer.
ReaderRead ==
  /\ reader = "read" /\ linked
  /\ reader' = "drain"
  /\ \/ ep1 # NoFrame /\ ~restart /\ rxq' = Append(rxq, ep1[1]) /\ ep1' = NoFrame
     \/ UNCHANGED <<rxq, ep1>>
  /\ UNCHANGED <<host, session, txq, clock, seen, linked, configured, restart, io, inArm, outArm,
                 inFlight, canSide, listenOnly, rest>>

\* The device is gone, or the endpoint fails for good.
ReaderDies ==
  /\ reader = "read" /\ (~linked \/ faults < world.faults)
  /\ faults' = IF linked THEN faults + 1 ELSE faults
  /\ reader' = "exited"
  /\ UNCHANGED <<host, session, txq, rxq, clock, seen, linked, usb, canSide, listenOnly, attached,
                 txCount, unplugs, quietFrom, world>>

-----------------------------------------------------------------------------
(* Firmware: kcan_io_task                                                  *)

IoUnchanged == UNCHANGED <<adapter, listenOnly, rest>>

\* USB_CONFIGURED.wait(): of the values signalled only the last is seen.
IoConfigured ==
  /\ io = "wait" /\ configured # "none" /\ configured' = "none"
  /\ IF configured = "yes" THEN io' = "run" /\ inArm' = "recv" /\ outArm' = "read"
     ELSE UNCHANGED <<io, inArm, outArm>>
  /\ UNCHANGED <<restart, inFlight, ep1, canSide>> /\ IoUnchanged

\* Bulk IN: a frame is taken from the queue and written when the endpoint's FIFO
\* is empty; a disabled endpoint ends the arm and loses the frame.
InTake ==
  /\ io = "run" /\ inArm = "recv" /\ toUsb # <<>>
  /\ inFlight' = <<Head(toUsb)>> /\ toUsb' = Tail(toUsb) /\ inArm' = "write"
  /\ UNCHANGED <<configured, restart, io, outArm, ep1, toCan, dropped, fifo, writing, onBus, rxCount>>
  /\ IoUnchanged

InWrite ==
  /\ io = "run" /\ inArm = "write" /\ (attached => ep1 = NoFrame)
  /\ inFlight' = NoFrame
  /\ IF attached THEN inArm' = "recv" /\ ep1' = inFlight
     ELSE inArm' = "done" /\ UNCHANGED ep1
  /\ UNCHANGED <<configured, restart, io, outArm, canSide>> /\ IoUnchanged

\* Bulk OUT ends with the endpoint (its frames are part of ReaderDrain).
OutDisabled ==
  /\ io = "run" /\ outArm = "read" /\ ~attached
  /\ outArm' = "done"
  /\ UNCHANGED <<configured, restart, io, inArm, inFlight, ep1, canSide>> /\ IoUnchanged

\* join: both arms have ended.
RunEnds ==
  /\ io = "run" /\ inArm = "done" /\ outArm = "done" /\ io' = "wait"
  /\ UNCHANGED <<configured, restart, inArm, outArm, inFlight, ep1, canSide>> /\ IoUnchanged

\* mutant: the queue is not drained
RestartKeeps ==
  /\ io = "run" /\ restart /\ restart' = FALSE
  /\ inFlight' = NoFrame /\ ep1' = NoFrame /\ inArm' = "recv" /\ outArm' = "read"
  /\ io' = "settle"
  /\ UNCHANGED <<configured, canSide>> /\ IoUnchanged

\* BULK_RESTART on the H743: both arms are dropped, the endpoint is flushed, the
\* queue drained, and the endpoint stays idle for a while.
Restart ==
  /\ io = "run" /\ restart /\ restart' = FALSE /\ world.board = "h743"
  /\ inFlight' = NoFrame /\ ep1' = NoFrame /\ inArm' = "recv" /\ outArm' = "read"
  /\ toUsb' = <<>> /\ io' = "settle"
  /\ UNCHANGED <<configured, toCan, dropped, fifo, writing, onBus, rxCount>> /\ IoUnchanged

Settled ==
  /\ io = "settle" /\ io' = "run"
  /\ UNCHANGED <<configured, restart, inArm, outArm, inFlight, ep1, canSide>> /\ IoUnchanged

\* On the H753 the queue is kept and there is no pause.
RestartH753 ==
  /\ io = "run" /\ restart /\ restart' = FALSE /\ world.board = "h753"
  /\ inFlight' = NoFrame /\ ep1' = NoFrame /\ inArm' = "recv" /\ outArm' = "read"
  /\ UNCHANGED <<configured, io, canSide>> /\ IoUnchanged

-----------------------------------------------------------------------------
(* Firmware: can_task                                                      *)

CanUnchanged == UNCHANGED <<adapter, usb, listenOnly, rest>>

\* The RX loop: a received frame goes to the queue or is counted as dropped.
RxTask ==
  /\ fifo # <<>> /\ fifo' = Tail(fifo) /\ world.board = "h743"
  /\ toUsb' = Push(toUsb, [Head(fifo) EXCEPT !.s = session], ToUsbCap)
  /\ dropped' = IF Len(toUsb) < ToUsbCap THEN dropped ELSE dropped \cup {Head(fifo).n}
  /\ UNCHANGED <<toCan, writing, onBus, rxCount>> /\ CanUnchanged

\* On the H753 one loop serves both directions, and drops are not counted.
RxTaskH753 ==
  /\ fifo # <<>> /\ fifo' = Tail(fifo) /\ world.board = "h753" /\ writing = NoFrame
  /\ toUsb' = Push(toUsb, [Head(fifo) EXCEPT !.s = session], ToUsbCap)
  /\ UNCHANGED <<toCan, dropped, writing, onBus, rxCount>> /\ CanUnchanged

\* mutant: listen-only is not looked at
TxTakeAlways ==
  /\ writing = NoFrame /\ toCan # <<>> /\ toCan' = Tail(toCan)
  /\ writing' = <<Head(toCan)>>
  /\ UNCHANGED <<toUsb, dropped, fifo, onBus, rxCount>> /\ CanUnchanged

\* The TX loop takes a frame; in listen-only mode it is dropped.
TxTake ==
  /\ writing = NoFrame /\ toCan # <<>> /\ toCan' = Tail(toCan)
  /\ writing' = IF listenOnly THEN NoFrame ELSE <<Head(toCan)>>
  /\ UNCHANGED <<toUsb, dropped, fifo, onBus, rxCount>> /\ CanUnchanged

\* write completes: the echo is stamped now, after frames stamped on reception
\* that still wait in the FIFO; an echo that does not fit is lost uncounted.
TxWritten ==
  /\ writing # NoFrame
  /\ writing' = NoFrame /\ onBus' = Append(onBus, writing[1].n)
  /\ toUsb' = Push(toUsb, [kind |-> "echo", n |-> writing[1].n, at |-> Stamp, s |-> session], ToUsbCap)
  /\ UNCHANGED <<toCan, dropped, fifo, rxCount>> /\ CanUnchanged

\* Bus-off: the write is given up after 200 ms.
TxTimeout ==
  /\ writing # NoFrame /\ faults < world.faults /\ faults' = faults + 1
  /\ writing' = NoFrame
  /\ UNCHANGED <<adapter, usb, listenOnly, toUsb, toCan, dropped, fifo, onBus, rxCount,
                 attached, txCount, unplugs, quietFrom, world>>

-----------------------------------------------------------------------------
(* The bus and the cable (not part of the code, except the USB callbacks)  *)

\* A frame arrives and is stamped; the peripheral has room for it.
Arrive ==
  /\ rxCount < world.rx /\ Len(fifo) < FifoCap
  /\ rxCount' = rxCount + 1
  /\ fifo' = Append(fifo, [kind |-> "data", n |-> rxCount + 1, at |-> Stamp, s |-> 0])
  /\ UNCHANGED <<toUsb, toCan, dropped, writing, onBus>> /\ CanUnchanged

\* suspended() or configured(false); the board keeps its power.
Unplug ==
  /\ attached /\ unplugs < world.unplugs /\ unplugs' = unplugs + 1
  /\ attached' = FALSE /\ linked' = FALSE /\ configured' = "no" /\ ep1' = NoFrame
  /\ UNCHANGED <<host, session, reader, txq, rxq, clock, seen, restart, io, inArm, outArm, inFlight,
                 canSide, listenOnly, txCount, faults, quietFrom, world>>

\* configured(true)
Replug ==
  /\ ~attached /\ attached' = TRUE /\ configured' = "yes"
  /\ UNCHANGED <<adapter, restart, io, inArm, outArm, inFlight, ep1, canSide, listenOnly, txCount,
                 unplugs, faults, quietFrom, world>>

-----------------------------------------------------------------------------

CloseSteps == CloseBusOff \/ CloseShutdown \/ CloseJoin
ReaderSteps == ReaderDrain \/ ReaderRead \/ (~linked /\ ReaderDies)
IoSteps ==
  IoConfigured \/ InTake \/ InWrite \/ OutDisabled \/ RunEnds \/ Restart \/ Settled \/ RestartH753
CanSteps == RxTask \/ RxTaskH753 \/ TxTake \/ TxWritten

Next ==
  \/ OpenSetMode \/ OpenReader \/ OpenFails \/ Send \/ Recv \/ LoseAdapter \/ Close
  \/ CloseSteps \/ ReaderDrain \/ ReaderRead \/ ReaderDies
  \/ IoSteps \/ CanSteps \/ TxTimeout \/ Arrive \/ Unplug \/ Replug

Spec == Init /\ [][Next]_vars

\* Threads run and tasks are polled; a run of the I/O task does not starve its
\* restart (select polls both).
FairSpec ==
  /\ Spec
  /\ WF_vars(CloseBusOff) /\ WF_vars(CloseShutdown) /\ WF_vars(CloseJoin)
  /\ WF_vars(Recv) /\ WF_vars(LoseAdapter) /\ WF_vars(ReaderSteps)
  /\ WF_vars(IoConfigured) /\ WF_vars(Restart \/ RestartH753) /\ WF_vars(Settled)
  /\ WF_vars(InTake) /\ WF_vars(InWrite) /\ WF_vars(OutDisabled) /\ WF_vars(RunEnds) /\ WF_vars(CanSteps)

-----------------------------------------------------------------------------
(* Properties                                                              *)

\* The frames of one kind in a queue are numbered upwards; a data frame is in it.
Rising(q, k) ==
  \A i, j \in 1..Len(q) : i < j /\ q[i].kind = k /\ q[j].kind = k => q[i].n < q[j].n
Has(q, n) == \E i \in 1..Len(q) : q[i].kind = "data" /\ q[i].n = n

\* What a session is shown happened, once and in this order: its data frames
\* are received frames of the bus since it began (on the board that drains its
\* queue), every one missing between two of them has been counted as dropped,
\* and its echoes are frames the peripheral got, in the order they were sent
\* (usb_task.rs:183-249, can_task.rs:84-171).
SeenIsTrue ==
  /\ Rising(seen, "data") /\ Rising(seen, "echo")
  /\ \A i \in 1..Len(seen) : seen[i].kind = "echo" => \E j \in 1..Len(onBus) : onBus[j] = seen[i].n
  /\ world.board = "h743" =>
       /\ \A i \in 1..Len(seen) : seen[i].s = session
       /\ \A i, j \in 1..Len(seen) : seen[i].kind = "data" /\ seen[j].kind = "data" =>
            \A n \in (seen[i].n + 1)..(seen[j].n - 1) : n \in dropped \/ Has(seen, n)

\* In a listen-only session nothing is transmitted, except the one frame whose
\* write was already under way when the mode changed (can_task.rs:137,
\* ep0_handler.rs:172).
ListenOnlyIsQuiet ==
  host \in {"opening", "open"} /\ linked /\ Listening(session) => Len(onBus) <= quietFrom + 1

\* The time given to frames never goes back within a session, although stamps
\* wrap and an echo may overtake a frame that was stamped before it
\* (session.rs:1712-1719).
TimeNeverGoesBack == [][clock'.given < clock.given => host' # host]_vars

\* Closing ends when the reader could be told, or has ended by itself
\* (adapters/kcan/mod.rs:260-281).
CloseEnds ==
  host = "joining" /\ (reader = "exited" \/ Shutdown \in {txq[i] : i \in 1..Len(txq)}) ~> host = "closed"

\* A session that stays open is served in both directions, even after the cable
\* was pulled and one arm of the I/O task has ended (usb_task.rs:102-254).
SessionIsServed == host = "open" ~> (io = "run" /\ outArm = "read" /\ inArm # "done") \/ host # "open"

\* The host gets what it waits for: the end of a session it closes, the service
\* of one it keeps.
HostIsServed == CloseEnds /\ SessionIsServed

\* "Signal the reader thread to exit immediately" and wait for it
\* (adapters/kcan/mod.rs:271-281): closing ends.  Does not hold when the queue was full.
CloseReturns == host = "closing" ~> host = "closed"
=============================================================================
