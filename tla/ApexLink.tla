------------------------------- MODULE ApexLink -------------------------------
(***************************************************************************)
(* The Apex adapter (adapters/apex/mod.rs): waking a device out of its     *)
(* boot loader, the commands that put it on the bus, the thread that sends *)
(* queued frames and cuts received bytes into records, stalls, a cable     *)
(* that is pulled, and the end of the session.  A record is two halves of  *)
(* the byte stream.                                                        *)
(***************************************************************************)
EXTENDS Integers, Sequences, SequencesExt

CONSTANTS
  ApexCmdCap,   \* sync_channel(32) to the thread
  ApexWorlds

\* The mode a plugged device starts in, whether its boot loader starts the application,
\* and bounds: sessions, frames sent and received, stalls, cable pulls, failed transfers.
ApexWorld ==
  [starts : {"boot", "run"}, wakes : BOOLEAN, sessions : Nat, tx : Nat, rx : Nat, stalls : Nat,
   pulls : Nat, faults : Nat]

ASSUME ApexConstantsOK == ApexCmdCap \in Nat \ {0} /\ ApexWorlds \subseteq ApexWorld

VARIABLES
  apex,       \* the adapter: "closed", "waking", "commands", "open", "joining"
  opens,      \* opens begun
  step,       \* commands answered so far
  device,     \* "absent", "boot", "run"
  waking,     \* the boot loader was told to start the application
  onBus,      \* the device is on the bus
  apexReader, \* "none", "drain", "read", "exited"
  cmds,       \* the TxCmd channel
  told,       \* the request to end was queued
  bytes, acc, \* half records in the device and in the thread
  records,    \* the channel of received frames
  got,        \* frames recv has returned
  heard,      \* frames the device has received in this session
  sent,       \* frames the device has transmitted
  apexCount,  \* how far the environment is
  apexWorld

apexVars == <<apex, opens, step, device, waking, onBus, apexReader, cmds, told, bytes, acc, records,
              got, heard, sent, apexCount, apexWorld>>

ApexInit ==
  /\ apex = "closed" /\ opens = 0 /\ step = 0 /\ waking = FALSE /\ onBus = FALSE
  /\ apexReader = "none" /\ cmds = <<>> /\ told = FALSE
  /\ bytes = <<>> /\ acc = <<>> /\ records = <<>> /\ got = <<>> /\ heard = <<>> /\ sent = <<>>
  /\ apexCount = [tx |-> 0, rx |-> 0, stalls |-> 0, pulls |-> 0, faults |-> 0]
  /\ apexWorld \in ApexWorlds /\ device = apexWorld.starts

\* SET_BAUDRATE_EX, RESET, SET_AMR, SET_ACR, SET_CAN_MODE, INITIALIZE
open_sequence == <<"baud", "reset", "mask", "code", "mode", "initialize">>

Queued(cmd) == IF Len(cmds) < ApexCmdCap /\ apexReader # "exited" THEN Append(cmds, cmd) ELSE cmds

-----------------------------------------------------------------------------
(* open *)

\* No device: the open fails.  A device in its boot loader is told to start the
\* application, without a look at what it answers.
ApexFind ==
  /\ apex = "closed" /\ opens < apexWorld.sessions
  /\ opens' = opens + 1 /\ step' = 0 /\ told' = FALSE
  /\ got' = <<>> /\ records' = <<>> /\ cmds' = <<>>
  /\ CASE device = "absent" -> UNCHANGED <<apex, waking>>
       [] device = "boot" -> apex' = "waking" /\ waking' = apexWorld.wakes
       [] device = "run" -> apex' = "commands" /\ UNCHANGED waking
  /\ UNCHANGED <<device, onBus, apexReader, bytes, acc, heard, sent, apexCount, apexWorld>>

\* External: the device comes back in running mode.
DeviceWakes ==
  /\ waking /\ device = "boot"
  /\ device' = "run" /\ waking' = FALSE
  /\ UNCHANGED <<apex, opens, step, onBus, apexReader, cmds, told, bytes, acc, records, got, heard,
                 sent, apexCount, apexWorld>>

ApexAwake ==
  /\ apex = "waking" /\ device = "run"
  /\ apex' = "commands"
  /\ UNCHANGED <<opens, step, device, waking, onBus, apexReader, cmds, told, bytes, acc, records, got,
                 heard, sent, apexCount, apexWorld>>

\* Not in running mode within RECONNECT_WAIT.
ApexSleeps ==
  /\ apex = "waking" /\ device # "run"
  /\ apex' = "closed"
  /\ UNCHANGED <<opens, step, device, waking, onBus, apexReader, cmds, told, bytes, acc, records, got,
                 heard, sent, apexCount, apexWorld>>

\* A command and its reply; RESET takes the device off the bus and empties it, INITIALIZE
\* puts it on the bus and makes it report the end of the reset, a record without a frame.
ApexCommand ==
  /\ apex = "commands" /\ device = "run" /\ step < Len(open_sequence)
  /\ step' = step + 1
  /\ CASE open_sequence[step + 1] = "reset" -> onBus' = FALSE /\ bytes' = <<>> /\ heard' = <<>>
       [] open_sequence[step + 1] = "initialize" -> onBus' = TRUE /\ bytes' = <<<<0, 1>>, <<0, 2>>>> /\ UNCHANGED heard
       [] OTHER -> UNCHANGED <<onBus, bytes, heard>>
  /\ UNCHANGED <<apex, opens, device, waking, apexReader, cmds, told, acc, records, got, sent,
                 apexCount, apexWorld>>

\* A command fails: the device is left as it is.
ApexCommandFails ==
  /\ apex = "commands" /\ step < Len(open_sequence)
  /\ \/ device # "run" /\ UNCHANGED apexCount
     \/ /\ device = "run" /\ apexCount.faults < apexWorld.faults
        /\ apexCount' = [apexCount EXCEPT !.faults = @ + 1]
  /\ apex' = "closed"
  /\ UNCHANGED <<opens, step, device, waking, onBus, apexReader, cmds, told, bytes, acc, records, got,
                 heard, sent, apexWorld>>

ApexStart ==
  /\ apex = "commands" /\ step = Len(open_sequence)
  /\ apex' = "open" /\ apexReader' = "drain" /\ acc' = <<>>
  /\ UNCHANGED <<opens, step, device, waking, onBus, cmds, told, bytes, records, got, heard, sent,
                 apexCount, apexWorld>>

-----------------------------------------------------------------------------
(* The session thread *)

\* What does not fit, or has no thread any more, is TxQueueFull.
ApexSend ==
  /\ apex = "open" /\ apexCount.tx < apexWorld.tx
  /\ apexCount' = [apexCount EXCEPT !.tx = @ + 1]
  /\ cmds' = Queued(apexCount.tx + 1)
  /\ UNCHANGED <<apex, opens, step, device, waking, onBus, apexReader, told, bytes, acc, records, got,
                 heard, sent, apexWorld>>

ApexRecv ==
  /\ apex = "open" /\ records # <<>>
  /\ got' = Append(got, Head(records)) /\ records' = Tail(records)
  /\ UNCHANGED <<apex, opens, step, device, waking, onBus, apexReader, cmds, told, bytes, acc, heard,
                 sent, apexCount, apexWorld>>

Shut == 0

\* drop: the request to end is queued if it fits, and the thread is waited for.
ApexDrop ==
  /\ apex' = "joining"
  /\ cmds' = Queued(Shut) /\ told' = (cmds' # cmds)
  /\ UNCHANGED <<opens, step, device, waking, onBus, apexReader, bytes, acc, records, got, heard, sent,
                 apexCount, apexWorld>>

ApexClose == apex = "open" /\ ApexDrop
ApexLost == apex = "open" /\ records = <<>> /\ apexReader = "exited" /\ ApexDrop

ApexJoin ==
  /\ apex = "joining" /\ apexReader = "exited"
  /\ apex' = "closed" /\ apexReader' = "none"
  /\ UNCHANGED <<opens, step, device, waking, onBus, cmds, told, bytes, acc, records, got, heard, sent,
                 apexCount, apexWorld>>

-----------------------------------------------------------------------------
(* reader_thread *)

\* Mutant: the request to end only leaves the loop that drains the channel.
ApexTakesOn ==
  /\ apexReader = "drain" /\ cmds # <<>>
  /\ cmds' = Tail(cmds)
  /\ apexReader' = "read"
  /\ UNCHANGED <<apex, opens, step, device, waking, onBus, told, bytes, acc, records, got, heard, sent,
                 apexCount, apexWorld>>

\* A queued frame is sent; the request to end takes the device off the bus.
ApexTakes ==
  /\ apexReader = "drain" /\ cmds # <<>>
  /\ cmds' = Tail(cmds)
  /\ \E done \in BOOLEAN :
       /\ IF done THEN device = "run" /\ UNCHANGED apexCount
          ELSE \/ device # "run" /\ UNCHANGED apexCount
               \/ /\ apexCount.faults < apexWorld.faults
                  /\ apexCount' = [apexCount EXCEPT !.faults = @ + 1]
       /\ IF Head(cmds) = Shut
          THEN apexReader' = "exited" /\ onBus' = (onBus /\ ~done) /\ UNCHANGED sent
          ELSE /\ sent' = IF done THEN Append(sent, Head(cmds)) ELSE sent
               /\ UNCHANGED <<apexReader, onBus>>
  /\ UNCHANGED <<apex, opens, step, device, waking, told, bytes, acc, records, got, heard, apexWorld>>

\* The channel is empty; the status endpoint is read, whatever it gives.
ApexDrained ==
  /\ apexReader = "drain" /\ cmds = <<>>
  /\ apexReader' = "read"
  /\ UNCHANGED <<apex, opens, step, device, waking, onBus, cmds, told, bytes, acc, records, got, heard,
                 sent, apexCount, apexWorld>>

\* The whole records of a sequence of halves, without the report of the reset.
Frames(halves) ==
  SelectSeq([r \in 1..Len(halves) \div 2 |-> IF halves[2 * r - 1][1] = halves[2 * r][1]
                                             THEN halves[2 * r][1] ELSE -1],
            LAMBDA n : n # 0)

\* Some of the bytes the device holds, or none within the timeout.
ApexRead ==
  /\ apexReader = "read" /\ device = "run"
  /\ \E k \in 0..Len(bytes) :
       /\ k = 0 => bytes = <<>>
       /\ LET all == acc \o SubSeq(bytes, 1, k)
              whole == 2 * (Len(all) \div 2)
          IN  /\ records' = records \o Frames(all)
              /\ acc' = SubSeq(all, whole + 1, Len(all))
       /\ bytes' = SubSeq(bytes, k + 1, Len(bytes))
  /\ apexReader' = "drain"
  /\ UNCHANGED <<apex, opens, step, device, waking, onBus, cmds, told, got, heard, sent, apexCount,
                 apexWorld>>

\* A stall: the halt is cleared and what was accumulated is dropped, or clearing it fails.
\* External: a stalled device begins again with a whole record.
ApexStall ==
  /\ apexReader = "read" /\ device = "run" /\ apexCount.stalls < apexWorld.stalls
  /\ apexCount' = [apexCount EXCEPT !.stalls = @ + 1]
  /\ bytes' = SelectSeq(bytes, LAMBDA h : acc = <<>> \/ h[1] # acc[1][1])
  /\ acc' = <<>>
  /\ apexReader' \in {"drain", "exited"}
  /\ UNCHANGED <<apex, opens, step, device, waking, onBus, cmds, told, records, got, heard, sent,
                 apexWorld>>

\* Disconnected.
ApexReaderEnds ==
  /\ apexReader = "read" /\ device # "run"
  /\ apexReader' = "exited"
  /\ UNCHANGED <<apex, opens, step, device, waking, onBus, cmds, told, bytes, acc, records, got, heard,
                 sent, apexCount, apexWorld>>

-----------------------------------------------------------------------------
(* External: the bus and the cable *)

BusFrame ==
  /\ onBus /\ apexCount.rx < apexWorld.rx
  /\ LET n == apexCount.rx + 1 IN
     /\ apexCount' = [apexCount EXCEPT !.rx = n]
     /\ bytes' = bytes \o <<<<n, 1>>, <<n, 2>>>>
     /\ heard' = Append(heard, n)
  /\ UNCHANGED <<apex, opens, step, device, waking, onBus, apexReader, cmds, told, acc, records, got,
                 sent, apexWorld>>

Pull ==
  /\ device # "absent" /\ apexCount.pulls < apexWorld.pulls
  /\ apexCount' = [apexCount EXCEPT !.pulls = @ + 1]
  /\ device' = "absent" /\ waking' = FALSE /\ onBus' = FALSE /\ bytes' = <<>>
  /\ UNCHANGED <<apex, opens, step, apexReader, cmds, told, acc, records, got, heard, sent, apexWorld>>

Plug ==
  /\ device = "absent" /\ apexReader \in {"none", "exited"}
  /\ device' = apexWorld.starts
  /\ UNCHANGED <<apex, opens, step, waking, onBus, apexReader, cmds, told, bytes, acc, records, got,
                 heard, sent, apexCount, apexWorld>>

ApexNext ==
  \/ ApexFind \/ DeviceWakes \/ ApexAwake \/ ApexSleeps \/ ApexCommand \/ ApexCommandFails
  \/ ApexStart \/ ApexSend \/ ApexRecv \/ ApexClose \/ ApexLost \/ ApexJoin \/ ApexTakes
  \/ ApexDrained \/ ApexRead \/ ApexStall \/ ApexReaderEnds \/ BusFrame \/ Pull \/ Plug

ApexFairness ==
  /\ WF_apexVars(ApexAwake \/ ApexSleeps) /\ WF_apexVars(ApexCommand \/ ApexCommandFails)
  /\ WF_apexVars(ApexStart) /\ WF_apexVars(ApexRecv) /\ WF_apexVars(ApexLost) /\ WF_apexVars(ApexJoin)
  /\ WF_apexVars(ApexTakes) /\ WF_apexVars(ApexDrained \/ ApexRead \/ ApexReaderEnds)

-----------------------------------------------------------------------------
(* What the adapter promises *)

\* The session gets the frames of its own time on the bus in their order, each once and
\* whole, all but those behind a stall; the device transmits what was sent, in order and
\* once; and a device whose thread was told to end has left the bus, unless a transfer failed
\* or a stall ended the thread before.
ApexFramesAreTrue ==
  LET reported == got \o records IN
  /\ \A i \in DOMAIN reported : reported[i] \in ToSet(heard)
  /\ \A i, j \in DOMAIN reported : i < j => reported[i] < reported[j]
  /\ apexCount.stalls = 0 => IsPrefix(reported, heard)
  /\ \A i, j \in DOMAIN sent : i < j => sent[i] < sent[j]
  /\ apex = "closed" /\ told /\ apexCount.faults + apexCount.stalls = 0 => ~onBus
=============================================================================
