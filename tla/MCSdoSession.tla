---------------------------- MODULE MCSdoSession ----------------------------
(***************************************************************************)
(* Instances of SdoSession for TLC.  "exp" is an object that fits an       *)
(* expedited transfer, "seg" takes two segments, "big" takes three and is  *)
(* above the threshold for block writes, "odd" is "big" with a last        *)
(* segment that is not full, "gone" is one the nodes refuse.               *)
(***************************************************************************)
EXTENDS SdoSession

MCObjects == {"exp", "seg", "big", "odd", "gone"}
MCSegs == [o \in MCObjects |-> CASE o = "exp" -> 0 [] o = "seg" -> 2 [] OTHER -> 3]
MCPartial == {"odd"}
MCMissing == {"gone"}

Cmd(n, o, d, m) == [node |-> n, obj |-> o, dir |-> d, mode |-> m]

\* The GUI, and a user who looks before the next click.  Node 1 is a strict
\* block server, node 2 has no block transfers.
Patient(commands) ==
  [kind |-> <<"strict", "segmented">>, commands |-> commands,
   batch |-> 1, hurried |-> FALSE, guarded |-> TRUE, traffic |-> TRUE, timely |-> TRUE,
   maxLoss |-> 0, maxFaults |-> 0, maxUnplug |-> 0, maxDrop |-> 0]

\* Automatic mode: block reads of a node that supports them, one of which fails
\* for its padding, a write in one frame, and a fallback from a block transfer.
Healthy ==
  [Patient({Cmd(1, "big", "read", "Auto"), Cmd(1, "odd", "read", "Auto"),
            Cmd(1, "exp", "write", "Auto"), Cmd(2, "big", "write", "Auto")}) EXCEPT !.maxDrop = 1]

\* The same for both directions of the second node, and a block write that a
\* server that keeps to the standard does not complete.
Fallbacks ==
  [Patient({Cmd(2, "big", "read", "Auto"), Cmd(2, "big", "write", "Auto"),
            Cmd(1, "big", "write", "Auto")}) EXCEPT !.maxDrop = 1]

\* Two reads and two writes of each kind of transfer, while the bus loses
\* frames and the adapter refuses one.
Lossy(kind, mode, lost) ==
  [Patient({Cmd(1, o, d, mode) : o \in {"big", "seg"}, d \in {"read", "write"}})
     EXCEPT !.kind[1] = kind, !.maxLoss = lost, !.maxFaults = 1]

\* Objects the nodes refuse, and a send the adapter refuses.
Refused ==
  [Patient({Cmd(1, "gone", "read", "Auto"), Cmd(1, "gone", "write", "Auto"),
            Cmd(2, "gone", "read", "ForcedSegmented")}) EXCEPT !.maxFaults = 1, !.maxDrop = 1]

\* Two segmented reads of two nodes, or a read and a write of one, given in a
\* hurry, with answers that may come after the timeout.
Browser(commands) == [Patient(commands) EXCEPT !.hurried = TRUE, !.timely = FALSE]

\* Two reads from the TUI, over an adapter that comes and goes twice.
Reconnecting(o, m) ==
  [Patient({Cmd(1, "big", "read", "ForcedBlock"), Cmd(1, o, "read", m)})
     EXCEPT !.hurried = TRUE, !.guarded = FALSE, !.timely = FALSE, !.maxUnplug = 2]

\* Reads and a write from the TUI that replace one another's records while answers
\* come late and the adapter refuses a frame, but no frame is lost.
Crossing(kind, commands) ==
  [Patient(commands) EXCEPT !.kind[1] = kind, !.hurried = TRUE, !.guarded = FALSE,
                            !.timely = FALSE, !.maxFaults = 1, !.maxDrop = 1]

\* Reads that do not overlap, but whose answers may come late while a frame is lost.
Late ==
  [Patient({Cmd(1, "seg", "read", "ForcedSegmented"), Cmd(1, "big", "read", "ForcedSegmented")})
     EXCEPT !.timely = FALSE, !.maxLoss = 1]

MCWorlds ==
  {Healthy, Fallbacks, Refused, Late,
   Crossing("lenient", {Cmd(1, "seg", "read", "ForcedSegmented"), Cmd(1, "big", "write", "ForcedBlock")}),
   Crossing("segmented", {Cmd(1, "big", "read", "ForcedBlock"), Cmd(1, "seg", "read", "ForcedSegmented")}), Lossy("lenient", "ForcedBlock", 2), Lossy("strict", "ForcedSegmented", 1),
   Browser({Cmd(1, "seg", "read", "ForcedSegmented"), Cmd(2, "exp", "read", "ForcedSegmented")}),
   Browser({Cmd(1, "seg", "read", "ForcedSegmented"), Cmd(1, "exp", "write", "Auto")}),
   Reconnecting("seg", "ForcedBlock"), Reconnecting("big", "ForcedSegmented")}

\* Surroundings in which a disagreement between the code and what is said of it
\* shows (README, section 6); no .cfg of the project uses them.
SilentBus ==
  {[Patient({Cmd(1, "big", "read", "ForcedSegmented")}) EXCEPT !.traffic = FALSE, !.maxLoss = 1]}
ReadAll ==
  {[Patient({Cmd(1, "exp", "read", "ForcedSegmented"), Cmd(1, "seg", "read", "ForcedSegmented")})
      EXCEPT !.batch = 2]}
BlockWrite == {Patient({Cmd(1, "big", "write", "ForcedBlock")})}
PaddedRead == {Patient({Cmd(1, "odd", "read", "ForcedBlock")})}
StaleRead == {Late}
StaleAck ==
  {[Patient({Cmd(1, "exp", "write", "Auto"), Cmd(1, "seg", "write", "Auto")})
      EXCEPT !.timely = FALSE]}
=============================================================================
