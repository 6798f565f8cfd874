------------------------- MODULE MCFirmwareDownload -------------------------
(* Instances of FirmwareDownload for TLC. *)
EXTENDS FirmwareDownload

Calm ==
  [action |-> "UpdateFirmware", checks |-> {"vendor"}, noWait |-> TRUE, timely |-> TRUE,
   busyRejects |-> TRUE, polls |-> 1, mishaps |-> {}]

\* Timers expire at any time, and things go wrong around the tool and the node.
Rough ==
  [Calm EXCEPT !.timely = FALSE,
               !.mishaps = {"loseResponse", "disconnect", "flashFault", "fileError"}]

\* Requests get lost; the node starts anew in the middle.
Violent ==
  [Calm EXCEPT !.timely = FALSE,
               !.mishaps = {"loseRequest", "loseSegments", "coldAbort", "powerCycle"}]

\* What the tool is built to overcome.
Patchy == [Calm EXCEPT !.polls = 2, !.mishaps = {"loseResponse", "coldAbort"}]

\* The tool is run again, streaming to a busy node, or waiting for every ack.
Restarted == [Calm EXCEPT !.polls = 2, !.mishaps = {"kill"}]
Interrupted == [Restarted EXCEPT !.noWait = FALSE, !.busyRejects = FALSE]

\* The two passes of a bootloader update.
Updater == [Calm EXCEPT !.action = "LoadBlupdateApp", !.checks = {"vendor", "product"}]
Bootloader == [Calm EXCEPT !.action = "UpdateBootloader", !.checks = {"product"}]

MCWorlds == {Rough, Violent, Patchy, Restarted, Interrupted, Updater, Bootloader}

Forgetful == {[Calm EXCEPT !.timely = FALSE, !.mishaps = {"loseRequest"}]}
=============================================================================
