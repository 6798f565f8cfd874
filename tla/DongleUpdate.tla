---------------------------- MODULE DongleUpdate ----------------------------
(***************************************************************************)
(* Updating the dongle's firmware: the tool that sends a signed image      *)
(* (main.rs, dfu/mod.rs and the GUI's update button), the running          *)
(* application, which is asked to restart into the bootloader and must     *)
(* confirm a new image (dfu_app.rs, usb_task.rs), and the bootloader       *)
(* (bootloader-h743/src/main.rs), with power cuts and killed tools at any  *)
(* moment.                                                                 *)
(*                                                                         *)
(* Swapping, reverting and the DFU class are libraries (embassy-boot,      *)
(* embassy-usb-dfu); they are modelled from how the code uses them.        *)
(***************************************************************************)
EXTENDS Integers, Sequences

CONSTANTS
  Blocks,       \* DFU blocks of an image
  Worlds

\* The board, the image to install and whether its USB works, whether it is
\* signed with the right key, whether the tool looks at the signature (another
\* DFU tool does not), and bounds: power cuts, killed tools, failed transfers.
World == [board : {"h743", "h753"}, works : BOOLEAN, signed : BOOLEAN, checks : BOOLEAN,
          cuts : Nat, kills : Nat, errors : Nat]

ASSUME UpdateConstantsOK == Blocks \in Nat \ {0} /\ Worlds \subseteq World

VARIABLES
  active, dfu,   \* the two partitions: "old", "new" or "part"; dfu, while the two
                 \* are swapped, what goes into the active one
  magic,         \* STATE partition: "boot", "swap", "detach" or "revert"
  progress,      \* STATE partition: 0..3, two steps to swap and two to revert
  mode,          \* "boot" (the bootloader decides), "dfu" or "app"
  configured,    \* app: the host has configured its USB device
  booted, enter, \* app: signals MARK_BOOTED and ENTER_DFU
  ioSignalled,   \* app: booted_signalled
  task,          \* app: dfu_app_task
  class, got,    \* dfu: state of the DFU class, blocks received
  tool,          \* what the tool does
  sent,          \* blocks the tool has sent
  cuts, kills, errors, \* mishaps so far
  world

flash == <<active, dfu, magic, progress>>
app == <<configured, booted, enter, ioSignalled, task>>
device == <<flash, mode, app, class, got>>
mishaps == <<cuts, kills, errors>>
vars == <<device, tool, sent, mishaps, world>>

Init ==
  /\ active = "old" /\ dfu = "part" /\ magic = "boot" /\ progress = 0
  /\ mode = "boot" /\ configured = FALSE /\ booted = FALSE /\ enter = FALSE /\ ioSignalled = FALSE
  /\ task = "start" /\ class = "idle" /\ got = 0
  /\ tool = "idle" /\ sent = 0
  /\ cuts = 0 /\ kills = 0 /\ errors = 0
  /\ world \in Worlds

Works(image) == image = "old" \/ (image = "new" /\ world.works)

ToolUnchanged == UNCHANGED <<tool, sent, mishaps, world>>

\* A reset: everything but the flash starts anew.
Reset ==
  /\ mode' = "boot" /\ configured' = FALSE /\ booted' = FALSE /\ enter' = FALSE /\ ioSignalled' = FALSE
  /\ task' = "start" /\ class' = "idle" /\ got' = 0

-----------------------------------------------------------------------------
(* Bootloader                                                              *)

\* BootLoader::prepare goes on with a swap, or with a revert of an image that
\* was swapped in and has not been confirmed.
Prepare ==
  /\ mode = "boot" /\ magic = "swap" /\ task = "start"
  /\ CASE progress \in {0, 2} -> progress' = progress + 1 /\ active' = "part" /\ UNCHANGED <<dfu, magic, task>>
       [] progress = 1 -> /\ progress' = 2 /\ active' = dfu /\ dfu' = "old" /\ task' = "jump"
                          /\ UNCHANGED magic
       [] progress = 3 -> progress' = 0 /\ active' = dfu /\ dfu' = "new" /\ magic' = "revert" /\ UNCHANGED task
  /\ UNCHANGED <<mode, configured, booted, enter, ioSignalled, class, got>> /\ ToolUnchanged

\* mutant: the bootloader stays for any image that is not confirmed
BootStays ==
  /\ mode = "boot" /\ (magic # "swap" \/ task = "jump")
  /\ mode' = IF magic \in {"detach", "revert"} THEN "dfu" ELSE "app"
  /\ task' = "start"
  /\ UNCHANGED <<flash, configured, booted, enter, ioSignalled, class, got>> /\ ToolUnchanged

\* Then it stays for a download if the application asked for one, or jumps.
Boot ==
  /\ mode = "boot" /\ (magic # "swap" \/ task = "jump")
  /\ mode' = IF magic = "detach" THEN "dfu" ELSE "app"
  /\ task' = "start"
  /\ UNCHANGED <<flash, configured, booted, enter, ioSignalled, class, got>> /\ ToolUnchanged

-----------------------------------------------------------------------------
(* Application                                                             *)

\* The host configures the device, if the image's USB works.
Configured ==
  /\ mode = "app" /\ ~configured /\ Works(active)
  /\ configured' = TRUE
  /\ UNCHANGED <<flash, mode, booted, enter, ioSignalled, task, class, got>> /\ ToolUnchanged

\* mutant: every image confirms itself
ConfirmsAlways ==
  /\ mode = "app" /\ ~ioSignalled
  /\ booted' = TRUE /\ ioSignalled' = TRUE
  /\ UNCHANGED <<flash, mode, configured, enter, task, class, got>> /\ ToolUnchanged

\* kcan_io_task: the first configuration confirms the image.
IoConfigured ==
  /\ mode = "app" /\ configured /\ ~ioSignalled
  /\ booted' = TRUE /\ ioSignalled' = TRUE
  /\ UNCHANGED <<flash, mode, configured, enter, task, class, got>> /\ ToolUnchanged

Waiting == mode = "app" /\ task = "start"

\* mutant: a request to enter DFU does not wait for the confirmation
TakeEnterEarly ==
  /\ Waiting /\ enter
  /\ enter' = FALSE /\ task' = "markDfu"
  /\ UNCHANGED <<flash, mode, configured, booted, ioSignalled, class, got>> /\ ToolUnchanged

\* dfu_app_task takes a signal: on the H743 first the confirmation, then the
\* request; on the H753 either, the confirmation first when both are there.
TakeBooted ==
  /\ Waiting /\ booted
  /\ booted' = FALSE /\ task' = "markBooted"
  /\ UNCHANGED <<flash, mode, configured, enter, ioSignalled, class, got>> /\ ToolUnchanged

TakeEnter ==
  /\ \/ mode = "app" /\ task = "confirmed"
     \/ Waiting /\ world.board = "h753" /\ ~booted
  /\ enter
  /\ enter' = FALSE /\ task' = "markDfu"
  /\ UNCHANGED <<flash, mode, configured, booted, ioSignalled, class, got>> /\ ToolUnchanged

\* The magic is erased and written: an erased one reads as "boot".
MarkBooted ==
  /\ mode = "app" /\ task = "markBooted"
  /\ magic' = "boot" /\ progress' = 0 /\ task' = "confirmed"
  /\ UNCHANGED <<active, dfu, mode, configured, booted, enter, ioSignalled, class, got>> /\ ToolUnchanged

\* mark_dfu refuses while a swap is not confirmed; the reset comes in any case.
MarkDfu ==
  /\ mode = "app" /\ task = "markDfu"
  /\ \/ /\ magic # "swap" /\ magic' = "boot" /\ progress' = 0 /\ task' = "erased"
     \/ magic = "swap" /\ task' = "reset" /\ UNCHANGED <<magic, progress>>
  /\ UNCHANGED <<active, dfu, mode, configured, booted, enter, ioSignalled, class, got>> /\ ToolUnchanged

MarkDfuWritten ==
  /\ mode = "app" /\ task = "erased"
  /\ magic' = "detach" /\ task' = "reset"
  /\ UNCHANGED <<active, dfu, progress, mode, configured, booted, enter, ioSignalled, class, got>>
  /\ ToolUnchanged

SysReset ==
  /\ mode = "app" /\ task = "reset"
  /\ Reset
  /\ UNCHANGED flash /\ ToolUnchanged

-----------------------------------------------------------------------------
(* The tool: run_dfu_update, flash_firmware                                *)

DeviceUnchanged == UNCHANGED <<device, mishaps, world>>
To(step) == tool' = step /\ UNCHANGED sent

\* The command line: the running application is asked for its version; with none
\* running the bootloader may already be there.
Query ==
  /\ tool = "idle"
  /\ To(IF mode = "app" /\ configured THEN "detach" ELSE "wait")
  /\ DeviceUnchanged

\* The GUI's button does not ask.
Button ==
  /\ tool = "idle" /\ mode = "app" /\ configured
  /\ To("detachGui")
  /\ DeviceUnchanged

\* DFU_DETACH to the DFU runtime interface; a failure is not fatal.
Detach ==
  /\ tool \in {"detach", "detachGui"}
  /\ enter' = (enter \/ (mode = "app" /\ configured))
  /\ To(IF tool = "detach" THEN "wait" ELSE "open")
  /\ UNCHANGED <<flash, mode, configured, booted, ioSignalled, task, class, got, mishaps, world>>

\* 15 s for the bootloader to show; whoever does not see it gives up.
Wait ==
  /\ tool = "wait"
  /\ To(IF mode = "dfu" THEN "open" ELSE "failed")
  /\ DeviceUnchanged

\* flash_firmware: the signature of the file, then any device of the vendor and
\* product: an application that still runs refuses the DFU requests.
Open ==
  /\ tool = "open"
  /\ To(IF (world.signed \/ ~world.checks) /\ mode = "dfu" THEN "status" ELSE "failed")
  /\ DeviceUnchanged

\* The device answers GETSTATUS; one with a verified image resets with it.
Manifests == class = "manifestSync" /\ Reset /\ UNCHANGED flash

\* mutant: what an earlier tool left is aborted without a look at its state
StatusAborts ==
  /\ tool = "status"
  /\ class' = "idle" /\ tool' = "send" /\ sent' = 0
  /\ UNCHANGED <<flash, mode, app, got, mishaps, world>>

\* What an earlier tool left is aborted and cleared until the device is idle; one
\* that has only its reset left is gone.
Status ==
  /\ tool = "status"
  /\ \/ Manifests /\ To("failed")
     \/ /\ class # "manifestSync" /\ class' = "idle" /\ tool' = "send" /\ sent' = 0
        /\ UNCHANGED <<flash, mode, app, got>>
  /\ UNCHANGED <<mishaps, world>>

\* The device takes a block; block 0 starts at the beginning.
TakeBlock ==
  /\ class' = "sync" /\ dfu' = "part" /\ got' = IF sent = 0 THEN 1 ELSE got + 1
  /\ UNCHANGED <<active, magic, progress, mode, app>>

\* DFU_DNLOAD of the next block
SendBlock ==
  /\ tool = "send" /\ sent < Blocks
  /\ TakeBlock
  /\ sent' = sent + 1 /\ tool' = "poll"
  /\ UNCHANGED <<mishaps, world>>

\* GETSTATUS until the device is ready for the next block
Poll ==
  /\ tool = "poll"
  /\ \/ class' = "dnIdle" /\ To("send")
     \/ class = "sync" /\ class' = "busy" /\ To("poll")
  /\ UNCHANGED <<flash, mode, app, got, mishaps, world>>

\* The empty block: the device verifies what it has received and marks it for
\* the swap.
TakeEnd ==
  /\ IF got = Blocks /\ world.signed
       THEN dfu' = "new" /\ magic' = "swap" /\ progress' = 0 /\ class' = "manifestSync"
       ELSE class' = "error" /\ UNCHANGED <<dfu, magic, progress>>
  /\ UNCHANGED <<active, mode, app, got>>

\* mutant: what was received is not verified
FinishUnverified ==
  /\ tool = "send" /\ sent = Blocks
  /\ dfu' = "new" /\ magic' = "swap" /\ progress' = 0 /\ class' = "manifestSync"
  /\ To("manifest")
  /\ UNCHANGED <<active, mode, app, got, mishaps, world>>

Finish ==
  /\ tool = "send" /\ sent = Blocks
  /\ TakeEnd
  /\ To("manifest")
  /\ UNCHANGED <<mishaps, world>>

\* mutant: done with the last block, whatever the device makes of it
ManifestSkipped ==
  /\ tool = "manifest"
  /\ To("ok")
  /\ Manifests \/ (class = "error" /\ UNCHANGED device)
  /\ UNCHANGED <<mishaps, world>>

\* GETSTATUS again
Manifest ==
  /\ tool = "manifest"
  /\ \/ Manifests /\ To("ok")
     \/ class = "error" /\ To("failed") /\ UNCHANGED device
  /\ UNCHANGED <<mishaps, world>>

\* The user tries again after a failure, and when the device shows the old version.
Again ==
  /\ tool = "failed" \/ (tool = "ok" /\ mode = "app" /\ configured /\ active = "old")
  /\ To("idle") /\ DeviceUnchanged

-----------------------------------------------------------------------------
(* Mishaps                                                                 *)

\* The tool has the bootloader open.
Connected == tool \in {"status", "send", "poll", "manifest"}

\* The power is cut: whoever had the device open finds it gone.
PowerCut ==
  /\ cuts < world.cuts /\ cuts' = cuts + 1
  /\ Reset
  /\ To(IF Connected THEN "failed" ELSE tool)
  /\ UNCHANGED <<flash, kills, errors, world>>

\* A control transfer fails: the request is lost, or its answer, or it ends in an error.
TransferFails ==
  /\ errors < world.errors /\ errors' = errors + 1
  /\ Connected /\ To("failed")
  /\ \/ UNCHANGED device
     \/ tool \in {"status", "manifest"} /\ Manifests
     \/ tool = "send" /\ IF sent < Blocks THEN TakeBlock ELSE TakeEnd
     \/ tool \in {"send", "poll"} /\ class' = "error" /\ UNCHANGED <<flash, mode, app, got>>
  /\ UNCHANGED <<cuts, kills, world>>

Kill ==
  /\ kills < world.kills /\ kills' = kills + 1
  /\ tool \notin {"idle", "ok"} /\ To("idle")
  /\ UNCHANGED <<device, cuts, errors, world>>

\* A device whose USB does not come up is taken off and put on again.
UserResets ==
  /\ mode = "app" /\ ~Works(active)
  /\ Reset
  /\ UNCHANGED flash /\ ToolUnchanged

-----------------------------------------------------------------------------

DeviceSteps ==
  \/ Prepare \/ Boot \/ Configured \/ IoConfigured \/ TakeBooted \/ TakeEnter
  \/ MarkBooted \/ MarkDfu \/ MarkDfuWritten \/ SysReset \/ UserResets
ToolSteps ==
  Detach \/ Wait \/ Open \/ Status \/ SendBlock \/ Poll \/ Finish \/ Manifest \/ Again

Next == DeviceSteps \/ Query \/ Button \/ ToolSteps \/ PowerCut \/ TransferFails \/ Kill

Spec == Init /\ [][Next]_vars

\* The device runs, the tool goes on, the user of the command line tries again.
FairSpec == Spec /\ WF_vars(DeviceSteps) /\ WF_vars(ToolSteps) /\ SF_vars(Query)
                 /\ SF_vars(Poll /\ class' = "dnIdle")

-----------------------------------------------------------------------------
(* Properties                                                              *)

\* The bootloader only ever jumps to a whole image that was in service before or
\* whose signature it has verified, whenever the power is cut, tools are killed
\* or transfers fail (bootloader-h743/src/main.rs:139-160).
OnlyWholeImagesRun == mode = "app" => active = "old" \/ (active = "new" /\ world.signed)

\* A request to enter DFU never throws away the image that takes it: on the H743
\* the application resets only after it has confirmed itself (dfu_app.rs:75-110).
DetachIsNoRevert ==
  [][world.board = "h743" /\ task = "reset" /\ mode = "app" /\ mode' = "boot" => magic = "detach"]_vars

\* What the tool reports as installed runs, at least for a trial, unless a power cut
\* between the swap and the trial makes the bootloader revert it (dfu/mod.rs:321-355).
OkIsInstalled == tool = "ok" ~> (mode = "app" /\ active = "new") \/ magic = "revert"

\* A good image gets installed and confirmed by a user who keeps trying.
InstallsEventually ==
  <>(world.works /\ world.signed => active = "new" /\ magic = "boot" /\ mode = "app" /\ configured)

\* Whatever happens, the dongle comes back as an application whose USB works,
\* the old image if the new one never comes up, or waits for a download
\* (.readme/firmware-update.md "Rollback Safety").
ComesBack == []<>((mode = "app" /\ configured) \/ mode = "dfu")

\* An update ends well for those who keep trying, and a failed one harmlessly.
UpdatesEnd == InstallsEventually /\ ComesBack
=============================================================================
