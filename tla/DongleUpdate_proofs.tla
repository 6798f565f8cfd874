------------------------ MODULE DongleUpdate_proofs ------------------------
(***************************************************************************)
(* Safety of the firmware update for every image size and every number of  *)
(* power cuts, killed tools and failed transfers.                          *)
(***************************************************************************)
EXTENDS DongleUpdate, TLAPS

\* The application's flags.
Flags == configured \in BOOLEAN /\ booted \in BOOLEAN /\ enter \in BOOLEAN /\ ioSignalled \in BOOLEAN

TypeOK ==
  /\ active \in {"old", "new", "part"} /\ dfu \in {"old", "new", "part"}
  /\ magic \in {"boot", "swap", "detach", "revert"} /\ progress \in 0..3
  /\ mode \in {"boot", "dfu", "app"}
  /\ Flags
  /\ task \in {"start", "jump", "markBooted", "confirmed", "markDfu", "erased", "reset"}
  /\ class \in {"idle", "sync", "busy", "dnIdle", "error", "manifestSync"}
  /\ got \in Nat /\ sent \in 0..Blocks
  /\ tool \in {"idle", "detach", "detachGui", "wait", "open", "status", "send", "poll",
               "manifest", "ok", "failed"}
  /\ cuts \in Nat /\ kills \in Nat /\ errors \in Nat
  /\ world \in Worlds

\* The bootloader's task is over before it leaves for the application or for DFU.
TaskFits ==
  /\ mode = "boot" => task \in {"start", "jump"}
  /\ mode = "dfu" => task = "start"
  /\ mode = "app" => task # "jump"

\* A tool that has the device open has a bootloader that waits for a download, and one
\* that sends blocks does not send them to a bootloader that has verified an image.
ToolFits ==
  /\ Connected => mode = "dfu"
  /\ tool \in {"send", "poll"} => class # "manifestSync"

\* Images in the flash that bear the new one's name have been verified.
Verified == active = "new" \/ dfu = "new" \/ magic = "swap" => world.signed

\* The image to swap in, and the one to swap back, is whole for as long as it may be
\* needed; only a swap that goes on at the next start leaves a mixed partition.
SwapIsSafe ==
  /\ active = "part" <=> magic = "swap" /\ progress \in {1, 3}
  /\ magic = "swap" =>
       /\ dfu = IF progress \in {0, 1} THEN "new" ELSE "old"
       /\ mode = "dfu" => progress = 0 /\ class = "manifestSync"
       /\ mode = "app" => progress = 2
  /\ mode = "boot" /\ task = "jump" => magic = "swap" /\ progress = 2

\* On the H743 the application confirms itself before it looks for a request to enter DFU.
ConfirmedFirst ==
  world.board = "h743" /\ mode = "app" =>
    /\ task \in {"confirmed", "markDfu"} => magic # "swap"
    /\ task = "reset" => magic = "detach"

UpdateInv == TypeOK /\ TaskFits /\ ToolFits /\ Verified /\ SwapIsSafe /\ ConfirmedFirst
-----------------------------------------------------------------------------

\* The device starts with the old image in service and nothing staged.
LEMMA InitHolds == Init => UpdateInv
  <1> SUFFICES ASSUME Init PROVE UpdateInv
    OBVIOUS
  <1>1. Flags
    BY Zenon DEF Init, Flags
  <1>3. TypeOK
    BY <1>1, UpdateConstantsOK DEF Init, TypeOK
  <1>2. TaskFits /\ ToolFits /\ Verified /\ SwapIsSafe /\ ConfirmedFirst
    BY DEF Init, TaskFits, ToolFits, Connected, Verified, SwapIsSafe, ConfirmedFirst
  <1>. QED
    BY <1>2, <1>3 DEF UpdateInv

\* The application's flags stay flags.
LEMMA FlagsKept == Flags /\ [Next]_vars => Flags'
  <1> SUFFICES ASSUME Flags, [Next]_vars PROVE Flags'
    OBVIOUS
  <1> USE DEF Flags
  <1>1. CASE Prepare \/ Boot \/ MarkBooted \/ MarkDfu \/ MarkDfuWritten
    BY <1>1, Zenon DEF Prepare, Boot, MarkBooted, MarkDfu, MarkDfuWritten, flash, app, ToolUnchanged, mishaps
  <1>2. CASE Configured \/ IoConfigured
    BY <1>2, Zenon DEF Configured, IoConfigured, flash, ToolUnchanged, mishaps
  <1>3. CASE TakeBooted \/ TakeEnter
    BY <1>3, Zenon DEF TakeBooted, TakeEnter, Waiting, flash, ToolUnchanged, mishaps
  <1>4. CASE SysReset \/ UserResets \/ PowerCut
    BY <1>4, Zenon DEF SysReset, UserResets, PowerCut, Reset, flash, ToolUnchanged, mishaps, To
  <1>5. CASE Query \/ Button \/ Wait \/ Open \/ Again \/ Kill
    BY <1>5, Zenon DEF Query, Button, Wait, Open, Again, Kill, DeviceUnchanged, device, flash, app, mishaps, To
  <1>6. CASE Detach
    BY <1>6, Zenon DEF Detach, To, flash, mishaps
  <1>7. CASE Status
    BY <1>7, Zenon DEF Status, Manifests, Reset, To, flash, app, mishaps
  <1>8. CASE Manifest
    BY <1>8, Zenon DEF Manifest, Manifests, Reset, To, device, flash, app, mishaps
  <1>9. CASE TransferFails
    BY <1>9, Zenon DEF TransferFails, Manifests, Reset, TakeBlock, TakeEnd, To, device, flash, app
  <1>10. CASE SendBlock \/ Poll \/ Finish
    BY <1>10, Zenon DEF SendBlock, Poll, Finish, TakeBlock, app, mishaps, To, flash, TakeEnd
  <1>11. CASE UNCHANGED vars
    BY <1>11, Zenon DEF vars, device, app
  <1>. QED
    BY <1>1, <1>2, <1>3, <1>4, <1>5, <1>6, <1>7, <1>8, <1>9, <1>10, <1>11 DEF Next, DeviceSteps, ToolSteps

\* Every step of the device, of the tool and of fate keeps the flash safe.
LEMMA StepKeeps == UpdateInv /\ [Next]_vars => UpdateInv'
  <1> SUFFICES ASSUME UpdateInv, [Next]_vars PROVE UpdateInv'
    OBVIOUS
  <1> Flags'
    BY FlagsKept DEF UpdateInv, TypeOK
  <1> USE UpdateConstantsOK
      DEF UpdateInv, TypeOK, TaskFits, ToolFits, Connected, Verified, SwapIsSafe, ConfirmedFirst
  <1>1. CASE Prepare
    <2>1. CASE progress = 0
      BY <1>1, <2>1 DEF Prepare, ToolUnchanged, mishaps
    <2>2. CASE progress = 1
      BY <1>1, <2>2 DEF Prepare, ToolUnchanged, mishaps
    <2>3. CASE progress = 3
      BY <1>1, <2>3 DEF Prepare, ToolUnchanged, mishaps
    <2>4. CASE progress = 2
      BY <1>1, <2>4 DEF Prepare, ToolUnchanged, mishaps
    <2>. QED
      BY <2>1, <2>2, <2>3, <2>4
  <1>2. CASE Boot
    BY <1>2 DEF Boot, flash, ToolUnchanged, mishaps
  <1>3. CASE Configured
    BY <1>3 DEF Configured, flash, ToolUnchanged, mishaps
  <1>4. CASE IoConfigured
    BY <1>4 DEF IoConfigured, flash, ToolUnchanged, mishaps
  <1>5. CASE TakeBooted
    BY <1>5 DEF TakeBooted, Waiting, flash, ToolUnchanged, mishaps
  <1>6. CASE TakeEnter
    BY <1>6 DEF TakeEnter, Waiting, flash, ToolUnchanged, mishaps
  <1>7. CASE MarkBooted
    BY <1>7 DEF MarkBooted, ToolUnchanged, mishaps
  <1>8. CASE MarkDfu
    BY <1>8 DEF MarkDfu, ToolUnchanged, mishaps
  <1>9. CASE MarkDfuWritten
    BY <1>9 DEF MarkDfuWritten, ToolUnchanged, mishaps
  <1>10. CASE SysReset
    BY <1>10 DEF SysReset, Reset, flash, ToolUnchanged, mishaps
  <1>11. CASE UserResets
    BY <1>11 DEF UserResets, Reset, flash, ToolUnchanged, mishaps
  <1>12. CASE Query
    BY <1>12 DEF Query, DeviceUnchanged, device, flash, app, mishaps, To
  <1>13. CASE Button
    BY <1>13 DEF Button, DeviceUnchanged, device, flash, app, mishaps, To
  <1>14. CASE Detach
    BY <1>14 DEF Detach, To, flash, mishaps
  <1>15. CASE Wait
    BY <1>15 DEF Wait, DeviceUnchanged, device, flash, app, mishaps, To
  <1>16. CASE Open
    BY <1>16 DEF Open, DeviceUnchanged, device, flash, app, mishaps, To
  <1>17. CASE Status
    BY <1>17 DEF Status, Manifests, Reset, To, flash, app, mishaps
  <1>18. CASE SendBlock
    BY <1>18 DEF SendBlock, TakeBlock, app, mishaps
  <1>19. CASE Poll
    BY <1>19 DEF Poll, To, flash, app, mishaps
  <1>20. CASE Finish
    BY <1>20 DEF Finish, TakeEnd, To, app, mishaps
  <1>21. CASE Manifest
    BY <1>21 DEF Manifest, Manifests, Reset, To, device, flash, app, mishaps
  <1>22. CASE Again
    BY <1>22 DEF Again, DeviceUnchanged, device, flash, app, mishaps, To
  <1>23. CASE PowerCut
    BY <1>23 DEF PowerCut, Reset, To, flash
  <1>24. CASE TransferFails
    BY <1>24 DEF TransferFails, Manifests, Reset, TakeBlock, TakeEnd, To, device, flash, app
  <1>25. CASE Kill
    BY <1>25 DEF Kill, To, device, flash, app
  <1>26. CASE UNCHANGED vars
    BY <1>26 DEF vars, device, flash, app, mishaps
  <1>. QED
    BY <1>1, <1>2, <1>3, <1>4, <1>5, <1>6, <1>7, <1>8, <1>9, <1>10, <1>11, <1>12, <1>13, <1>14, <1>15, <1>16, <1>17, <1>18, <1>19, <1>20, <1>21, <1>22, <1>23, <1>24, <1>25, <1>26 DEF Next, DeviceSteps, ToolSteps

-----------------------------------------------------------------------------

\* The bootloader, the application and the tool keep to the invariant, mishaps or not.
THEOREM UpdateInvHolds == Spec => []UpdateInv
  BY InitHolds, StepKeeps, PTL DEF Spec

\* Whatever is cut, killed or lost, and however many blocks an image has, the application
\* that runs is a whole image: the one in service before or one that has been verified.
THEOREM OnlyWholeImages == Spec => []OnlyWholeImagesRun
  <1>1. UpdateInv => OnlyWholeImagesRun
    BY DEF UpdateInv, TypeOK, Verified, SwapIsSafe, OnlyWholeImagesRun
  <1>. QED
    BY UpdateInvHolds, <1>1, PTL

\* The H743's application resets into the bootloader to download only once it is confirmed
\* and the request is written: no request to enter DFU makes the bootloader revert it.
THEOREM DetachKeepsImage == Spec => DetachIsNoRevert
  <1>1. UpdateInv /\ [Next]_vars =>
          [world.board = "h743" /\ task = "reset" /\ mode = "app" /\ mode' = "boot" => magic = "detach"]_vars
    BY DEF UpdateInv, ConfirmedFirst
  <1>. QED
    BY UpdateInvHolds, <1>1, PTL DEF Spec, DetachIsNoRevert
=============================================================================
