------------------------------- MODULE AppUpdate -------------------------------
(***************************************************************************)
(* Updating the program in place (updater.rs): the download thread, the    *)
(* thread that copies the new bundle over the running one, the banner of   *)
(* the monitor (gui/mod.rs) and the prompt before the TUI (tui/mod.rs).    *)
(* A file is the set of its chunks; the operating system's tools succeed   *)
(* or fail as they like.                                                   *)
(***************************************************************************)
EXTENDS Integers, Sequences

CONSTANTS
  Chunks,        \* of the release's image
  UpdateWorlds

\* The front end, whether the release has an asset for this platform, whether the user may
\* leave while the update is applied, whether a download left behind may be answered after the
\* next has begun, and bounds: downloads, times the monitor is left, faults.
UpdateWorld ==
  [front : {"gui", "tui"}, asset : BOOLEAN, leavesBusy : BOOLEAN, late : BOOLEAN, presses : Nat, leaves : Nat,
   faults : Nat]

ASSUME UpdateConstantsOK == Chunks \in Nat \ {0} /\ UpdateWorlds \subseteq UpdateWorld

VARIABLES
  view,         \* the screen, the banner's or prompt's state and the thread it waits for
  known,        \* whether the check has found the release
  loads,        \* download threads in the order they were started
  applies,      \* threads that replace the program
  temp,         \* chunks in the file of the temporary directory
  mounted,
  bundle,       \* what is installed: "old", "new" or "mixed"
  program,      \* what runs: "old", "new", "mixed" or "none"
  updateCount,  \* how far the environment is
  updateWorld

updateVars == <<view, known, loads, applies, temp, mounted, bundle, program, updateCount, updateWorld>>
installed == <<mounted, bundle, program>>
ofWorld == <<updateCount, updateWorld>>

Whole == 1..Chunks
Screen(name) == [screen |-> name, state |-> "idle", of |-> 0, deferred |-> FALSE]

UpdateInit ==
  /\ updateWorld \in UpdateWorlds
  /\ view = Screen(IF updateWorld.front = "gui" THEN "monitor" ELSE "prompt")
  /\ known = (updateWorld.front = "tui")
  /\ loads = <<>> /\ applies = <<>> /\ temp = {} /\ mounted = FALSE
  /\ bundle = "old" /\ program = "old"
  /\ updateCount = [leaves |-> 0, faults |-> 0]

Fault ==
  /\ updateCount.faults < updateWorld.faults
  /\ updateCount' = [updateCount EXCEPT !.faults = @ + 1]
  /\ UNCHANGED updateWorld

-----------------------------------------------------------------------------
(* The user and the screens *)

\* The check of a background thread comes back.
Found ==
  /\ ~known /\ known' = TRUE
  /\ UNCHANGED <<view, loads, applies, temp, installed, ofWorld>>

\* "Update Now", or the key of the prompt.
Press ==
  /\ known /\ view.screen \in {"monitor", "prompt"} /\ view.state = "idle" /\ ~view.deferred
  /\ Len(loads) < updateWorld.presses
  /\ loads' = Append(loads, [at |-> "asks", got |-> 0])
  /\ view' = [view EXCEPT !.state = "downloading", !.of = Len(loads) + 1]
  /\ UNCHANGED <<known, applies, temp, installed, ofWorld>>

\* The banner goes; the prompt makes way for the session, after a failure at any key.
Defer ==
  /\ view.screen \in {"monitor", "prompt"} /\ view.state \in {"idle", "failed"} /\ ~view.deferred
  /\ view' = IF view.screen = "prompt" THEN Screen("session") ELSE [view EXCEPT !.deferred = TRUE]
  /\ UNCHANGED <<known, loads, applies, temp, installed, ofWorld>>

Retry ==
  /\ view.screen = "monitor" /\ view.state = "failed" /\ ~view.deferred
  /\ view' = [view EXCEPT !.state = "idle", !.of = 0]
  /\ UNCHANGED <<known, loads, applies, temp, installed, ofWorld>>

\* A monitor that is left forgets the thread it waits for; a new one knows of none.
LeaveMonitor ==
  /\ view.screen = "monitor" /\ updateCount.leaves < updateWorld.leaves
  /\ updateWorld.leavesBusy \/ view.state # "applying"
  /\ updateCount' = [updateCount EXCEPT !.leaves = @ + 1]
  /\ view' = Screen("connect")
  /\ UNCHANGED <<known, loads, applies, temp, installed, updateWorld>>

EnterMonitor ==
  /\ view.screen = "connect" /\ view' = Screen("monitor")
  /\ UNCHANGED <<known, loads, applies, temp, installed, ofWorld>>

\* Mutant: an error of the download thread is not looked at.
DrainedDone ==
  /\ view.screen \in {"monitor", "prompt"} /\ view.state = "downloading" /\ loads[view.of].at = "done"
  /\ applies' = Append(applies, "attaches")
  /\ view' = [view EXCEPT !.state = "applying", !.of = Len(applies) + 1]
  /\ UNCHANGED <<known, loads, temp, installed, ofWorld>>

\* A frame takes the messages of the download thread.
Drained ==
  /\ view.screen \in {"monitor", "prompt"} /\ view.state = "downloading"
  /\ \/ /\ loads[view.of].at = "done"
        /\ applies' = Append(applies, "attaches")
        /\ view' = [view EXCEPT !.state = "applying", !.of = Len(applies) + 1]
     \/ /\ loads[view.of].at = "failed"
        /\ view' = [view EXCEPT !.state = "failed"]
        /\ UNCHANGED applies
  /\ UNCHANGED <<known, loads, temp, installed, ofWorld>>

ApplyFailed ==
  /\ view.screen \in {"monitor", "prompt"} /\ view.state = "applying" /\ applies[view.of] = "failed"
  /\ view' = [view EXCEPT !.state = "failed"]
  /\ UNCHANGED <<known, loads, applies, temp, installed, ofWorld>>

-----------------------------------------------------------------------------
(* download_update *)

Loading(n, at) == n \in DOMAIN loads /\ loads[n].at = at

\* The answer comes, then the file is created, empty whatever it held; without an asset there
\* is nothing to ask for.
Answered(n) ==
  /\ Loading(n, "asks") /\ (updateWorld.late \/ n = Len(loads))
  /\ IF updateWorld.asset THEN loads' = [loads EXCEPT ![n].at = "reads"] /\ temp' = {}
     ELSE loads' = [loads EXCEPT ![n].at = "failed"] /\ UNCHANGED temp
  /\ UNCHANGED <<view, known, applies, installed, ofWorld>>

ReadChunk(n) ==
  /\ Loading(n, "reads") /\ loads[n].got < Chunks
  /\ loads' = [loads EXCEPT ![n].got = @ + 1]
  /\ temp' = temp \union {loads[n].got + 1}
  /\ UNCHANGED <<view, known, applies, installed, ofWorld>>

ReadEnds(n) ==
  /\ Loading(n, "reads") /\ loads[n].got = Chunks
  /\ loads' = [loads EXCEPT ![n].at = "done"]
  /\ UNCHANGED <<view, known, applies, temp, installed, ofWorld>>

\* Mutant: a read that fails is taken for the end of the file.
BrokenIsEnd(n) ==
  /\ Loading(n, "reads") /\ Fault
  /\ loads' = [loads EXCEPT ![n].at = "done"]
  /\ UNCHANGED <<view, known, applies, temp, installed>>

Broken(n) ==
  /\ Loading(n, "asks") \/ Loading(n, "reads")
  /\ Fault
  /\ loads' = [loads EXCEPT ![n].at = "failed"]
  /\ UNCHANGED <<view, known, applies, temp, installed>>

-----------------------------------------------------------------------------
(* apply_and_restart *)

Applying(n, at) == n \in DOMAIN applies /\ applies[n] = at
Becomes(n, at) == applies' = [applies EXCEPT ![n] = at]

\* hdiutil attach; a damaged image may be refused or not.
Attach(n) ==
  /\ Applying(n, "attaches")
  /\ \/ Becomes(n, "finds") /\ mounted' = TRUE /\ UNCHANGED ofWorld
     \/ Becomes(n, "failed") /\ UNCHANGED mounted /\ (IF temp = Whole THEN Fault ELSE UNCHANGED ofWorld)
  /\ UNCHANGED <<view, known, loads, temp, bundle, program>>

\* A bundle in the image and one around the program; without either the image stays mounted.
FindBundles(n) ==
  /\ Applying(n, "finds")
  /\ \/ Becomes(n, "copies") /\ bundle' = "mixed" /\ UNCHANGED ofWorld
     \/ Becomes(n, "failed") /\ UNCHANGED bundle /\ Fault
  /\ UNCHANGED <<view, known, loads, temp, mounted, program>>

\* cp, and the image is detached either way.
Copied(n) ==
  /\ Applying(n, "copies") /\ mounted' = FALSE
  /\ \/ Becomes(n, "restarts") /\ bundle' = (IF temp = Whole THEN "new" ELSE "mixed") /\ UNCHANGED ofWorld
     \/ Becomes(n, "failed") /\ UNCHANGED bundle /\ (IF temp = Whole THEN Fault ELSE UNCHANGED ofWorld)
  /\ UNCHANGED <<view, known, loads, temp, program>>

\* The new program is started, and this process exits with all its threads.
Restarts(n) ==
  /\ Applying(n, "restarts")
  /\ program' = bundle /\ view' = Screen("gone")
  /\ UNCHANGED <<known, loads, applies, temp, mounted, bundle, ofWorld>>

\* The window is closed.
Quit ==
  /\ view.screen \in {"monitor", "connect", "session"}
  /\ updateWorld.leavesBusy \/ view.state # "applying"
  /\ program' = "none" /\ view' = Screen("gone")
  /\ UNCHANGED <<known, loads, applies, temp, mounted, bundle, ofWorld>>

-----------------------------------------------------------------------------
UpdateNext ==
  /\ program = "old"
  /\ \/ Found \/ Press \/ Defer \/ Retry \/ LeaveMonitor \/ EnterMonitor \/ Drained \/ ApplyFailed \/ Quit
     \/ \E n \in DOMAIN loads : Answered(n) \/ ReadChunk(n) \/ ReadEnds(n) \/ Broken(n)
     \/ \E n \in DOMAIN applies : Attach(n) \/ FindBundles(n) \/ Copied(n) \/ Restarts(n)

\* Frames are drawn, and no thread waits for ever.
UpdateFairness ==
  /\ WF_updateVars(program = "old" /\ (Drained \/ ApplyFailed))
  /\ WF_updateVars(program = "old" /\ \E n \in DOMAIN loads : Answered(n) \/ ReadChunk(n) \/ ReadEnds(n))
  /\ WF_updateVars(program = "old" /\ \E n \in DOMAIN applies :
                                        Attach(n) \/ FindBundles(n) \/ Copied(n) \/ Restarts(n))

-----------------------------------------------------------------------------
(* What the update promises *)

\* The program that is started is the whole new one, however often a download was broken off,
\* left behind by its monitor and started again over the same file; the bundle is replaced by
\* one thread at a time, the one the screen shows; and it is left alone before a download is
\* complete.  (Not so if a download left behind may be answered late, or the monitor left
\* while the update is applied: the file is emptied under the thread that reads it.)
UpdateIsTrue ==
  /\ program # "mixed"
  /\ \A n \in DOMAIN applies :
       program = "old" /\ applies[n] # "failed" => view.state = "applying" /\ view.of = n
  /\ bundle # "old" => \E n \in DOMAIN loads : loads[n].got = Chunks

\* A download and an update that is applied come to an end the user sees.
UpdateEnds ==
  /\ view.state = "downloading" ~> view.state # "downloading"
  /\ view.state = "applying" ~> view.state = "failed" \/ view.screen = "gone"

=============================================================================
