----------------------------- MODULE MCAdapterLinks -----------------------------
(***************************************************************************)
(* Instances for TLC of a program's links to the outside, its adapters, its*)
(* dashboard and its releases: only one of them takes steps.               *)
(***************************************************************************)
EXTENDS NetLink, ApexLink, SocketCanLock, Dashboard, AppUpdate

CONSTANT Kinds

VARIABLE kind

vars == <<kind, netVars, apexVars, lockVars, pageVars, updateVars>>

NW(answers, sessions, sends, receives, cuts, resets) ==
  [answers |-> answers, sessions |-> sessions, up |-> sends, down |-> receives, cuts |-> cuts,
   resets |-> resets]

\* Frames both ways over two connections; writes cut short twice; strangers.
MCNetWorlds ==
  {NW("right", 2, 1, 2, 0, 1), NW("right", 1, 3, 0, 2, 0), NW("right", 1, 0, 3, 0, 1)}
  \union {NW(who, 2, 1, 1, 0, 1) : who \in {"other", "mute", "none"}}

AW(starts, wakes, sessions, sends, receives, stalls, pulls, failures) ==
  [starts |-> starts, wakes |-> wakes, sessions |-> sessions, tx |-> sends, rx |-> receives,
   stalls |-> stalls, pulls |-> pulls, faults |-> failures]

\* A device in its boot loader, with and without an application; a busy device with
\* stalls, failed transfers or a cable that is pulled.
MCApexWorlds ==
  {AW("boot", TRUE, 2, 1, 1, 0, 1, 0), AW("boot", FALSE, 1, 0, 0, 0, 0, 0), AW("run", TRUE, 2, 3, 2, 0, 0, 1),
   AW("run", TRUE, 1, 0, 3, 1, 0, 0)}

LW(overlap, others, acquires, deaths, reuses, fulls) ==
  [overlap |-> overlap, others |-> others, opens |-> acquires, deaths |-> deaths, reuses |-> reuses,
   fulls |-> fulls]

\* Processes that die and numbers given again, one user or two; a number not written.
Serial ==
  {LW(FALSE, {}, 3, 2, 1, 0), LW(FALSE, {CHOOSE p \in Processes : TRUE}, 3, 1, 1, 0),
   LW(FALSE, {}, 2, 1, 0, 1)}
Together == {LW(TRUE, {}, 2, 0, 0, 0)}

PW(together, starts, entries, sessions, pulls, pauses, choices) ==
  [together |-> together, slow |-> FALSE, starts |-> starts, entries |-> entries,
   sessions |-> sessions, pulls |-> pulls, pauses |-> pauses, filters |-> choices]

\* A tab over two programs, one after the other; one that falls behind, is paused and
\* filtered, has more entries than rows and sees an adapter come and go; programs that start
\* together.
MCPageWorlds ==
  {PW(FALSE, 2, 3, 2, 0, 1, 0), PW(FALSE, 1, 6, 1, 1, 1, 1), PW(TRUE, 3, 1, 1, 0, 0, 0)}

UW(front, asset, presses, leaves, faults) ==
  [front |-> front, asset |-> asset, leavesBusy |-> FALSE, late |-> FALSE, presses |-> presses,
   leaves |-> leaves, faults |-> faults]

\* Downloads that are broken off, left behind and started again; no asset; the prompt.
MCUpdateWorlds == {UW("gui", TRUE, 3, 2, 1), UW("gui", FALSE, 2, 0, 0), UW("tui", TRUE, 1, 0, 1)}

\* Only the link in use has a choice of worlds.
Init ==
  /\ kind \in Kinds /\ NetInit /\ ApexInit /\ LockInit /\ PageInit /\ UpdateInit
  /\ kind = "net" \/ netWorld = CHOOSE w \in NetWorlds : TRUE
  /\ kind = "apex" \/ apexWorld = CHOOSE w \in ApexWorlds : TRUE
  /\ kind = "page" \/ pageWorld = CHOOSE w \in PageWorlds : TRUE
  /\ kind = "update" \/ updateWorld = CHOOSE w \in UpdateWorlds : TRUE

NetStep == kind = "net" /\ NetNext /\ UNCHANGED <<kind, apexVars, lockVars, pageVars, updateVars>>
ApexStep == kind = "apex" /\ ApexNext /\ UNCHANGED <<kind, netVars, lockVars, pageVars, updateVars>>
LockStep == kind = "socketcan" /\ LockNext /\ UNCHANGED <<kind, netVars, apexVars, pageVars, updateVars>>
PageStep == kind = "page" /\ PageNext /\ UNCHANGED <<kind, netVars, apexVars, lockVars, updateVars>>
UpdateStep == kind = "update" /\ UpdateNext /\ UNCHANGED <<kind, netVars, apexVars, lockVars, pageVars>>

Next == NetStep \/ ApexStep \/ LockStep \/ PageStep \/ UpdateStep

Spec == Init /\ [][Next]_vars /\ NetFairness /\ ApexFairness /\ PageFairness /\ UpdateFairness

-----------------------------------------------------------------------------

\* Over the network and over USB, the session gets the frames of its own connection in
\* their order, each once, and the adapter transmits what was sent in its order; and so for
\* the entries of the log in a tab of the dashboard.  A release is installed whole.
FramesAreTrue == NetFramesAreTrue /\ ApexFramesAreTrue /\ PageIsTrue /\ UpdateIsTrue

\* A lost device ends the session, over the network only if the connection is closed or
\* breaks: a peer that vanishes is never missed.  Closing a session ends: always over the
\* network, over USB if the request to end found room in the queue or the device is gone.
\* What a device sends on a connection that stays is received.  A program that starts gets
\* the port of the dashboard, and its tab what is logged; an update ends.
LinksServe ==
  /\ kind = "net" =>
       /\ net = "joining" ~> net = "closed"
       /\ net = "open" /\ conn \in {"fin", "reset"} ~> net = "closed"
       /\ wrote # <<>> ~> (net # "open" \/ conn = "gone" \/ Len(given) = Len(SelectSeq(wrote, Surfaced)))
  /\ kind = "page" => PageIsServed
  /\ kind = "update" => UpdateEnds
  /\ kind = "apex" =>
       /\ apex = "joining" /\ (told \/ device # "run") ~> apex = "closed"
       /\ apex = "open" /\ device # "run" ~> apex = "closed" \/ (apex = "joining" /\ device = "run")
=============================================================================
