------------------------- MODULE MCSdoBlockDownload -------------------------
(***************************************************************************)
(* The surroundings SdoBlockDownload is checked in.                        *)
(***************************************************************************)
EXTENDS SdoBlockDownload

AnyFrame == ClientKinds \cup ServerKinds

\* Anything is lost, timers expire early, the server gives up at will and the
\* adapter refuses frames.
Rough ==
  [blks |-> {0, 1, 4}, lossy |-> AnyFrame, maxLoss |-> 3,
   endless |-> FALSE, timely |-> FALSE, patient |-> TRUE, aborts |-> TRUE, refuses |-> TRUE]

\* The server answers sub-blocks that are still on their way.
Impatient ==
  [blks |-> {3}, lossy |-> AnyFrame, maxLoss |-> 1,
   endless |-> FALSE, timely |-> FALSE, patient |-> FALSE, aborts |-> FALSE, refuses |-> FALSE]

\* One segment goes missing, and everyone waits long enough.
Calm ==
  [blks |-> {0, 2}, lossy |-> {"seg"}, maxLoss |-> 1,
   endless |-> FALSE, timely |-> TRUE, patient |-> TRUE, aborts |-> FALSE, refuses |-> FALSE]

\* Segments go missing for ever.
Deaf == [Calm EXCEPT !.endless = TRUE]

MCWorlds == {Rough, Impatient, Calm, Deaf}

\* Surroundings in which LossIsRepaired does not hold without its last condition
\* (README, section 6); no .cfg of the project uses them.
Refusing == {[Calm EXCEPT !.refuses = TRUE, !.maxLoss = 0]}
=============================================================================
