----------------------- MODULE MCSdoSegmentedDownload -----------------------
(***************************************************************************)
(* The calls and surroundings SdoSegmentedDownload is checked in.          *)
(***************************************************************************)
EXTENDS SdoSegmentedDownload

AnyFrame == ClientKinds \cup ServerKinds

\* Acknowledged: anything is lost, timers expire early, the server gives up.
Rough ==
  [noWait |-> FALSE, lossy |-> AnyFrame, maxLoss |-> 2, timely |-> FALSE, aborts |-> TRUE]

\* Streaming over an adapter that drops responses as it likes.
Deaf ==
  [noWait |-> TRUE, lossy |-> {"initAck", "segAck"}, maxLoss |-> 6,
   timely |-> FALSE, aborts |-> FALSE]

\* Streaming over a perfect bus to a server that may give up.
Refused ==
  [noWait |-> TRUE, lossy |-> {}, maxLoss |-> 0, timely |-> TRUE, aborts |-> TRUE]

MCWorlds == {Rough, Deaf, Refused}
RefusedOnly == {Refused}
=============================================================================
