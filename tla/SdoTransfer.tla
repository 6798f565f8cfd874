---------------------------- MODULE SdoTransfer ----------------------------
(***************************************************************************)
(* What an acknowledged SDO download promises to its caller, the firmware  *)
(* download state machine: it ends in "ok" only after the node has taken   *)
(* the whole object, and in "error" without saying what the node has done  *)
(* or is still going to do.  The node never takes a damaged object.        *)
(***************************************************************************)
VARIABLES
  outcome,    \* "pending", "ok" or "error"
  node        \* the node's object: "before" or "whole"

Init == outcome = "pending" /\ node = "before"

\* The node takes the object; possibly late, after the caller has given up.
Commit == outcome # "ok" /\ node = "before" /\ node' = "whole" /\ UNCHANGED outcome

ReturnOk == outcome = "pending" /\ node = "whole" /\ outcome' = "ok" /\ UNCHANGED node

ReturnError == outcome = "pending" /\ outcome' = "error" /\ UNCHANGED node

Next == Commit \/ ReturnOk \/ ReturnError

Spec == Init /\ [][Next]_<<outcome, node>>
=============================================================================
