----------------------------- MODULE MCTraffic -----------------------------
(***************************************************************************)
(* Instances of Traffic for TLC.                                           *)
(***************************************************************************)
EXTENDS Traffic

W(echo, listen, changes, rowsmax, rx, edits, fails) ==
  [echo |-> echo, listen |-> listen, changes |-> changes, rows |-> rowsmax, rx |-> rx, edits |-> edits,
   fails |-> fails]

\* A user who changes the periodic list, on either kind of adapter and listening;
\* nodes that send more than the window takes; a user who edits what they send.
MCWorlds ==
  {W(FALSE, FALSE, 3, 2, 0, 0, 0), W(TRUE, FALSE, 2, 1, 1, 0, 0), W(FALSE, TRUE, 2, 1, 2, 1, 0)}
    \cup {W(FALSE, FALSE, 0, 0, 3, 2, 1), W(TRUE, FALSE, 0, 0, 2, 2, 1), W(TRUE, FALSE, 0, 0, 5, 0, 0)}
=============================================================================
