----------------------------- MODULE MCKcanLink -----------------------------
(***************************************************************************)
(* Instances of KcanLink for TLC.                                          *)
(***************************************************************************)
EXTENDS KcanLink

W(board, listen, rx, tx, pulls, failures) ==
  [board |-> board, listen |-> listen, sessions |-> 2, rx |-> rx, tx |-> tx,
   unplugs |-> pulls, faults |-> failures]

\* Much received; much sent before a session that listens; the cable pulled
\* between and within sessions; the other board.
MCWorlds ==
  {W("h743", {}, 3, 1, 0, 0), W("h743", {2}, 0, 3, 0, 1), W("h743", {}, 1, 1, 1, 0),
   W("h753", {}, 1, 1, 0, 0)}
=============================================================================
