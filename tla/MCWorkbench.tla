---------------------------- MODULE MCWorkbench ----------------------------
(***************************************************************************)
(* Instances of Workbench for TLC.                                         *)
(***************************************************************************)
EXTENDS Workbench

W(auto, kind, periodic, full, sessions, edits, moves, restarts) ==
  [auto |-> auto, kind |-> kind, periodic |-> periodic, full |-> full, sessions |-> sessions, edits |-> edits, moves |-> moves,
   restarts |-> restarts]

\* Cables that move under a dongle, with a queue that may be full, under a pinned dongle
\* and a network adapter, with and without periodic frames and restarts; and a user who
\* edits the form.
MCWorlds ==
  {W(FALSE, "kcan", TRUE, TRUE, 2, 0, 1, 0), W(TRUE, "kcanS", FALSE, FALSE, 2, 0, 2, 0),
   W(TRUE, "net", FALSE, FALSE, 2, 0, 1, 1)}
    \cup {W(FALSE, "kcanS", FALSE, FALSE, 1, 2, 0, 0), W(FALSE, "kcan", FALSE, FALSE, 1, 2, 0, 1),
          W(FALSE, "net", FALSE, FALSE, 2, 1, 0, 0)}
=============================================================================
