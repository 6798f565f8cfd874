--------------------------- MODULE MCDongleUpdate ---------------------------
(***************************************************************************)
(* Instances of DongleUpdate for TLC.                                      *)
(***************************************************************************)
EXTENDS DongleUpdate

\* Either board; a good image, one whose USB does not work; up to two power cuts, a
\* killed tool, a failed transfer; a wrong signature with a tool that does not look.
MCWorlds ==
  [board : {"h743", "h753"}, works : BOOLEAN, signed : {TRUE}, checks : {TRUE},
   cuts : {2}, kills : {1}, errors : {1}]
    \cup [board : {"h743"}, works : {TRUE}, signed : {FALSE}, checks : BOOLEAN,
          cuts : {1}, kills : {0}, errors : {0}]
=============================================================================
