---------------------------- MODULE MCHdlcWindow ----------------------------
(* HdlcWindow for TLC: a modulus of 4 with the largest window it allows, so *)
(* that numbers wrap within the writes of one connection.                   *)
EXTENDS HdlcWindow
=============================================================================
