--------------------------- MODULE MCConnections ---------------------------
(***************************************************************************)
(* Connections for TLC: a profile the user creates, edits and deletes, and *)
(* one that stays, with two activations in flight.                         *)
(***************************************************************************)
EXTENDS Connections

CONSTANTS p1, p2
=============================================================================
