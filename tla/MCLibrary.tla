----------------------------- MODULE MCLibrary -----------------------------
(* Two statements recorded at a time in a history that retains two, three   *)
(* calls over one saved query, two seconds.                                 *)
EXTENDS Library, TLC

CONSTANTS w1, w2, d1, d2, d3

MCSymmetry == Permutations({w1, w2}) \cup Permutations({d1, d2, d3})
=============================================================================
