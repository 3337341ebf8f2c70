------------------------------ MODULE MCKicker ------------------------------
(* Instances of Kicker for TLC. *)
EXTENDS Kicker

CONSTANTS script, both, none, k1, k2, p1, p2
=============================================================================
