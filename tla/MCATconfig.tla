----------------------------- MODULE MCATconfig -----------------------------
(* Instances of ATconfig for TLC. *)
EXTENDS ATconfig

CONSTANTS en0, en1, off0, off1
=============================================================================
