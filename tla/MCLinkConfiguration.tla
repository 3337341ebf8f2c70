------------------------ MODULE MCLinkConfiguration ------------------------
(* Instances of LinkConfiguration for TLC. *)
EXTENDS LinkConfiguration, TLC

CONSTANTS en0, en1, p1, p2, full, jumbo

\* Requests for both settings and for one: to go from the first to the second
\* restores the MTU alone.
MCOptions ==
  {[media |-> full, mtu |-> jumbo], [media |-> full, mtu |-> Unset]}

Symmetry == Permutations(Interfaces) \cup Permutations(Pids)
=============================================================================
