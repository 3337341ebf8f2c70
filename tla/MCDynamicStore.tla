--------------------------- MODULE MCDynamicStore ---------------------------
(* Instances of DynamicStore for TLC. *)
EXTENDS StoreRefinement, TLC

CONSTANTS a, b, k1, p1, p2, v1, d1

TwoPatterns == {<<p1, k1>>, <<p2, k1>>}
SessionSymmetry == Permutations({a, b})
=============================================================================
