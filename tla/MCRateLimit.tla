---------------------------- MODULE MCRateLimit ----------------------------
(* RateLimit on two collectors. *)
EXTENDS RateLimit, TLC

CONSTANTS c1, c2, k1, k2, k3

Symmetry == Permutations(Collectors) \cup Permutations(Keys)
=============================================================================
