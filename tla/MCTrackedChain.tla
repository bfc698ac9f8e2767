--------------------------- MODULE MCTrackedChain ---------------------------
(* TrackedChain: one TLS connection, two TCP timers, one HTTP exchange. *)
EXTENDS TrackedChain

CONSTANTS c1, c2, k1
=============================================================================
