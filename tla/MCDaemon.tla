------------------------------ MODULE MCDaemon ------------------------------
(* Daemon with one service, whose clients may have two requests in flight. *)
EXTENDS Daemon, TLC

CONSTANTS s1, c1, c2, t1, r1, r2

OneService == [x \in Clients \cup Traces |-> s1]

Symmetry == Permutations(Clients) \cup Permutations(Requests)
=============================================================================
