----------------------------- MODULE MCPipeline -----------------------------
(* The two halves of a capture.  They share nothing, so a behaviour shows  *)
(* one of them: the goroutines of one interface with small channels, or    *)
(* the chains of collectors.                                               *)
(*                                                                         *)
(* The chains: two interfaces, one of them also captured outside the       *)
(* user's filter, an exchange that every list lets pass and whose witness  *)
(* may be too large, one that some list refuses, the command's own         *)
(* request, hellos with and without a name, unparsed data, connection      *)
(* metadata and a segment; three ports where two fit.                      *)
EXTENDS Capture, CollectorChain, TLC

A == [interface |-> 1, matched |-> TRUE]
B == [interface |-> 2, matched |-> TRUE]
N == [interface |-> 1, matched |-> FALSE]

MCCollectors == {A, B, N}

Item(c, kind, id, host, path, src, dst, cli) ==
  [on |-> c, kind |-> kind, id |-> id, host |-> host, path |-> path, src |-> src, dst |-> dst, cli |-> cli]

MCItems ==
  {Item(A, "request", 1, 1, 1, 11, 80, FALSE), Item(A, "response", 1, NoHost, NoURL, 80, 11, FALSE),
   Item(A, "request", 2, 2, 2, 12, 80, FALSE), Item(A, "response", 2, NoHost, NoURL, 80, 12, FALSE),
   Item(A, "hello", 3, HostnameUnavailable, NoURL, 11, 80, FALSE),
   Item(A, "segment", 0, NoHost, NoURL, 12, 80, FALSE),
   Item(A, "oversized", 1, NoHost, NoURL, 11, 80, FALSE),
   Item(B, "request", 4, 1, NoURL, 12, 12, TRUE),
   Item(B, "hello", 5, Domain, NoURL, 12, 80, FALSE),
   Item(B, "metadata", 6, NoHost, NoURL, 11, 80, FALSE),
   Item(N, "request", 7, 2, 1, 11, 80, FALSE),
   Item(N, "raw", 8, NoHost, NoURL, 12, 11, FALSE)}

All == 0..8

Args(pa, ha, pe, he, rate, dogfood, sampled, local) ==
  [pathAllowlist |-> pa, hostAllowlist |-> ha, pathExclusions |-> pe, hostExclusions |-> he,
   rateLimit |-> rate, dogfood |-> dogfood, sampled |-> sampled, local |-> local]

MCArgSets ==
  {Args({1}, {1}, {}, {}, FALSE, TRUE, All, TRUE),
   Args({}, {}, {3}, {2}, FALSE, FALSE, {0, 1, 2}, TRUE),
   Args({}, {}, {}, {}, TRUE, FALSE, {1, 3}, FALSE)}

-----------------------------------------------------------------------------
VARIABLE part

EitherInit ==
  /\ part \in {"capture", "chain"} /\ Init /\ ChainInit
  /\ part = "capture" => args = CHOOSE a \in ArgSets : TRUE

EitherNext ==
  /\ UNCHANGED part
  /\ \/ part = "capture" /\ Next /\ UNCHANGED chainVars
     \/ part = "chain" /\ ChainNext /\ UNCHANGED vars

EitherSpec ==
  /\ EitherInit /\ [][EitherNext]_<<part, vars, chainVars>>
  /\ part = "capture" => Fairness
=============================================================================
