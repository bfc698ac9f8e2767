-------------------------------- MODULE MCTCP -------------------------------
(* The two parts that follow a TCP connection.  They share nothing, so a   *)
(* behaviour shows one of them: TCPConnTracker on one connection, for      *)
(* connections do not interact, or TCPStream with its two directions.      *)
EXTENDS TCPConnTracker, TCPStream

CONSTANTS c1, toServer, toClient

VARIABLE part

EitherInit == part \in {"tracker", "stream"} /\ Init /\ StreamInit

EitherNext ==
  /\ UNCHANGED part
  /\ \/ part = "tracker" /\ Next /\ UNCHANGED streamVars
     \/ part = "stream" /\ StreamNext /\ UNCHANGED vars

EitherSpec ==
  /\ EitherInit /\ [][EitherNext]_<<part, vars, streamVars>>
  /\ part = "tracker" => Fairness
=============================================================================
