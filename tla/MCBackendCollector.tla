------------------------ MODULE MCBackendCollector ------------------------
(* BackendCollector on one pair key and one report of another kind. *)
EXTENDS BackendCollector, TLC

CONSTANTS k1, r1
=============================================================================
