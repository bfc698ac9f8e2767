------------------------------ MODULE MCAgent ------------------------------
(* Agent with three mirrored calls at most.  The module sends either what  *)
(* the handlers reject, or the halves of one exchange and of calls with    *)
(* bad request IDs, or any one message ParseHTTP tells apart.              *)
EXTENDS Agent, TLC

CONSTANTS v1, v2, none

Headers2 == {"Content-Type", "Content-Encoding"}

Plain == [encodings |-> <<>>, layers |-> <<>>, type |-> "json", charset |-> "none",
          canonical |-> Headers2, valid |-> TRUE, big |-> FALSE, empty |-> FALSE]

Mirrored(kind, problem, exchange, body) ==
  body @@ [kind |-> kind, problem |-> problem, exchange |-> exchange]

Rejected == {Mirrored("other", "none", "x", Plain), Mirrored("request", "decode", "x", Plain),
             Mirrored("response", "content-type", "x", Plain)}

Halved ==
  {Mirrored("request", "none", "x", Plain), Mirrored("response", "none", "x", Plain),
   Mirrored("request", "id", "x", Plain), Mirrored("response", "id", "y", Plain)}

UpToTwo(S) == {<<>>} \cup {<<a>> : a \in S} \cup {<<a, b>> : a, b \in S}

(* Any two header lines with any two compressions; any type and charset    *)
(* with at most one, big where ParseHTTP asks; and names not canonical.    *)
Compressed ==
  {[Plain EXCEPT !.encodings = e, !.layers = l, !.type = t] :
     e \in UpToTwo({<<"gzip">>, <<"deflate">>, <<"gzip", "deflate">>, <<"other">>}),
     l \in UpToTwo({"gzip", "zlib", "flate"}), t \in {"json", "text"}}

Typed ==
  {b \in [encodings : {<<>>, <<<<"gzip">>>>, <<<<"deflate">>>>},
          layers : {<<>>, <<"gzip">>, <<"zlib">>, <<"flate">>, <<"br">>},
          type : {"json", "form", "text", "none"}, charset : {"none", "other", "unknown"},
          canonical : {Headers2}, valid : BOOLEAN, big : BOOLEAN, empty : BOOLEAN] :
     /\ b.big => b.encodings = <<>> /\ Len(b.layers) = 1
     /\ b.empty => b.layers = <<>> /\ b.valid}

Spelled ==
  {[Plain EXCEPT !.canonical = h, !.encodings = e, !.layers = l, !.type = t] :
     h \in SUBSET Headers2, e \in {<<>>, <<<<"deflate">>>>}, l \in {<<>>, <<"flate">>},
     t \in {"json", "text"}}

CapturedBodies == Compressed \cup Typed
Bodies         == CapturedBodies \cup Spelled

MessagesOfAll ==
  [rejected |-> Rejected, halves |-> Halved,
   bodies |-> {Mirrored("request", "none", "x", b) : b \in Bodies}]

ThreeCalls == 1..3
CallsOfAll == [rejected |-> Calls, halves |-> Calls, bodies |-> {1}]
=============================================================================
