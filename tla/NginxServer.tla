---------------------------- MODULE NginxServer ----------------------------
(***************************************************************************)
(* integrations/nginx/rest.go and backend.go: the server to which the      *)
(* NGINX module mirrors requests and responses.                            *)
(*                                                                         *)
(* net/http runs every call in a goroutine of its own, so that several are *)
(* inside BackendCollector.Process at once, where a half is looked up in   *)
(* pairCache and stored in two separate operations.  A request ID that is  *)
(* not a UUID is answered with 400, but the handler goes on with the zero  *)
(* UUID: all such calls share one pair key.  Header names are taken over   *)
(* as NGINX spells them, and a body travels as a JSON string.              *)
(*                                                                         *)
(* uploads holds the witnesses given to queueUpload; what becomes of them  *)
(* is BackendCollector's matter.  Expiry is by the times NGINX sends, so   *)
(* that periodicFlush may take any entry.                                  *)
(***************************************************************************)
EXTENDS Telemetry, ParseHTTP, FiniteSets

CONSTANTS
  Calls,       \* calls of the NGINX module in the order in which they come
  Profiles,    \* names of what the module may send in a behaviour
  MessagesOf,  \* the messages of each profile
  CallsOf      \* the calls of each profile

ZeroID == "zero"

(* Every handler is a goroutine that may report, under one of the contexts *)
(* below.  NGINX never makes up the zero UUID.                             *)
ASSUME ServerAssumption ==
  /\ Calls \subseteq Int /\ Calls \subseteq Goroutines
  /\ {"NGINX handleUnexpected", "NGINX handleRequest", "NGINX handleResonse",
      "NGINX handleResponse", "parse HTTP", "unparsable body"} \subseteq Contexts
  /\ \A p \in Profiles : \A m \in MessagesOf[p] :
       m.kind \in {"request", "response", "other"} /\ m.exchange # ZeroID

VARIABLES
  profile,   \* what the module sends
  server,    \* RunServer: off, listening, failed (no back end) or stopped
  call,      \* the calls: pc, message, damage to its body, result of
             \* ParseHTTP and (history) whether it is deserved, answer
  cache,     \* pairCache: calls whose half is stored
  uploads,   \* witnesses given to queueUpload, as sets of calls
  flusher,   \* the half periodicFlush has uploaded and not yet deleted, if any
  counted,   \* calls counted by PacketCountCollector
  crossed    \* history: pairs of calls that both missed in pairCache

callVars   == <<call, cache, uploads, flusher, counted, crossed>>
serverVars == <<profile, server, callVars>>

NoMessage == [kind |-> "none", problem |-> "none", exchange |-> "none"]
Fresh     == [pc |-> "none", message |-> NoMessage, damage |-> "none", result |-> "none",
              deserved |-> TRUE, answer |-> 0]

ServerInit ==
  /\ profile \in Profiles
  /\ server = "off"
  /\ call = [c \in Calls |-> Fresh] /\ cache = {} /\ flusher = {}
  /\ uploads = {} /\ counted = {} /\ crossed = {}

-----------------------------------------------------------------------------
(* RunServer *)

(* NewNginxBackend fails in GetServiceIDByName or NewLearnSession.  A      *)
(* request that fails is reported, and so is an unknown project.           *)
BackendFails ==
  /\ server = "off"
  /\ server' = "failed"
  /\ ReportAPIError \/ TryTrackingEvents({})
  /\ UNCHANGED <<profile, callVars, clock, once, client, handler, limitVars>>

(* SendInitialTelemetry, whose error is reported and forgotten, then the   *)
(* listener.  TelemetryWorker only reads the counters and is left out.     *)
BackendStarts ==
  /\ server = "off"
  /\ server' = "listening"
  /\ ReportAPIError
  /\ UNCHANGED <<profile, callVars, clock, once, client, handler, limitVars>>

(* ListenAndServe returns an error: SendErrorTelemetry, close(done).  The  *)
(* process is about to end, and the collector is not closed: what the      *)
(* handlers and the cache hold is lost, and forgotten in this step.        *)
ListenFails ==
  /\ server = "listening"
  /\ server' = "stopped"
  /\ ReportAPIError
  /\ call' = [c \in Calls |-> Fresh] /\ cache' = {} /\ flusher' = {}
  /\ uploads' = {} /\ counted' = {} /\ crossed' = {}
  /\ ForgetReports
  /\ UNCHANGED <<profile, clock, once, client, handler>>

-----------------------------------------------------------------------------
(* handleRequest, handleResponse and handleUnexpected *)

(* The context under which a handler reports a problem of its message. *)
HandlerContext(m) ==
  CASE m.kind = "other" -> "NGINX handleUnexpected"
    [] m.kind = "request" -> "NGINX handleRequest"
    [] m.kind = "response" /\ m.problem = "content-type" -> "NGINX handleResonse"
    [] OTHER -> "NGINX handleResponse"

(* The status the handler writes first; later ones are ignored. *)
FirstStatus(m) ==
  CASE m.kind = "other" -> 404
    [] m.kind # "other" /\ m.problem = "none" -> 0
    [] OTHER -> 400

(* Only a bad request ID does not end the handler. *)
GoesOn(m) == m.kind # "other" /\ m.problem \in {"none", "id"}

(* The body is a JSON string: bytes that are not UTF-8 are replaced.  A    *)
(* gzip header never is UTF-8; other compressions and charsets may be.     *)
Damage(m) ==
  IF m.layers = <<>> /\ m.charset # "other" THEN {"none"}
  ELSE IF m.layers # <<>> /\ m.layers[Len(m.layers)] = "gzip" THEN {"early"}
  ELSE {"none", "early", "late"}

Receive(c) ==
  /\ server = "listening" /\ c \in CallsOf[profile]
  /\ call[c].pc = "none" /\ \A d \in Calls : d < c => call[d].pc # "none"
  /\ \E m \in MessagesOf[profile] : \E damage \in Damage(m) :
       /\ call' = [call EXCEPT ![c] = [Fresh EXCEPT !.pc = IF GoesOn(m) THEN "process" ELSE "done",
                                                    !.message = m, !.damage = damage,
                                                    !.answer = FirstStatus(m)]]
       /\ IF FirstStatus(m) = 0 THEN UNCHANGED limitVars ELSE RateLimitError(c, HandlerContext(m))
  /\ UNCHANGED <<profile, server, cache, uploads, flusher, counted, crossed, clock, initVars>>

(* The goroutine has returned from RateLimitError. *)
At(c, pc) == call[c].pc = pc /\ reporter[c].pc = "idle"

Key(c) == IF call[c].message.problem = "id" THEN ZeroID ELSE call[c].message.exchange

Headers(m) == [kind |-> m.kind, problem |-> m.problem, exchange |-> m.exchange]

Answered(c) == IF call[c].answer = 0 THEN 200 ELSE call[c].answer

(* PacketCountCollector.Process and the first half of                      *)
(* BackendCollector.Process: count, parse, report what cannot be parsed.   *)
(* Of the message its headers remain.                                      *)
Process(c) ==
  /\ At(c, "process")
  /\ counted' = counted \cup {c}
  /\ \E r \in ParseHTTP(call[c].message, call[c].damage) :
       /\ call' = [call EXCEPT ![c].result = r,
                               ![c].deserved = Deserved(call[c].message, call[c].damage, r),
                               ![c].message = Headers(call[c].message), ![c].damage = "none",
                               ![c].pc = IF r = "error" THEN "done" ELSE "lookup",
                               ![c].answer = IF r = "error" THEN Answered(c) ELSE @]
       /\ CASE r = "error"      -> RateLimitError(c, "parse HTTP")
            [] r = "unparsable" -> RateLimitError(c, "unparsable body")
            [] OTHER            -> UNCHANGED limitVars
  /\ UNCHANGED <<profile, server, cache, uploads, flusher, crossed, clock, initVars>>

(* Mutant: the second half is merged into nothing. *)
MergeWitnessKeepsFirst(p, c) == {p}

(* MergeWitness into the half p: arguments if it has none, else responses. *)
MergeWitness(p, c) ==
  IF call[p].message.kind # call[c].message.kind THEN {p, c} ELSE {p}

(* LoadAndDelete, and on a hit merge and queueUpload. *)
Lookup(c) ==
  LET found == {p \in cache : Key(p) = Key(c)} IN
  /\ At(c, "lookup")
  /\ call' = [call EXCEPT ![c].pc = IF found = {} THEN "store" ELSE "done",
                          ![c].answer = IF found = {} THEN @ ELSE Answered(c)]
  /\ cache' = cache \ found
  /\ uploads' = uploads \cup {MergeWitness(p, c) : p \in found}
  /\ crossed' = crossed \cup
       {{c, d} : d \in {e \in Calls : found = {} /\ call[e].pc = "store" /\ Key(e) = Key(c)}}
  /\ UNCHANGED <<profile, server, flusher, counted, telemetryVars>>

(* Store: whatever the key held by now is overwritten. *)
Store(c) ==
  /\ At(c, "store")
  /\ call' = [call EXCEPT ![c].pc = "done", ![c].answer = Answered(c)]
  /\ cache' = {p \in cache : Key(p) # Key(c)} \cup {c}
  /\ UNCHANGED <<profile, server, uploads, flusher, counted, crossed, telemetryVars>>

CallStep(c) == Process(c) \/ Lookup(c) \/ Store(c)

(* RateLimitError's second half, inside a handler. *)
Report(c) ==
  /\ StoreRecord(c)
  /\ UNCHANGED serverVars

-----------------------------------------------------------------------------
(* periodicFlush of the collector; see BackendCollector. *)

FlushUpload ==
  /\ flusher = {}
  /\ \E p \in cache : flusher' = {p} /\ uploads' = uploads \cup {{p}}
  /\ UNCHANGED <<profile, server, call, cache, counted, crossed, telemetryVars>>

FlushDelete ==
  /\ flusher # {}
  /\ cache' = {p \in cache : \A q \in flusher : Key(p) # Key(q)}
  /\ flusher' = {}
  /\ UNCHANGED <<profile, server, call, uploads, counted, crossed, telemetryVars>>

-----------------------------------------------------------------------------
(* Properties *)

Finished == {c \in Calls : call[c].pc = "done" /\ call[c].result \notin {"none", "error"}}
Kept(c)  == c \in cache \/ \E u \in uploads : c \in u

(* How a parsed half can be lost.  It is reported or still in pairCache,   *)
(* although calls run side by side and periodicFlush deletes by key what   *)
(* it has uploaded, with two exceptions: its key came with two requests or *)
(* two responses, of which no rule keeps the first (the redirects of       *)
(* schema.go), or two calls of its key both looked in the cache before     *)
(* either had stored its half, and one overwrote the other.  Even then one *)
(* half of the key is kept (Process, flushPairCache).                      *)
LossHasCause ==
  \A c \in Finished :
    LET same == {d \in Calls : call[d].pc # "none" /\ Key(d) = Key(c)} IN
    /\ Kept(c) \/ \E d, e \in same :
                    /\ d # e
                    /\ call[d].message.kind = call[e].message.kind \/ {d, e} \in crossed
    /\ \E d \in same : Kept(d)

(* A reported pair is a request and a response, and of one exchange unless *)
(* both calls had bad request IDs: those share the zero UUID, and are      *)
(* paired with strangers although NGINX was told 400 (handleRequest,       *)
(* handleResponse, MergeWitness).                                          *)
StrangersWereRefused ==
  \A u \in uploads : \A c, d \in u : c # d =>
    /\ call[c].message.kind # call[d].message.kind
    /\ \/ call[c].message.exchange = call[d].message.exchange
       \/ call[c].answer = 400 /\ call[d].answer = 400

(* Every call is answered once it is done, OK only if it was counted and   *)
(* nothing was wrong with it (writeTextResponse).                          *)
AnswerIsRight ==
  \A c \in Calls : call[c].pc = "done" =>
    /\ call[c].answer # 0
    /\ call[c].answer = 200 <=> c \in counted /\ call[c].message.problem = "none"

(* What concurrent handlers and periodicFlush do to the halves of an       *)
(* exchange: which are lost, which are paired with strangers, and what     *)
(* NGINX is told.                                                          *)
MirrorInv == LossHasCause /\ StrangersWereRefused /\ AnswerIsRight

(* The result of ParseHTTP is one the message deserves, for captured       *)
(* messages and for the mirrored ones, whose names may not be canonical    *)
(* and whose bodies may be damaged (decodeBody, attemptDecompress).        *)
ParseIsFaithful == CaptureIsParsed /\ \A c \in Calls : call[c].deserved
=============================================================================
