----------------------------- MODULE Telemetry -----------------------------
(***************************************************************************)
(* telemetry/telemetry.go: the analytics client, set up once by doInit,    *)
(* and the errors that are reported at most once per rateLimitDuration.    *)
(*                                                                         *)
(* doInit runs under initClientOnce, in the first goroutine that calls     *)
(* Init or tryTrackingEvent, and asks the back end who the user is.  A     *)
(* request that fails is reported through rest's apiErrorHandler, which is *)
(* again tryTrackingEvent: set too early, doInit would wait for itself.    *)
(* The request has no timeout: userAPITimeout and defaultClientTimeout go  *)
(* into a context that sendRequest never attaches to it.                   *)
(*                                                                         *)
(* RateLimitError loads the record of its context and stores a new one in  *)
(* two operations on a sync.Map; several goroutines may be between the     *)
(* two.  The clock is read together with the load.                         *)
(***************************************************************************)
EXTENDS Integers, Sequences

CONSTANTS
  Goroutines,   \* the goroutines that call RateLimitError
  Contexts,     \* its inContext arguments
  Duration,     \* rateLimitDuration
  MaxClock      \* bound on the clock

ASSUME TelemetryAssumption ==
  Duration \in Nat \ {0} /\ MaxClock \in Nat /\ "none" \notin Contexts

VARIABLES
  clock,
  once,      \* initClientOnce: fresh, done, or where doInit is; "hung" is a
             \* request of doInit that is never answered
  client,    \* analyticsClient: null or amplitude
  handler,   \* rest's apiErrorHandler is set
  tracked,   \* the client got the command line, the error of the command
  limits,    \* rateLimitMap
  reporter,  \* each goroutine between the two halves of RateLimitError
  made,      \* history: RateLimitError calls per context
  sends,     \* history: the events they sent, with time and count
  reported,  \* history: the sum of those counts
  raced      \* history: contexts in which two calls overlapped

initVars  == <<once, client, handler, tracked>>
limitVars == <<limits, reporter, made, sends, reported, raced>>
telemetryVars == <<clock, initVars, limitVars>>

NoRecord == [count |-> 0, next |-> -1]
Idle     == [pc |-> "idle", context |-> "none", loaded |-> NoRecord, new |-> NoRecord]

TelemetryInit ==
  /\ clock = 0
  /\ once = "fresh" /\ client = "null" /\ handler = FALSE
  /\ tracked = {}
  /\ limits = [x \in Contexts |-> NoRecord]
  /\ reporter = [g \in Goroutines |-> Idle]
  /\ made = [x \in Contexts |-> 0]
  /\ sends = [x \in Contexts |-> <<>>]
  /\ reported = [x \in Contexts |-> 0]
  /\ raced = [x \in Contexts |-> FALSE]

(* Time counts from the first report on. *)
Tick ==
  /\ clock < MaxClock /\ \E x \in Contexts : limits[x] # NoRecord
  /\ clock' = clock + 1
  /\ UNCHANGED <<initVars, limitVars>>

-----------------------------------------------------------------------------
(* Events *)

(* tryTrackingEvent waits for initClientOnce; the null client swallows the *)
(* event.  Only events about the command itself are kept.                  *)
TryTrackingEvents(names) ==
  /\ once = "done"
  /\ tracked' = IF client = "amplitude" THEN tracked \cup names ELSE tracked

(* reportError of a REST call: the handler, if it is set, tracks it. *)
ReportAPIError == IF handler THEN TryTrackingEvents({}) ELSE UNCHANGED tracked

-----------------------------------------------------------------------------
(* doInit *)

(* Mutant: the handler is set as soon as there is a client. *)
ConfigureSetsHandler ==
  /\ once = "configure"
  /\ \/ once' = "done" /\ client' = "null" /\ UNCHANGED handler
     \/ once' = "identity" /\ client' = "amplitude" /\ handler' = TRUE
  /\ UNCHANGED <<clock, tracked, limitVars>>

(* Opt-out, no key, or no client; or a client, and the question whose it   *)
(* is.                                                                     *)
Configure ==
  /\ once = "configure"
  /\ \/ once' = "done" /\ client' = "null"
     \/ once' = "identity" /\ client' = "amplitude"
  /\ UNCHANGED <<clock, handler, tracked, limitVars>>

(* getUserIdentity: the ID is configured, the back end is asked, or there  *)
(* are no credentials to ask with.                                         *)
GetUserIdentity ==
  /\ once = "identity"
  /\ \/ once' = "done" /\ handler' = TRUE
     \/ once' \in {"user", "derive"} /\ UNCHANGED handler
  /\ UNCHANGED <<clock, client, tracked, limitVars>>

(* GetUser: an answer, an error, or neither, for nothing limits the time.  *)
GetUser ==
  /\ once = "user"
  /\ \/ once' = "done" /\ handler' = TRUE
     \/ once' \in {"failed", "hung"} /\ UNCHANGED handler
  /\ UNCHANGED <<clock, client, tracked, limitVars>>

GetUserFailed ==
  /\ once = "failed"
  /\ ReportAPIError
  /\ once' = "derive"
  /\ UNCHANGED <<clock, client, handler, limitVars>>

(* An ID from the credentials or from user and host, or none at all. *)
DeriveIdentity ==
  /\ once = "derive"
  /\ once' = "done"
  /\ \/ handler' = TRUE /\ UNCHANGED client
     \/ client' = "null" /\ UNCHANGED handler
  /\ UNCHANGED <<clock, tracked, limitVars>>

DoInit == Configure \/ GetUserIdentity \/ GetUser \/ GetUserFailed \/ DeriveIdentity

-----------------------------------------------------------------------------
(* RateLimitError *)

(* LoadOrStore: the first call of a context sends at once; a later one     *)
(* decides by NextSend whether it counts or sends.                         *)
RateLimitError(g, x) ==
  LET new == [count |-> 0, next |-> clock + Duration] IN
  /\ reporter[g].pc = "idle"
  /\ made' = [made EXCEPT ![x] = @ + 1]
  /\ raced' = [raced EXCEPT ![x] = @ \/ \E h \in Goroutines : reporter[h].context = x]
  /\ IF limits[x] = NoRecord
     THEN /\ limits' = [limits EXCEPT ![x] = new]
          /\ sends' = [sends EXCEPT ![x] = Append(@, [at |-> clock, count |-> 1])]
          /\ reported' = [reported EXCEPT ![x] = @ + 1]
          /\ UNCHANGED reporter
     ELSE /\ reporter' = [reporter EXCEPT ![g] =
               [pc |-> IF limits[x].next > clock THEN "counting" ELSE "resetting",
                context |-> x, loaded |-> limits[x], new |-> new]]
          /\ UNCHANGED <<limits, sends, reported>>

(* Mutant: the backlog is not reset when it is sent. *)
StoreRecordKeepsCount(g) ==
  LET r == reporter[g]
      x == r.context
      n == r.loaded.count + 1 IN
  /\ r.pc # "idle"
  /\ limits' = [limits EXCEPT ![x] = IF r.pc = "counting" THEN [r.loaded EXCEPT !.count = n]
                                     ELSE [r.new EXCEPT !.count = n]]
  /\ sends' = IF r.pc = "counting" THEN sends
              ELSE [sends EXCEPT ![x] = Append(@, [at |-> r.new.next - Duration, count |-> n])]
  /\ reported' = IF r.pc = "counting" THEN reported ELSE [reported EXCEPT ![x] = @ + n]
  /\ reporter' = [reporter EXCEPT ![g] = Idle]
  /\ UNCHANGED <<clock, initVars, made, raced>>

(* Store: the loaded record with one more, or the new record and an event  *)
(* that reports the backlog and this call.                                 *)
StoreRecord(g) ==
  LET r == reporter[g]
      x == r.context
      n == r.loaded.count + 1 IN
  /\ r.pc # "idle"
  /\ limits' = [limits EXCEPT ![x] = IF r.pc = "counting" THEN [r.loaded EXCEPT !.count = n]
                                     ELSE r.new]
  /\ sends' = IF r.pc = "counting" THEN sends
              ELSE [sends EXCEPT ![x] = Append(@, [at |-> r.new.next - Duration, count |-> n])]
  /\ reported' = IF r.pc = "counting" THEN reported ELSE [reported EXCEPT ![x] = @ + n]
  /\ reporter' = [reporter EXCEPT ![g] = Idle]
  /\ UNCHANGED <<clock, initVars, made, raced>>

(* The process is ending, and its records with it. *)
ForgetReports ==
  /\ limits' = [x \in Contexts |-> NoRecord]
  /\ reporter' = [g \in Goroutines |-> Idle]
  /\ made' = [x \in Contexts |-> 0]
  /\ sends' = [x \in Contexts |-> <<>>]
  /\ reported' = [x \in Contexts |-> 0]
  /\ raced' = [x \in Contexts |-> FALSE]

-----------------------------------------------------------------------------
(* Properties *)

(* Rate-limited errors (RateLimitError): the first of a context is sent at *)
(* once, and the count of a record never exceeds the calls behind it.  As  *)
(* long as no two calls of the context overlapped, there is at most one    *)
(* event per rateLimitDuration, and the counts sent, the backlog and the   *)
(* call in progress add up to the calls made.                              *)
RateLimitInv ==
  \A x \in Contexts :
    LET s       == sends[x]
        pending == {g \in Goroutines : reporter[g].context = x} IN
    /\ made[x] > 0 => s # <<>> /\ s[1].count = 1 /\ limits[x].count < made[x]
    /\ limits[x].next <= clock + Duration
    /\ raced[x] \/ /\ \A i \in 1..(Len(s) - 1) : s[i + 1].at - s[i].at >= Duration
                   /\ made[x] = reported[x] + limits[x].count + (IF pending = {} THEN 0 ELSE 1)
=============================================================================
