----------------------------- MODULE RateLimit -----------------------------
(***************************************************************************)
(* trace/rate_limit.go: SharedRateLimit and its rateLimitCollectors.       *)
(*                                                                         *)
(* One SharedRateLimit is shared by all capture goroutines.  Its run()     *)
(* goroutine receives from a ticker (a new epoch) and from a one-shot      *)
(* timer (start of the epoch's sampling interval); every collector asks it *)
(* under its mutex whether a request may pass, and the request that uses   *)
(* up the budget ends the interval.  Go channels of capacity one are       *)
(* sequences of length at most one.                                        *)
(*                                                                         *)
(* Time is discrete.  With Prompt, time does not pass while a due timer    *)
(* has not fired or the run() goroutine has something to receive, that is, *)
(* the scheduler reacts within one time unit; without it a goroutine may   *)
(* be delayed for any time.                                                *)
(***************************************************************************)
EXTENDS Integers, Sequences

CONSTANTS
  Collectors,      \* the rateLimitCollectors (one per interface and filter)
  Keys,            \* requestKeys (stream ID and sequence number)
  RateNum,         \* WitnessesPerMinute = RateNum / RateDen
  RateDen,
  EpochTime,       \* RateLimitEpochTime
  MaxDuration,     \* RateLimitMaxDuration
  MaxLag,          \* how far an ObservationTime may lie in the past
  Prompt,          \* TRUE iff the scheduler reacts within one time unit
  MaxTime          \* bound on time

ASSUME RateAssumption ==
  /\ RateNum \in Nat
  /\ RateDen \in Nat \ {0}
  /\ EpochTime \in Nat \ {0}
  /\ MaxDuration \in Nat
  /\ MaxLag \in Nat
  /\ Prompt \in BOOLEAN
  /\ MaxTime \in Nat

VARIABLES
  now,             \* the wall clock
  active,          \* SampleIntervalActive
  count,           \* SampleIntervalCount
  intervalStart,   \* SampleIntervalStart
  estimate,        \* EstimatedSampleInterval
  firstEstimate,   \* FirstEstimate
  nextTick,        \* when epochTicker fires next
  tickC,           \* epochTicker.C
  timerDue,        \* <<t>> while intervalTimer is armed for t
  timerC,          \* intervalTimer.C
  done,            \* the done channel is closed
  runner,          \* the run() goroutine: running, exited or panicked
  children,        \* children
  opened,          \* collectors made by NewCollector so far
  arrivals,        \* RequestArrivalTimes, a set of <<key, time>> per collector
  epochCh,         \* epochCh of each collector
  pc,              \* where each collector is in Process
  seen,            \* packets that reached Process: <<kind, collector, key>>
  fwdReq,          \* history: forwarded requests <<collector, key, obs. time>>
  fwdResp,         \* history: forwarded responses <<collector, key>>
  sampled          \* history: requests forwarded since startInterval

timeVars   == <<now, nextTick, tickC, timerDue, timerC>>
sampleVars == <<active, count, intervalStart, estimate, firstEstimate>>
collVars   == <<children, opened, arrivals, epochCh, pc, seen>>
histVars   == <<fwdReq, fwdResp, sampled>>
vars == <<timeVars, sampleVars, done, runner, collVars, histVars>>

(* Witnesses per epoch: the configured rate, rounded up to one. *)
WitnessesPerEpoch ==
  IF RateNum * EpochTime < RateDen THEN 1 ELSE (RateNum * EpochTime) \div RateDen

(* The exponential moving average with alpha = 0.3, truncated. *)
MovingAverage(old, new) == (7 * old + 3 * new) \div 10

(* A panic in any goroutine ends the program. *)
Alive == runner # "panicked"

Init ==
  /\ now = 0
  /\ active = FALSE /\ count = 0 /\ intervalStart = 0
  /\ estimate = 0 /\ firstEstimate = TRUE
  /\ nextTick = EpochTime /\ tickC = <<>>
  /\ timerDue = <<0>> /\ timerC = <<>>
  /\ done = FALSE /\ runner = "running"
  /\ children = {} /\ opened = {}
  /\ arrivals = [c \in Collectors |-> {}]
  /\ epochCh = [c \in Collectors |-> <<>>]
  /\ pc = [c \in Collectors |-> "idle"]
  /\ seen = {}
  /\ fwdReq = {} /\ fwdResp = {} /\ sampled = 0

-----------------------------------------------------------------------------
(* The runtime's timers.  A send on a full timer channel is dropped. *)

TickerFires ==
  /\ Alive /\ runner = "running"
  /\ now >= nextTick
  /\ nextTick' = nextTick + EpochTime
  /\ tickC' = IF tickC = <<>> THEN <<now>> ELSE tickC
  /\ UNCHANGED <<now, timerDue, timerC, sampleVars, done, runner, collVars, histVars>>

TimerFires ==
  /\ Alive
  /\ timerDue # <<>> /\ now >= timerDue[1]
  /\ timerDue' = <<>>
  /\ timerC' = IF timerC = <<>> THEN <<now>> ELSE timerC
  /\ UNCHANGED <<now, nextTick, tickC, sampleVars, done, runner, collVars, histVars>>

(* run() has something to receive, or a timer is due. *)
Pending ==
  /\ runner = "running"
  /\ \/ now >= nextTick
     \/ timerDue # <<>> /\ now >= timerDue[1]
     \/ tickC # <<>>
     \/ timerC # <<>>

Tick ==
  /\ Alive
  /\ now < MaxTime
  /\ Prompt => ~Pending
  /\ now' = now + 1
  /\ UNCHANGED <<nextTick, tickC, timerDue, timerC,
                 sampleVars, done, runner, collVars, histVars>>

-----------------------------------------------------------------------------
(* The run() goroutine: each case of its select. *)

StartInterval ==
  /\ runner = "running"
  /\ timerC # <<>>
  /\ timerC' = <<>>
  /\ intervalStart' = timerC[1]
  /\ count' = 0
  /\ active' = TRUE
  /\ sampled' = 0
  /\ UNCHANGED <<now, nextTick, tickC, timerDue, estimate, firstEstimate,
                 done, runner, collVars, fwdReq, fwdResp>>

(* Mutant: an inclusive random range. *)
StartOffsetsInclusive == IF firstEstimate THEN {0} ELSE 0..(EpochTime - estimate)

(* Offsets that rand.Int63n may return; it panics on an empty range. *)
StartOffsets == IF firstEstimate THEN {0} ELSE 0..(EpochTime - estimate - 1)

(* Mutant: the epoch's start is sent instead of the threshold. *)
SendEpochStart(threshold) ==
  epochCh' = [c \in Collectors |->
                IF c \in children /\ epochCh[c] = <<>> THEN <<threshold + MaxDuration>>
                ELSE epochCh[c]]

(* Non-blocking send of the expiry threshold to every child. *)
SendThreshold(threshold) ==
  epochCh' = [c \in Collectors |->
                IF c \in children /\ epochCh[c] = <<>> THEN <<threshold>> ELSE epochCh[c]]

StartNewEpoch ==
  /\ runner = "running"
  /\ tickC # <<>>
  /\ tickC' = <<>>
  /\ \E offset \in StartOffsets : timerDue' = <<now + offset>>
  /\ SendThreshold(tickC[1] - MaxDuration)
  /\ UNCHANGED <<now, nextTick, timerC, sampleVars, done, runner,
                 children, opened, arrivals, pc, seen, fwdReq, fwdResp, sampled>>

(* rand.Int63n of a bound that is not positive. *)
StartNewEpochPanics ==
  /\ runner = "running"
  /\ tickC # <<>>
  /\ StartOffsets = {}
  /\ runner' = "panicked"
  /\ UNCHANGED <<timeVars, sampleVars, done, collVars, histVars>>

RunReturns ==
  /\ runner = "running"
  /\ done
  /\ runner' = "exited"
  /\ timerDue' = <<>>
  /\ UNCHANGED <<now, nextTick, tickC, timerC, sampleVars, done, collVars, histVars>>

Stop ==
  /\ Alive
  /\ ~done
  /\ done' = TRUE
  /\ UNCHANGED <<timeVars, sampleVars, runner, collVars, histVars>>

-----------------------------------------------------------------------------
(* The collectors.  Each is used by one goroutine. *)

NewCollector(c) ==
  /\ Alive
  /\ c \notin opened
  /\ opened' = opened \cup {c}
  /\ children' = children \cup {c}
  /\ UNCHANGED <<timeVars, sampleVars, done, runner, arrivals, epochCh, pc, seen, histVars>>

Close(c) ==
  /\ Alive
  /\ c \in children /\ pc[c] = "idle"
  /\ children' = children \ {c}
  /\ UNCHANGED <<timeVars, sampleVars, done, runner, opened, arrivals, epochCh, pc, seen,
                 histVars>>

(* Mutant: start.Sub(end) instead of end.Sub(start). *)
EndIntervalNegated ==
  /\ active' = FALSE /\ count' = 0
  /\ estimate' = intervalStart - now
  /\ firstEstimate' = FALSE
  /\ UNCHANGED intervalStart

(* endInterval, called with the lock held. *)
EndInterval ==
  LET intervalLength == now - intervalStart IN
  /\ active' = FALSE
  /\ count' = 0
  /\ estimate' = IF firstEstimate THEN intervalLength
                 ELSE MovingAverage(estimate, intervalLength)
  /\ firstEstimate' = FALSE
  /\ UNCHANGED intervalStart

(* Mutant: > instead of >=. *)
AllowHTTPRequestOffByOne ==
  /\ active
  /\ IF count + 1 > WitnessesPerEpoch
     THEN EndInterval
     ELSE /\ count' = count + 1
          /\ UNCHANGED <<active, intervalStart, estimate, firstEstimate>>

(* AllowHTTPRequest when it returns true: count, and end the interval when *)
(* the budget is used up.                                                  *)
AllowHTTPRequest ==
  /\ active
  /\ IF count + 1 >= WitnessesPerEpoch
     THEN EndInterval
     ELSE /\ count' = count + 1
          /\ UNCHANGED <<active, intervalStart, estimate, firstEstimate>>

(* A packet of the given kind and key reaches Process of collector c. *)
Arrives(kind, c, k) ==
  /\ Alive
  /\ c \in children /\ pc[c] = "idle"
  /\ <<kind, c, k>> \notin seen
  /\ seen' = seen \cup {<<kind, c, k>>}
  /\ pc' = [pc EXCEPT ![c] = "checkEpoch"]
  /\ UNCHANGED <<timeVars, done, runner, children, opened, epochCh>>

ForwardRequest(c, k) ==
  /\ Arrives("request", c, k)
  /\ AllowHTTPRequest
  /\ \E lag \in 0..MaxLag :
       /\ arrivals' = [arrivals EXCEPT ![c] =
                         {a \in @ : a[1] # k} \cup {<<k, now - lag>>}]
       /\ fwdReq' = fwdReq \cup {<<c, k, now - lag>>}
  /\ sampled' = sampled + 1
  /\ UNCHANGED fwdResp

DropRequest(c, k) ==
  /\ Arrives("request", c, k)
  /\ ~active
  /\ UNCHANGED <<sampleVars, arrivals, histVars>>

(* Mutant: responses pass without looking up their request. *)
ForwardAnyResponse(c, k) ==
  /\ Arrives("response", c, k)
  /\ arrivals' = [arrivals EXCEPT ![c] = {a \in @ : a[1] # k}]
  /\ fwdResp' = fwdResp \cup {<<c, k>>}
  /\ UNCHANGED <<sampleVars, fwdReq, sampled>>

ForwardResponse(c, k) ==
  /\ Arrives("response", c, k)
  /\ \E a \in arrivals[c] : a[1] = k
  /\ arrivals' = [arrivals EXCEPT ![c] = {a \in @ : a[1] # k}]
  /\ fwdResp' = fwdResp \cup {<<c, k>>}
  /\ UNCHANGED <<sampleVars, fwdReq, sampled>>

DropResponse(c, k) ==
  /\ Arrives("response", c, k)
  /\ \A a \in arrivals[c] : a[1] # k
  /\ UNCHANGED <<sampleVars, arrivals, histVars>>

(* Any other content: AllowOther decides, nothing is counted. *)
ProcessOther(c) ==
  /\ Alive
  /\ c \in children /\ pc[c] = "idle"
  /\ pc' = [pc EXCEPT ![c] = "checkEpoch"]
  /\ UNCHANGED <<timeVars, sampleVars, done, runner, children, opened, arrivals, epochCh,
                 seen, histVars>>

(* The non-blocking receive at the end of Process, and expireRequests. *)
CheckEpoch(c) ==
  /\ Alive
  /\ pc[c] = "checkEpoch"
  /\ pc' = [pc EXCEPT ![c] = "idle"]
  /\ \/ /\ epochCh[c] # <<>>
        /\ arrivals' = [arrivals EXCEPT ![c] = {a \in @ : a[2] >= epochCh[c][1]}]
        /\ epochCh' = [epochCh EXCEPT ![c] = <<>>]
     \/ /\ epochCh[c] = <<>>
        /\ UNCHANGED <<arrivals, epochCh>>
  /\ UNCHANGED <<timeVars, sampleVars, done, runner, children, opened, seen, histVars>>

Process(c) ==
  \/ \E k \in Keys : \/ ForwardRequest(c, k) \/ DropRequest(c, k)
                     \/ ForwardResponse(c, k) \/ DropResponse(c, k)
  \/ ProcessOther(c)
  \/ CheckEpoch(c)

Next ==
  \/ TickerFires \/ TimerFires \/ Tick
  \/ StartInterval \/ StartNewEpoch \/ StartNewEpochPanics \/ RunReturns \/ Stop
  \/ \E c \in Collectors : NewCollector(c) \/ Close(c) \/ Process(c)

Spec == Init /\ [][Next]_vars

-----------------------------------------------------------------------------
(* Properties *)

(* A Go channel of capacity one with elements of S. *)
IsChan(q, S) == q \in Seq(S) /\ Len(q) <= 1

(* Type invariant of the shared state, the channels and the collectors. *)
TypeOK ==
  /\ now \in Nat /\ nextTick \in Nat
  /\ IsChan(tickC, Nat) /\ IsChan(timerDue, Nat) /\ IsChan(timerC, Nat)
  /\ active \in BOOLEAN /\ count \in Nat /\ intervalStart \in Nat
  /\ estimate \in Nat /\ firstEstimate \in BOOLEAN
  /\ done \in BOOLEAN /\ runner \in {"running", "exited", "panicked"}
  /\ children \subseteq opened /\ opened \subseteq Collectors
  /\ arrivals \in [Collectors -> SUBSET (Keys \X Int)]
  /\ epochCh \in [Collectors -> Seq(Int)]
  /\ \A c \in Collectors : IsChan(epochCh[c], Int)
  /\ pc \in [Collectors -> {"idle", "checkEpoch"}]
  /\ seen \subseteq {"request", "response"} \X Collectors \X Keys
  /\ fwdReq \subseteq Collectors \X Keys \X Int
  /\ fwdResp \subseteq Collectors \X Keys
  /\ sampled \in Nat

(* However the collectors interleave, the requests they forward between   *)
(* two starts of the sampling interval never exceed WitnessesPerEpoch     *)
(* (AllowHTTPRequest, endInterval).                                       *)
IntervalBudget == sampled <= WitnessesPerEpoch

(* A response is forwarded only after its request, so that the backend    *)
(* collector never holds half a witness whose other half was rejected     *)
(* (rateLimitCollector.Process, RequestArrivalTimes).                     *)
ResponseOfSampledRequest ==
  \A r \in fwdResp : \E q \in fwdReq : q[1] = r[1] /\ q[2] = r[2]

(* A sampled request that is forgotten before its response arrived was    *)
(* observed more than RateLimitMaxDuration ago, whenever the threshold    *)
(* was sent and however long it stayed in epochCh (expireRequests).       *)
NoEarlyExpiry ==
  \A q \in fwdReq :
    \/ <<q[2], q[3]>> \in arrivals[q[1]]
    \/ <<q[1], q[2]>> \in fwdResp
    \/ q[3] + MaxDuration < now

(* Less than two epochs pass between two starts of the interval, so every *)
(* epoch but the one after a late start is sampled, and the moving        *)
(* average stays within an epoch (startNewEpoch, endInterval).            *)
SamplesEveryEpoch ==
  runner # "exited" => now - intervalStart < 2 * EpochTime /\ estimate <= EpochTime

(* Sampling goes on until it is stopped, with one exception that the code *)
(* has: an estimate of a whole epoch leaves Int63n an empty range, and    *)
(* the panic of the run() goroutine ends the program.  Under a scheduler  *)
(* that keeps up there is no other way to stop sampling: run() returns    *)
(* only after Stop, and panics only at that one estimate.                 *)
SamplesUntilPanic ==
  /\ SamplesEveryEpoch
  /\ runner = "exited" => done
  /\ runner = "panicked" => ~ firstEstimate /\ estimate = EpochTime
=============================================================================
