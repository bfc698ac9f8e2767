-------------------------- MODULE RateLimitProofs --------------------------
(***************************************************************************)
(* Proofs about RateLimit, for any number of collectors and keys, any      *)
(* rate, any epoch and with or without prompt scheduling.                  *)
(***************************************************************************)
EXTENDS RateLimit, TLAPS

(* While the interval is active, SampleIntervalCount is the number of      *)
(* requests forwarded since it started and the budget is not used up.      *)
CountInv ==
  /\ active => sampled = count /\ count < WitnessesPerEpoch
  /\ sampled <= WitnessesPerEpoch

(* The budget of an epoch is a positive number.  NewRateLimit rounds it up. *)
LEMMA BudgetPositive == WitnessesPerEpoch \in Nat \ {0}
<1> DEFINE a == RateNum * EpochTime
<1>1. a \in Nat /\ RateDen \in Nat \ {0}
  BY RateAssumption
<1>2. CASE a < RateDen
  BY <1>2 DEF WitnessesPerEpoch
<1>3. CASE ~(a < RateDen)
  <2>1. a \div RateDen \in Nat /\ a \div RateDen >= 1
    BY <1>1, <1>3, Z3
  <2> QED
    BY <1>3, <2>1 DEF WitnessesPerEpoch
<1> QED
  BY <1>2, <1>3

-----------------------------------------------------------------------------
(* The actions, grouped by what they can disturb. *)

(* What a packet's arrival leaves alone. *)
LEMMA ArrivesFrame ==
  ASSUME NEW kind, NEW c \in Collectors, NEW k \in Keys, TypeOK, Arrives(kind, c, k),
         kind \in {"request", "response"}
  PROVE  /\ UNCHANGED <<now, nextTick, tickC, timerDue, timerC, done, runner,
                        children, opened, epochCh>>
         /\ seen' = seen \cup {<<kind, c, k>>}
         /\ <<kind, c, k>> \notin seen
         /\ seen' \subseteq {"request", "response"} \X Collectors \X Keys
         /\ pc' \in [Collectors -> {"idle", "checkEpoch"}]
BY DEF Arrives, TypeOK, timeVars

(* A step of AllowHTTPRequest keeps the shared state well typed. *)
LEMMA AllowType ==
  ASSUME TypeOK, AllowHTTPRequest, intervalStart <= now
  PROVE  /\ active' \in BOOLEAN /\ count' \in Nat /\ intervalStart' \in Nat
         /\ estimate' \in Nat /\ firstEstimate' \in BOOLEAN
         /\ intervalStart' = intervalStart
<1>1. now - intervalStart \in Nat
  BY DEF TypeOK
<1>2. MovingAverage(estimate, now - intervalStart) \in Nat
  BY <1>1 DEF MovingAverage, TypeOK
<1>3. active' \in BOOLEAN /\ firstEstimate' \in BOOLEAN
  BY Zenon DEF AllowHTTPRequest, EndInterval, TypeOK
<1>4. count' \in Nat /\ intervalStart' = intervalStart /\ intervalStart \in Nat
  <2>1. \/ count' = 0 /\ intervalStart' = intervalStart
        \/ count' = count + 1 /\ intervalStart' = intervalStart
    BY Zenon DEF AllowHTTPRequest, EndInterval
  <2> QED
    BY <2>1 DEF TypeOK
<1>5. \/ estimate' = now - intervalStart
      \/ estimate' = MovingAverage(estimate, now - intervalStart)
      \/ estimate' = estimate
  BY Zenon DEF AllowHTTPRequest, EndInterval
<1> QED
  BY <1>1, <1>2, <1>3, <1>4, <1>5 DEF TypeOK

(* No clock value held by a timer channel or by the interval lies in the   *)
(* future.                                                                 *)
ClockInv ==
  /\ intervalStart <= now
  /\ timerC # <<>> => timerC[1] <= now
  /\ tickC # <<>> => tickC[1] <= now

(* TypeOK together with ClockInv is inductive: every action of run() and   *)
(* of the collectors keeps the shared state well typed.                    *)
THEOREM TypeCorrect == Spec => [](TypeOK /\ ClockInv)
<1>1. Init => TypeOK /\ ClockInv
  <2> SUFFICES ASSUME Init PROVE TypeOK /\ ClockInv
    OBVIOUS
  <2>1. /\ IsChan(tickC, Nat) /\ IsChan(timerDue, Nat) /\ IsChan(timerC, Nat)
        /\ now \in Nat /\ nextTick \in Nat /\ count \in Nat /\ intervalStart \in Nat
        /\ estimate \in Nat /\ sampled \in Nat
        /\ intervalStart <= now /\ timerC = <<>> /\ tickC = <<>>
    BY RateAssumption DEF Init, IsChan
  <2>2. /\ epochCh \in [Collectors -> Seq(Int)]
        /\ \A c \in Collectors : IsChan(epochCh[c], Int)
    BY DEF Init, IsChan
  <2>3. /\ active \in BOOLEAN /\ firstEstimate \in BOOLEAN /\ done \in BOOLEAN
        /\ runner \in {"running", "exited", "panicked"}
        /\ children \subseteq opened /\ opened \subseteq Collectors
    BY Zenon DEF Init
  <2>4. /\ arrivals \in [Collectors -> SUBSET (Keys \X Int)]
        /\ pc \in [Collectors -> {"idle", "checkEpoch"}]
        /\ seen = {} /\ fwdReq = {} /\ fwdResp = {}
    BY DEF Init
  <2> QED
    BY <2>1, <2>2, <2>3, <2>4 DEF TypeOK, ClockInv
<1>2. TypeOK /\ ClockInv /\ [Next]_vars => TypeOK' /\ ClockInv'
  <2> SUFFICES ASSUME TypeOK, ClockInv, [Next]_vars
               PROVE  TypeOK' /\ ClockInv'
    OBVIOUS
  <2>1. CASE TickerFires
    BY <2>1, RateAssumption DEF TickerFires, TypeOK, ClockInv, IsChan, sampleVars, collVars, histVars
  <2>2. CASE TimerFires
    BY <2>2 DEF TimerFires, TypeOK, ClockInv, IsChan, sampleVars, collVars, histVars
  <2>3. CASE Tick
    BY <2>3 DEF Tick, TypeOK, ClockInv, IsChan, sampleVars, collVars, histVars
  <2>4. CASE StartInterval
    BY <2>4 DEF StartInterval, TypeOK, ClockInv, IsChan, collVars
  <2>5. CASE StartNewEpoch
    <3>1. PICK offset \in StartOffsets : timerDue' = <<now + offset>>
      BY <2>5 DEF StartNewEpoch
    <3>2. offset \in Nat
      BY <3>1, RateAssumption DEF StartOffsets, TypeOK
    <3>3. IsChan(timerDue', Nat)
      BY <3>1, <3>2 DEF IsChan, TypeOK
    <3>4. tickC[1] - MaxDuration \in Int
      BY <2>5, RateAssumption DEF StartNewEpoch, TypeOK, IsChan
    <3>5. epochCh' \in [Collectors -> Seq(Int)] /\ \A c \in Collectors : IsChan(epochCh'[c], Int)
      BY <2>5, <3>4 DEF StartNewEpoch, SendThreshold, TypeOK, IsChan
    <3>6. tickC' = <<>> /\ UNCHANGED <<now, nextTick, timerC, active, count, intervalStart,
             estimate, firstEstimate, done, runner, children, opened, arrivals, pc, seen,
             fwdReq, fwdResp, sampled>>
      BY <2>5 DEF StartNewEpoch, sampleVars
    <3> QED
      BY <3>3, <3>5, <3>6 DEF TypeOK, ClockInv, IsChan
  <2>6. CASE StartNewEpochPanics
    BY <2>6 DEF StartNewEpochPanics, TypeOK, ClockInv, IsChan, timeVars, sampleVars, collVars, histVars
  <2>7. CASE RunReturns
    BY <2>7 DEF RunReturns, TypeOK, ClockInv, IsChan, sampleVars, collVars, histVars
  <2>8. CASE Stop
    BY <2>8 DEF Stop, TypeOK, ClockInv, IsChan, timeVars, sampleVars, collVars, histVars
  <2>9. ASSUME NEW c \in Collectors, NewCollector(c) \/ Close(c) \/ ProcessOther(c)
        PROVE  TypeOK' /\ ClockInv'
    BY <2>9 DEF NewCollector, Close, ProcessOther, TypeOK, ClockInv, IsChan, timeVars, sampleVars, histVars
  <2>10. ASSUME NEW c \in Collectors, NEW k \in Keys, ForwardRequest(c, k)
         PROVE  TypeOK' /\ ClockInv'
    <3>1. Arrives("request", c, k) /\ AllowHTTPRequest
      BY <2>10 DEF ForwardRequest
    <3>2. PICK lag \in 0..MaxLag :
            /\ arrivals' = [arrivals EXCEPT ![c] = {a \in @ : a[1] # k} \cup {<<k, now - lag>>}]
            /\ fwdReq' = fwdReq \cup {<<c, k, now - lag>>}
      BY <2>10 DEF ForwardRequest
    <3>3. now - lag \in Int
      BY <3>2, RateAssumption DEF TypeOK
    <3>4. arrivals' \in [Collectors -> SUBSET (Keys \X Int)]
      BY <3>2, <3>3 DEF TypeOK
    <3>5. fwdReq' \subseteq Collectors \X Keys \X Int
      BY <3>2, <3>3 DEF TypeOK
    <3>6. sampled' \in Nat /\ fwdResp' = fwdResp
      BY <2>10 DEF ForwardRequest, TypeOK
    <3> QED
      BY <3>1, <3>4, <3>5, <3>6, ArrivesFrame, AllowType DEF TypeOK, ClockInv, IsChan
  <2>11. ASSUME NEW c \in Collectors, NEW k \in Keys,
                DropRequest(c, k) \/ ForwardResponse(c, k) \/ DropResponse(c, k)
         PROVE  TypeOK' /\ ClockInv'
    <3>1. PICK kind \in {"request", "response"} : Arrives(kind, c, k)
      BY <2>11 DEF DropRequest, ForwardResponse, DropResponse
    <3>2. UNCHANGED <<active, count, intervalStart, estimate, firstEstimate,
                      fwdReq, sampled>>
      BY <2>11 DEF DropRequest, ForwardResponse, DropResponse, sampleVars, histVars
    <3>3. /\ \/ arrivals' = arrivals
             \/ arrivals' = [arrivals EXCEPT ![c] = {a \in @ : a[1] # k}]
          /\ fwdResp' \subseteq fwdResp \cup {<<c, k>>}
      BY <2>11, Zenon DEF DropRequest, ForwardResponse, DropResponse, histVars
    <3>4. arrivals' \in [Collectors -> SUBSET (Keys \X Int)]
      BY <3>3 DEF TypeOK
    <3>5. fwdResp' \subseteq Collectors \X Keys
      BY <3>3 DEF TypeOK
    <3> QED
      BY <3>1, <3>2, <3>4, <3>5, ArrivesFrame DEF TypeOK, ClockInv, IsChan
  <2>12. ASSUME NEW c \in Collectors, CheckEpoch(c)
         PROVE  TypeOK' /\ ClockInv'
    <3>1. pc' \in [Collectors -> {"idle", "checkEpoch"}]
      BY <2>12 DEF CheckEpoch, TypeOK
    <3>2. arrivals' \in [Collectors -> SUBSET (Keys \X Int)]
      BY <2>12 DEF CheckEpoch, TypeOK
    <3>3. epochCh' \in [Collectors -> Seq(Int)] /\ \A d \in Collectors : IsChan(epochCh'[d], Int)
      <4>1. epochCh' = epochCh \/ epochCh' = [epochCh EXCEPT ![c] = <<>>]
        BY <2>12, Zenon DEF CheckEpoch
      <4>2. <<>> \in Seq(Int) /\ Len(<<>>) <= 1
        OBVIOUS
      <4>3. epochCh \in [Collectors -> Seq(Int)] /\ \A d \in Collectors : Len(epochCh[d]) <= 1
        BY DEF TypeOK, IsChan
      <4>4. epochCh' \in [Collectors -> Seq(Int)]
        BY <4>1, <4>2, <4>3
      <4>5. \A d \in Collectors : Len(epochCh'[d]) <= 1
        BY <4>1, <4>2, <4>3
      <4> QED
        BY <4>4, <4>5 DEF IsChan
    <3>4. UNCHANGED <<now, nextTick, tickC, timerDue, timerC, active, count, intervalStart,
                      estimate, firstEstimate, done, runner, children, opened, seen,
                      fwdReq, fwdResp, sampled>>
      BY <2>12 DEF CheckEpoch, timeVars, sampleVars, histVars
    <3> QED
      BY <3>1, <3>2, <3>3, <3>4 DEF TypeOK, ClockInv, IsChan
  <2>13. CASE UNCHANGED vars
    BY <2>13 DEF vars, timeVars, sampleVars, collVars, histVars, TypeOK, ClockInv, IsChan
  <2> QED
    BY <2>1, <2>2, <2>3, <2>4, <2>5, <2>6, <2>7, <2>8, <2>9, <2>10, <2>11, <2>12, <2>13
    DEF Next, Process
<1> QED
  BY <1>1, <1>2, PTL DEF Spec

-----------------------------------------------------------------------------
(* The sampling budget. *)

(* The collectors never forward more than WitnessesPerEpoch requests       *)
(* between two starts of the sampling interval: AllowHTTPRequest counts    *)
(* and ends the interval under one lock.                                   *)
THEOREM BudgetTheorem == Spec => []IntervalBudget
<1>1. Init => CountInv
  BY BudgetPositive DEF Init, CountInv
<1>2. TypeOK /\ CountInv /\ [Next]_vars => CountInv'
  <2> SUFFICES ASSUME TypeOK, CountInv, [Next]_vars
               PROVE  CountInv'
    OBVIOUS
  <2>1. CASE StartInterval
    BY <2>1, BudgetPositive DEF StartInterval, CountInv
  <2>2. ASSUME NEW c \in Collectors, NEW k \in Keys, ForwardRequest(c, k)
        PROVE  CountInv'
    <3>1. AllowHTTPRequest /\ sampled' = sampled + 1
      BY <2>2 DEF ForwardRequest
    <3>2. CASE count + 1 >= WitnessesPerEpoch
      BY <3>1, <3>2, BudgetPositive DEF AllowHTTPRequest, EndInterval, CountInv, TypeOK
    <3>3. CASE ~(count + 1 >= WitnessesPerEpoch)
      BY <3>1, <3>3, BudgetPositive DEF AllowHTTPRequest, CountInv, TypeOK
    <3> QED
      BY <3>2, <3>3
  <2>3. CASE UNCHANGED <<active, count, sampled>>
    BY <2>3 DEF CountInv
  <2>4. CASE TickerFires \/ TimerFires \/ Tick \/ StartNewEpoch \/ StartNewEpochPanics
             \/ RunReturns \/ Stop \/ UNCHANGED vars
    BY <2>3, <2>4 DEF TickerFires, TimerFires, Tick, StartNewEpoch, StartNewEpochPanics,
       RunReturns, Stop, vars, sampleVars, histVars
  <2>5. ASSUME NEW c \in Collectors,
               NewCollector(c) \/ Close(c) \/ ProcessOther(c) \/ CheckEpoch(c)
        PROVE  CountInv'
    BY <2>3, <2>5 DEF NewCollector, Close, ProcessOther, CheckEpoch, sampleVars, histVars
  <2>6. ASSUME NEW c \in Collectors, NEW k \in Keys,
               DropRequest(c, k) \/ ForwardResponse(c, k) \/ DropResponse(c, k)
        PROVE  CountInv'
    BY <2>3, <2>6 DEF DropRequest, ForwardResponse, DropResponse, sampleVars, histVars
  <2> QED
    BY <2>1, <2>2, <2>4, <2>5, <2>6 DEF Next, Process
<1>3. CountInv => IntervalBudget
  BY DEF CountInv, IntervalBudget
<1> QED
  BY <1>1, <1>2, <1>3, TypeCorrect, PTL DEF Spec

-----------------------------------------------------------------------------
(* Pairing and expiry of sampled requests. *)

(* What RequestArrivalTimes and the channels say about the past: a         *)
(* remembered request was forwarded, a forwarded one was seen, and a       *)
(* threshold in epochCh is at least MaxDuration old.                       *)
MemoryInv ==
  /\ \A c \in Collectors : \A a \in arrivals[c] : <<c, a[1], a[2]>> \in fwdReq
  /\ \A q \in fwdReq : <<"request", q[1], q[2]>> \in seen
  /\ \A c \in Collectors : epochCh[c] # <<>> => epochCh[c][1] + MaxDuration <= now
  /\ ResponseOfSampledRequest
  /\ NoEarlyExpiry

(* A step that touches nothing but the clock, forwards, keeps MemoryInv.   *)
LEMMA MemoryFrame ==
  ASSUME TypeOK, MemoryInv, now' \in Nat, now <= now',
         UNCHANGED <<arrivals, fwdReq, fwdResp, seen, epochCh>>
  PROVE  MemoryInv'
<1>1. \A c \in Collectors : epochCh[c] # <<>> => epochCh[c][1] \in Int
  BY DEF TypeOK, IsChan
<1>2. \A q \in fwdReq : q[3] \in Int
  BY DEF TypeOK
<1>3. \A c \in Collectors : epochCh'[c] # <<>> => epochCh'[c][1] + MaxDuration <= now'
  BY <1>1, RateAssumption DEF MemoryInv, TypeOK
<1>4. NoEarlyExpiry'
  <2> SUFFICES ASSUME NEW q \in fwdReq
               PROVE  \/ <<q[2], q[3]>> \in arrivals[q[1]]
                      \/ <<q[1], q[2]>> \in fwdResp
                      \/ q[3] + MaxDuration < now'
    BY DEF NoEarlyExpiry
  <2>1. q[3] + MaxDuration < now => q[3] + MaxDuration < now'
    BY <1>2, RateAssumption DEF TypeOK
  <2> QED
    BY <2>1 DEF MemoryInv, NoEarlyExpiry
<1> QED
  BY <1>3, <1>4 DEF MemoryInv, ResponseOfSampledRequest

(* MemoryInv is inductive relative to TypeOK and ClockInv.                 *)
LEMMA MemoryStep ==
  ASSUME TypeOK, ClockInv, TypeOK', MemoryInv, [Next]_vars
  PROVE  MemoryInv'
<1>1. CASE TickerFires \/ TimerFires \/ Tick \/ StartInterval \/ StartNewEpochPanics
           \/ RunReturns \/ Stop \/ UNCHANGED vars
  <2>1. UNCHANGED <<arrivals, fwdReq, fwdResp, seen, epochCh>>
    BY <1>1 DEF TickerFires, TimerFires, Tick, StartInterval, StartNewEpochPanics,
       RunReturns, Stop, vars, collVars, histVars
  <2>2. now' = now \/ now' = now + 1
    BY <1>1 DEF TickerFires, TimerFires, Tick, StartInterval, StartNewEpochPanics,
       RunReturns, Stop, vars, timeVars
  <2>3. now' \in Nat /\ now <= now'
    BY <2>2 DEF TypeOK
  <2> QED
    BY <2>1, <2>3, MemoryFrame
<1>2. CASE StartNewEpoch
  <2>1. UNCHANGED <<now, arrivals, fwdReq, fwdResp, seen>>
    BY <1>2 DEF StartNewEpoch
  <2>2. \A c \in Collectors : epochCh'[c] # <<>> => epochCh'[c][1] + MaxDuration <= now
    <3> SUFFICES ASSUME NEW c \in Collectors, epochCh'[c] # <<>>
                 PROVE  epochCh'[c][1] + MaxDuration <= now
      OBVIOUS
    <3>1. tickC # <<>> /\ tickC[1] <= now /\ tickC[1] \in Nat
      BY <1>2 DEF StartNewEpoch, ClockInv, TypeOK, IsChan
    <3>2. epochCh'[c] = epochCh[c] \/ epochCh'[c] = <<tickC[1] - MaxDuration>>
      BY <1>2 DEF StartNewEpoch, SendThreshold
    <3>3. CASE epochCh'[c] = epochCh[c]
      BY <3>3 DEF MemoryInv
    <3>4. CASE epochCh'[c] = <<tickC[1] - MaxDuration>>
      BY <3>1, <3>4, RateAssumption DEF TypeOK
    <3> QED
      BY <3>2, <3>3, <3>4
  <2> QED
    BY <2>1, <2>2 DEF MemoryInv, ResponseOfSampledRequest, NoEarlyExpiry
<1>3. ASSUME NEW c \in Collectors, NewCollector(c) \/ Close(c) \/ ProcessOther(c)
      PROVE  MemoryInv'
  <2>1. UNCHANGED <<now, arrivals, fwdReq, fwdResp, seen, epochCh>>
    BY <1>3 DEF NewCollector, Close, ProcessOther, timeVars, histVars
  <2>2. now \in Nat /\ now <= now
    BY DEF TypeOK
  <2> QED
    BY <2>1, <2>2, MemoryFrame
<1>4. ASSUME NEW c \in Collectors, NEW k \in Keys, ForwardRequest(c, k)
      PROVE  MemoryInv'
  <2>1. /\ UNCHANGED <<now, epochCh, fwdResp>>
        /\ seen' = seen \cup {<<"request", c, k>>}
        /\ <<"request", c, k>> \notin seen
    BY <1>4 DEF ForwardRequest, Arrives, timeVars
  <2>2. PICK t \in Int :
          /\ arrivals' = [arrivals EXCEPT ![c] = {a \in @ : a[1] # k} \cup {<<k, t>>}]
          /\ fwdReq' = fwdReq \cup {<<c, k, t>>}
    <3>1. PICK lag \in 0..MaxLag :
            /\ arrivals' = [arrivals EXCEPT ![c] = {a \in @ : a[1] # k} \cup {<<k, now - lag>>}]
            /\ fwdReq' = fwdReq \cup {<<c, k, now - lag>>}
      BY <1>4 DEF ForwardRequest
    <3>2. now - lag \in Int
      BY RateAssumption DEF TypeOK
    <3> QED
      BY <3>1, <3>2
  <2>3. \A d \in Collectors : \A a \in arrivals'[d] : <<d, a[1], a[2]>> \in fwdReq'
    <3> SUFFICES ASSUME NEW d \in Collectors, NEW a \in arrivals'[d]
                 PROVE  <<d, a[1], a[2]>> \in fwdReq'
      OBVIOUS
    <3>1. a \in arrivals[d] \/ (d = c /\ a = <<k, t>>)
      BY <2>2 DEF TypeOK
    <3>2. CASE a \in arrivals[d]
      BY <2>2, <3>2 DEF MemoryInv
    <3>3. CASE d = c /\ a = <<k, t>>
      BY <2>2, <3>3
    <3> QED
      BY <3>1, <3>2, <3>3
  <2>4. \A q \in fwdReq' : <<"request", q[1], q[2]>> \in seen'
    <3> SUFFICES ASSUME NEW q \in fwdReq'
                 PROVE  <<"request", q[1], q[2]>> \in seen'
      OBVIOUS
    <3>1. CASE q = <<c, k, t>>
      BY <2>1, <3>1
    <3>2. CASE q \in fwdReq
      BY <2>1, <3>2 DEF MemoryInv
    <3> QED
      BY <2>2, <3>1, <3>2
  <2>5. ResponseOfSampledRequest'
    BY <2>1, <2>2 DEF MemoryInv, ResponseOfSampledRequest
  <2>6. NoEarlyExpiry'
    <3> SUFFICES ASSUME NEW q \in fwdReq'
                 PROVE  \/ <<q[2], q[3]>> \in arrivals'[q[1]]
                        \/ <<q[1], q[2]>> \in fwdResp'
                        \/ q[3] + MaxDuration < now'
      BY DEF NoEarlyExpiry
    <3>1. CASE q = <<c, k, t>>
      BY <2>2, <3>1 DEF TypeOK
    <3>2. CASE q \in fwdReq
      <4>1. <<"request", q[1], q[2]>> \in seen
        BY <3>2 DEF MemoryInv
      <4>2. q[1] \in Collectors /\ (q[1] # c \/ q[2] # k)
        BY <2>1, <3>2, <4>1 DEF TypeOK
      <4>3. <<q[2], q[3]>> \in arrivals[q[1]] => <<q[2], q[3]>> \in arrivals'[q[1]]
        BY <2>2, <4>2 DEF TypeOK
      <4> QED
        BY <2>1, <3>2, <4>3 DEF MemoryInv, NoEarlyExpiry
    <3> QED
      BY <2>2, <3>1, <3>2
  <2> QED
    BY <2>1, <2>3, <2>4, <2>5, <2>6 DEF MemoryInv
<1>5. ASSUME NEW c \in Collectors, NEW k \in Keys, DropRequest(c, k) \/ DropResponse(c, k)
      PROVE  MemoryInv'
  <2>1. UNCHANGED <<now, arrivals, fwdReq, fwdResp, epochCh>> /\ seen \subseteq seen'
    BY <1>5 DEF DropRequest, DropResponse, Arrives, timeVars, histVars
  <2> QED
    BY <2>1 DEF MemoryInv, ResponseOfSampledRequest, NoEarlyExpiry
<1>6. ASSUME NEW c \in Collectors, NEW k \in Keys, ForwardResponse(c, k)
      PROVE  MemoryInv'
  <2>1. /\ UNCHANGED <<now, fwdReq, epochCh>> /\ seen \subseteq seen'
        /\ fwdResp' = fwdResp \cup {<<c, k>>}
        /\ arrivals' = [arrivals EXCEPT ![c] = {a \in @ : a[1] # k}]
    BY <1>6 DEF ForwardResponse, Arrives, timeVars
  <2>2. PICK b \in arrivals[c] : b[1] = k
    BY <1>6 DEF ForwardResponse
  <2>3. \E q \in fwdReq : q[1] = c /\ q[2] = k
    <3>1. <<c, b[1], b[2]>> \in fwdReq
      BY DEF MemoryInv
    <3> QED
      BY <2>2, <3>1
  <2>4. ResponseOfSampledRequest'
    BY <2>1, <2>3 DEF MemoryInv, ResponseOfSampledRequest
  <2>5. \A d \in Collectors : \A a \in arrivals'[d] : <<d, a[1], a[2]>> \in fwdReq'
    BY <2>1 DEF MemoryInv, TypeOK
  <2>6. NoEarlyExpiry'
    <3> SUFFICES ASSUME NEW q \in fwdReq
                 PROVE  \/ <<q[2], q[3]>> \in arrivals'[q[1]]
                        \/ <<q[1], q[2]>> \in fwdResp'
                        \/ q[3] + MaxDuration < now'
      BY <2>1 DEF NoEarlyExpiry
    <3>1. CASE q[1] = c /\ q[2] = k
      BY <2>1, <3>1
    <3>2. CASE ~(q[1] = c /\ q[2] = k)
      <4>1. q[1] \in Collectors
        BY DEF TypeOK
      <4>2. <<q[2], q[3]>> \in arrivals[q[1]] => <<q[2], q[3]>> \in arrivals'[q[1]]
        BY <2>1, <3>2, <4>1 DEF TypeOK
      <4> QED
        BY <2>1, <4>2 DEF MemoryInv, NoEarlyExpiry
    <3> QED
      BY <3>1, <3>2
  <2> QED
    BY <2>1, <2>4, <2>5, <2>6 DEF MemoryInv
<1>7. ASSUME NEW c \in Collectors, CheckEpoch(c)
      PROVE  MemoryInv'
  <2>1. UNCHANGED <<now, fwdReq, fwdResp, seen>>
    BY <1>7 DEF CheckEpoch, timeVars, histVars
  <2>2. CASE UNCHANGED <<arrivals, epochCh>>
    BY <2>1, <2>2 DEF MemoryInv, ResponseOfSampledRequest, NoEarlyExpiry
  <2>3. CASE /\ epochCh[c] # <<>>
             /\ arrivals' = [arrivals EXCEPT ![c] = {a \in @ : a[2] >= epochCh[c][1]}]
             /\ epochCh' = [epochCh EXCEPT ![c] = <<>>]
    <3>1. \A d \in Collectors : \A a \in arrivals'[d] : <<d, a[1], a[2]>> \in fwdReq'
      BY <2>1, <2>3 DEF MemoryInv, TypeOK
    <3>2. \A d \in Collectors : epochCh'[d] # <<>> => epochCh'[d][1] + MaxDuration <= now'
      <4>1. \A d \in Collectors : epochCh'[d] = <<>> \/ epochCh'[d] = epochCh[d]
        BY <2>3 DEF TypeOK
      <4> QED
        BY <2>1, <4>1 DEF MemoryInv
    <3>3. NoEarlyExpiry'
      <4> SUFFICES ASSUME NEW q \in fwdReq
                   PROVE  \/ <<q[2], q[3]>> \in arrivals'[q[1]]
                          \/ <<q[1], q[2]>> \in fwdResp'
                          \/ q[3] + MaxDuration < now'
        BY <2>1 DEF NoEarlyExpiry
      <4>1. q[1] \in Collectors /\ q[3] \in Int
        BY DEF TypeOK
      <4>a. epochCh[c] \in Seq(Int) /\ epochCh[c] # <<>>
        BY <2>3 DEF TypeOK
      <4>b. epochCh[c][1] \in Int
        BY <4>a
      <4>c. epochCh[c][1] + MaxDuration <= now
        BY <4>a DEF MemoryInv
      <4>2. CASE q[1] = c /\ q[3] < epochCh[c][1]
        <5>1. now \in Int /\ MaxDuration \in Int
          BY RateAssumption DEF TypeOK
        <5>2. q[3] + MaxDuration < now
          BY <4>1, <4>2, <4>b, <4>c, <5>1
        <5> QED
          BY <2>1, <5>2
      <4>3. CASE ~(q[1] = c /\ q[3] < epochCh[c][1])
        <5>2. q[1] = c => q[3] >= epochCh[c][1]
          BY <4>1, <4>3, <4>b
        <5>3. <<q[2], q[3]>> \in arrivals[q[1]] => <<q[2], q[3]>> \in arrivals'[q[1]]
          BY <2>3, <4>1, <5>2 DEF TypeOK
        <5> QED
          BY <2>1, <5>3 DEF MemoryInv, NoEarlyExpiry
      <4> QED
        BY <4>2, <4>3
    <3>4. ResponseOfSampledRequest'
      BY <2>1 DEF MemoryInv, ResponseOfSampledRequest
    <3> QED
      BY <2>1, <3>1, <3>2, <3>3, <3>4 DEF MemoryInv
  <2> QED
    BY <1>7, <2>2, <2>3, Zenon DEF CheckEpoch
<1> QED
  BY <1>1, <1>2, <1>3, <1>4, <1>5, <1>6, <1>7 DEF Next, Process

(* Whatever the collectors and run() do, a response is forwarded only      *)
(* after its request, and a sampled request is forgotten only when it is   *)
(* answered or older than RateLimitMaxDuration.                            *)
THEOREM PairingTheorem == Spec => [](ResponseOfSampledRequest /\ NoEarlyExpiry)
<1>1. Init => MemoryInv
  BY DEF Init, MemoryInv, ResponseOfSampledRequest, NoEarlyExpiry
<1>2. TypeOK /\ ClockInv /\ TypeOK' /\ MemoryInv /\ [Next]_vars => MemoryInv'
  BY MemoryStep
<1>3. MemoryInv => ResponseOfSampledRequest /\ NoEarlyExpiry
  BY DEF MemoryInv
<1> QED
  BY <1>1, <1>2, <1>3, TypeCorrect, PTL DEF Spec

(* No sampled request is forgotten early: the part about expireRequests.   *)
THEOREM ExpiryTheorem == Spec => []NoEarlyExpiry
  BY PairingTheorem, PTL

-----------------------------------------------------------------------------
(* The pace of sampling under a scheduler that keeps up. *)

LastTick == nextTick - EpochTime

(* A sampling interval may start at t: within the epoch, and early enough  *)
(* that the interval still running is not longer than an epoch and the     *)
(* part of it that is expected.                                            *)
Slot(t) ==
  /\ LastTick <= t /\ t < nextTick
  /\ active => IF firstEstimate THEN t = LastTick ELSE t < nextTick - estimate

(* While run() runs, an epoch is announced, then its start is scheduled,   *)
(* then due, then done, in this order and all within the epoch; each stage *)
(* is over before time passes.                                             *)
PaceInv ==
  runner = "running" =>
    /\ LastTick <= now /\ now <= nextTick
    /\ estimate <= EpochTime
    /\ LastTick - EpochTime <= intervalStart
    /\ tickC = <<>> /\ timerDue = <<>> /\ timerC = <<>> => LastTick <= intervalStart
    /\ tickC # <<>> => now = LastTick /\ timerDue = <<>> /\ timerC = <<>>
    /\ timerDue # <<>> => tickC = <<>> /\ timerC = <<>> /\ now <= timerDue[1] /\ Slot(timerDue[1])
    /\ timerC # <<>> => tickC = <<>> /\ timerDue = <<>> /\ timerC[1] = now /\ Slot(now)

(* The interval that AllowHTTPRequest ends was short enough to keep the    *)
(* moving average within an epoch.                                         *)
LEMMA EstimateStep ==
  ASSUME TypeOK, ClockInv, PaceInv, runner = "running", AllowHTTPRequest
  PROVE  estimate' <= EpochTime
<1>1. /\ now \in Nat /\ nextTick \in Nat /\ intervalStart \in Nat /\ estimate \in Nat
      /\ EpochTime \in Nat \ {0} /\ active /\ timerDue \in Seq(Nat) /\ timerC \in Seq(Nat)
  BY RateAssumption DEF TypeOK, AllowHTTPRequest, IsChan
<1>2. /\ LastTick <= now /\ now <= nextTick
      /\ estimate <= EpochTime
      /\ LastTick - EpochTime <= intervalStart /\ intervalStart <= now
      /\ LastTick = nextTick - EpochTime
  BY DEF PaceInv, LastTick, ClockInv
<1>3. PICK len \in Int : len = now - intervalStart
  BY <1>1
<1>4. IF firstEstimate THEN len <= EpochTime ELSE len <= 2 * EpochTime - estimate
  <2>1. CASE tickC = <<>> /\ timerDue = <<>> /\ timerC = <<>>
    <3>1. LastTick <= intervalStart
      BY <2>1 DEF PaceInv
    <3> QED
      BY <1>1, <1>2, <1>3, <3>1
  <2>2. CASE tickC # <<>>
    <3>1. now = LastTick
      BY <2>2 DEF PaceInv
    <3> QED
      BY <1>1, <1>2, <1>3, <3>1
  <2>3. CASE timerDue # <<>> \/ timerC # <<>>
    <3>1. PICK t \in Nat : now <= t /\ Slot(t)
      <4>1. CASE timerDue # <<>>
        BY <1>1, <4>1 DEF PaceInv
      <4>2. CASE timerC # <<>>
        BY <1>1, <4>2 DEF PaceInv
      <4> QED
        BY <2>3, <4>1, <4>2
    <3>2. IF firstEstimate THEN t = LastTick ELSE t < nextTick - estimate
      BY <1>1, <3>1 DEF Slot
    <3>3. CASE firstEstimate
      BY <1>1, <1>2, <1>3, <3>1, <3>2, <3>3
    <3>4. CASE ~ firstEstimate
      BY <1>1, <1>2, <1>3, <3>1, <3>2, <3>4
    <3> QED
      BY <3>3, <3>4
  <2> QED
    BY <2>1, <2>2, <2>3
<1>5. ASSUME NEW e \in Int, e = (7 * estimate + 3 * len) \div 10, len <= 2 * EpochTime - estimate
      PROVE  e <= EpochTime
  <2>1. 7 * estimate + 3 * len <= 10 * EpochTime
    BY <1>1, <1>2, <1>5
  <2> QED
    BY <1>1, <1>2, <1>5, <2>1, Z3
<1>6. \/ firstEstimate /\ estimate' = len
      \/ ~ firstEstimate /\ estimate' = (7 * estimate + 3 * len) \div 10
      \/ estimate' = estimate
  BY <1>3 DEF AllowHTTPRequest, EndInterval, MovingAverage
<1>7. (7 * estimate + 3 * len) \div 10 \in Int
  BY <1>1, <1>3
<1> QED
  BY <1>2, <1>4, <1>5, <1>6, <1>7

(* PaceInv is inductive relative to TypeOK and ClockInv. *)
LEMMA PaceStep ==
  ASSUME Prompt, TypeOK, ClockInv, PaceInv, [Next]_vars
  PROVE  PaceInv'
<1> SUFFICES ASSUME runner' = "running"
             PROVE  /\ LastTick' <= now' /\ now' <= nextTick'
                    /\ estimate' <= EpochTime
                    /\ LastTick' - EpochTime <= intervalStart'
                    /\ tickC' = <<>> /\ timerDue' = <<>> /\ timerC' = <<>> => LastTick' <= intervalStart'
                    /\ tickC' # <<>> => now' = LastTick' /\ timerDue' = <<>> /\ timerC' = <<>>
                    /\ timerDue' # <<>> => /\ tickC' = <<>> /\ timerC' = <<>>
                                           /\ now' <= timerDue'[1] /\ Slot(timerDue[1])'
                    /\ timerC' # <<>> => /\ tickC' = <<>> /\ timerDue' = <<>>
                                         /\ timerC'[1] = now' /\ Slot(now)'
  BY DEF PaceInv
<1>t. /\ now \in Nat /\ nextTick \in Nat /\ intervalStart \in Nat /\ estimate \in Nat
      /\ EpochTime \in Nat \ {0} /\ intervalStart <= now
      /\ timerDue # <<>> => timerDue[1] \in Nat
      /\ timerC # <<>> => timerC[1] \in Nat
  BY RateAssumption DEF TypeOK, ClockInv, IsChan
<1>r. runner = "running"
  BY DEF Next, TickerFires, TimerFires, Tick, StartInterval, StartNewEpoch, StartNewEpochPanics,
     RunReturns, Stop, NewCollector, Close, Process, ForwardRequest, DropRequest, ForwardResponse,
     DropResponse, Arrives, ProcessOther, CheckEpoch, vars
<1>p. /\ LastTick <= now /\ now <= nextTick
      /\ estimate <= EpochTime
      /\ LastTick - EpochTime <= intervalStart
      /\ tickC = <<>> /\ timerDue = <<>> /\ timerC = <<>> => LastTick <= intervalStart
      /\ tickC # <<>> => now = LastTick /\ timerDue = <<>> /\ timerC = <<>>
      /\ timerDue # <<>> => tickC = <<>> /\ timerC = <<>> /\ now <= timerDue[1] /\ Slot(timerDue[1])
      /\ timerC # <<>> => tickC = <<>> /\ timerDue = <<>> /\ timerC[1] = now /\ Slot(now)
  BY <1>r DEF PaceInv
<1> USE DEF LastTick
<1>1. CASE TickerFires
  <2>1. /\ now >= nextTick /\ nextTick' = nextTick + EpochTime /\ tickC' # <<>>
        /\ UNCHANGED <<now, timerDue, timerC, estimate, intervalStart, active, firstEstimate>>
    BY <1>1 DEF TickerFires, sampleVars
  <2>2. tickC = <<>> /\ timerDue = <<>> /\ timerC = <<>>
    BY <1>t, <1>p, <2>1 DEF Slot
  <2> QED
    BY <1>t, <1>p, <2>1, <2>2
<1>2. CASE TimerFires
  <2>1. /\ timerDue # <<>> /\ now >= timerDue[1] /\ timerDue' = <<>>
        /\ UNCHANGED <<now, nextTick, tickC, estimate, intervalStart, active, firstEstimate>>
    BY <1>2 DEF TimerFires, sampleVars
  <2>2. tickC = <<>> /\ timerC = <<>> /\ now = timerDue[1]
    BY <1>t, <1>p, <2>1
  <2>3. timerC' = <<now>>
    BY <1>2, <2>2 DEF TimerFires
  <2>4. Slot(now)'
    BY <1>p, <2>1, <2>2 DEF Slot
  <2> QED
    BY <1>t, <1>p, <2>1, <2>2, <2>3, <2>4
<1>3. CASE Tick
  <2>1. /\ now' = now + 1
        /\ UNCHANGED <<nextTick, tickC, timerDue, timerC, estimate, intervalStart, active, firstEstimate>>
        /\ ~ Pending
    BY <1>3 DEF Tick, sampleVars
  <2>2. now < nextTick /\ tickC = <<>> /\ timerC = <<>> /\ (timerDue # <<>> => now < timerDue[1])
    BY <1>t, <1>r, <2>1 DEF Pending
  <2>3. timerDue # <<>> => Slot(timerDue[1])'
    BY <1>p, <2>1 DEF Slot
  <2> QED
    BY <1>t, <1>p, <2>1, <2>2, <2>3
<1>4. CASE StartInterval
  <2>1. /\ timerC # <<>> /\ timerC' = <<>> /\ intervalStart' = timerC[1]
        /\ UNCHANGED <<now, nextTick, tickC, timerDue, estimate, firstEstimate>>
    BY <1>4 DEF StartInterval
  <2> QED
    BY <1>t, <1>p, <2>1
<1>5. CASE StartNewEpoch
  <2>1. PICK offset \in StartOffsets : timerDue' = <<now + offset>>
    BY <1>5 DEF StartNewEpoch
  <2>2. /\ tickC # <<>> /\ tickC' = <<>>
        /\ UNCHANGED <<now, nextTick, timerC, estimate, intervalStart, active, firstEstimate>>
    BY <1>5 DEF StartNewEpoch, sampleVars
  <2>3. offset \in Nat /\ offset < EpochTime
        /\ IF firstEstimate THEN offset = 0 ELSE offset < EpochTime - estimate
    BY <1>t, <2>1 DEF StartOffsets
  <2>4. now = LastTick /\ timerC = <<>>
    BY <1>p, <2>2
  <2>5. timerDue' # <<>> /\ timerDue'[1] = now + offset
    BY <2>1
  <2>6. Slot(timerDue[1])'
    <3>1. LastTick <= now + offset /\ now + offset < nextTick
          /\ IF firstEstimate THEN now + offset = LastTick ELSE now + offset < nextTick - estimate
      <4>1. CASE firstEstimate
        BY <1>t, <2>3, <2>4, <4>1
      <4>2. CASE ~ firstEstimate
        BY <1>t, <2>3, <2>4, <4>2
      <4> QED
        BY <4>1, <4>2
    <3> QED
      BY <2>2, <2>5, <3>1 DEF Slot
  <2> QED
    BY <1>t, <1>p, <2>2, <2>3, <2>4, <2>5, <2>6
<1>6. ASSUME UNCHANGED <<now, nextTick, tickC, timerDue, timerC, intervalStart>>, estimate' <= EpochTime,
             active' => active /\ UNCHANGED <<estimate, firstEstimate>>
      PROVE  PaceInv'
  <2>1. \A t \in Nat : Slot(t) => /\ LastTick' <= t /\ t < nextTick'
                                  /\ active' => IF firstEstimate' THEN t = LastTick' ELSE t < nextTick' - estimate'
    BY <1>6 DEF Slot
  <2>2. timerDue # <<>> => Slot(timerDue[1])'
    BY <1>t, <1>p, <1>6, <2>1 DEF Slot
  <2>3. timerC # <<>> => Slot(now)'
    BY <1>t, <1>p, <1>6, <2>1 DEF Slot
  <2> QED
    BY <1>p, <1>6, <2>2, <2>3 DEF PaceInv
<1>7. ASSUME UNCHANGED <<now, nextTick, tickC, timerDue, timerC, sampleVars>>
      PROVE  PaceInv'
  BY <1>p, <1>6, <1>7 DEF sampleVars
<1>8. ASSUME NEW c \in Collectors, NEW k \in Keys, ForwardRequest(c, k)
      PROVE  PaceInv'
  <2>1. AllowHTTPRequest /\ UNCHANGED <<now, nextTick, tickC, timerDue, timerC>>
    BY <1>8 DEF ForwardRequest, Arrives, timeVars
  <2>2. estimate' <= EpochTime
    BY <1>r, <2>1, EstimateStep
  <2>3. intervalStart' = intervalStart
    BY <1>t, <2>1, AllowType
  <2>4. active' => active /\ UNCHANGED <<estimate, firstEstimate>>
    BY <2>1 DEF AllowHTTPRequest, EndInterval
  <2> QED
    BY <1>6, <2>1, <2>2, <2>3, <2>4
<1>9. ASSUME NEW c \in Collectors,
             \/ NewCollector(c) \/ Close(c) \/ ProcessOther(c) \/ CheckEpoch(c)
             \/ \E k \in Keys : DropRequest(c, k) \/ ForwardResponse(c, k) \/ DropResponse(c, k)
      PROVE  PaceInv'
  <2>1. UNCHANGED <<now, nextTick, tickC, timerDue, timerC, sampleVars>>
    BY <1>9 DEF NewCollector, Close, ProcessOther, CheckEpoch, DropRequest, ForwardResponse,
       DropResponse, Arrives, timeVars
  <2> QED
    BY <1>7, <2>1
<1>10. CASE Stop \/ UNCHANGED vars
  <2>1. UNCHANGED <<now, nextTick, tickC, timerDue, timerC, sampleVars>>
    BY <1>10 DEF Stop, vars, timeVars
  <2> QED
    BY <1>7, <2>1 DEF PaceInv
<1>11. ~ StartNewEpochPanics /\ ~ RunReturns
  BY DEF StartNewEpochPanics, RunReturns
<1> QED
  BY <1>1, <1>2, <1>3, <1>4, <1>5, <1>8, <1>9, <1>10, <1>11 DEF Next, Process, PaceInv

(* How run() may have ended: by Stop, or by a panic at an estimate of a    *)
(* whole epoch, which leaves the shared state as it was.                   *)
EndInv ==
  /\ runner = "exited" => done
  /\ runner = "panicked" => /\ now - intervalStart < 2 * EpochTime
                            /\ ~ firstEstimate /\ estimate = EpochTime

(* The pace in numbers, while run() runs. *)
LEMMA PaceBound ==
  ASSUME TypeOK, ClockInv, PaceInv, runner = "running"
  PROVE  now - intervalStart < 2 * EpochTime /\ estimate <= EpochTime
<1>1. /\ now \in Nat /\ nextTick \in Nat /\ intervalStart \in Nat
      /\ EpochTime \in Nat \ {0} /\ timerDue \in Seq(Nat)
  BY RateAssumption DEF TypeOK, IsChan
<1>2. /\ LastTick <= now /\ now <= nextTick /\ LastTick - EpochTime <= intervalStart
      /\ estimate <= EpochTime /\ LastTick = nextTick - EpochTime
  BY DEF PaceInv, LastTick
<1>3. now < nextTick \/ LastTick <= intervalStart
  <2>1. CASE tickC = <<>> /\ timerDue = <<>> /\ timerC = <<>>
    BY <2>1 DEF PaceInv
  <2>2. CASE tickC # <<>>
    BY <1>1, <1>2, <2>2 DEF PaceInv
  <2>3. CASE timerDue # <<>>
    <4>1. timerDue[1] \in Nat /\ now <= timerDue[1] /\ timerDue[1] < nextTick
      BY <1>1, <2>3 DEF PaceInv, Slot
    <4> QED
      BY <1>1, <4>1
  <2>4. CASE timerC # <<>>
    BY <2>4 DEF PaceInv, Slot
  <2> QED
    BY <2>1, <2>2, <2>3, <2>4
<1> QED
  BY <1>1, <1>2, <1>3

(* EndInv is preserved: after a panic no action of the program is left. *)
LEMMA EndStep ==
  ASSUME TypeOK, ClockInv, PaceInv, EndInv, [Next]_vars
  PROVE  EndInv'
<1>t. estimate \in Nat /\ EpochTime \in Nat \ {0}
  BY RateAssumption DEF TypeOK
<1>1. CASE StartNewEpochPanics
  <2>1. StartOffsets = {} /\ runner = "running" /\ runner' = "panicked"
        /\ UNCHANGED <<now, intervalStart, estimate, firstEstimate>>
    BY <1>1 DEF StartNewEpochPanics, timeVars, sampleVars
  <2>2. ~ firstEstimate
    BY <2>1 DEF StartOffsets
  <2>3. 0 \notin 0..(EpochTime - estimate - 1)
    BY <2>1, <2>2 DEF StartOffsets
  <2>4. estimate >= EpochTime
    BY <1>t, <2>3
  <2> QED
    BY <1>t, <2>1, <2>2, <2>4, PaceBound DEF EndInv
<1>2. CASE RunReturns
  BY <1>2 DEF RunReturns, EndInv
<1>3. CASE Stop
  BY <1>3 DEF Stop, EndInv, timeVars, sampleVars, Alive
<1>4. CASE UNCHANGED vars
  BY <1>4 DEF vars, EndInv, timeVars, sampleVars
<1>5. ASSUME ~ StartNewEpochPanics, ~ RunReturns, ~ Stop, Next
      PROVE  EndInv'
  <2>1. UNCHANGED <<runner, done>> /\ runner # "panicked"
    BY <1>5 DEF Next, TickerFires, TimerFires, Tick, StartInterval, StartNewEpoch, NewCollector,
       Close, Process, ForwardRequest, DropRequest, ForwardResponse, DropResponse, Arrives,
       ProcessOther, CheckEpoch, Alive
  <2> QED
    BY <2>1 DEF EndInv
<1> QED
  BY <1>1, <1>2, <1>3, <1>4, <1>5

(* With a scheduler that reacts within one time unit, run() starts a       *)
(* sampling interval in every epoch until Stop (startNewEpoch,             *)
(* startInterval), unless the estimate has grown to exactly one epoch: at  *)
(* no other estimate does Int63n panic (endInterval).                      *)
THEOREM SamplingTheorem == ASSUME Prompt PROVE Spec => []SamplesUntilPanic
<1>1. Init => PaceInv /\ EndInv
  <2> SUFFICES ASSUME Init PROVE PaceInv /\ EndInv
    OBVIOUS
  <2>1. /\ now = 0 /\ intervalStart = 0 /\ estimate = 0 /\ nextTick = EpochTime
        /\ tickC = <<>> /\ timerC = <<>> /\ timerDue # <<>> /\ timerDue[1] = 0
        /\ active = FALSE /\ EpochTime \in Nat \ {0} /\ runner = "running"
    BY RateAssumption DEF Init
  <2> QED
    BY <2>1 DEF PaceInv, EndInv, LastTick, Slot
<1>2. TypeOK /\ ClockInv /\ PaceInv /\ EndInv /\ [Next]_vars => PaceInv' /\ EndInv'
  BY PaceStep, EndStep
<1>3. TypeOK /\ ClockInv /\ PaceInv /\ EndInv => SamplesUntilPanic
  <2> SUFFICES ASSUME TypeOK, ClockInv, PaceInv, EndInv PROVE SamplesUntilPanic
    OBVIOUS
  <2>1. estimate \in Nat /\ EpochTime \in Nat /\ runner \in {"running", "exited", "panicked"}
    BY RateAssumption DEF TypeOK
  <2>2. runner = "running" => now - intervalStart < 2 * EpochTime /\ estimate <= EpochTime
    BY PaceBound
  <2> QED
    BY <2>1, <2>2 DEF SamplesUntilPanic, SamplesEveryEpoch, EndInv
<1> QED
  BY <1>1, <1>2, <1>3, TypeCorrect, PTL DEF Spec
=============================================================================
