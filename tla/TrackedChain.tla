---------------------------- MODULE TrackedChain ----------------------------
(***************************************************************************)
(* The collectors of one capture that hold connection state, composed: the *)
(* TCP tracker in front of the TLS tracker (TLSConnTracker) in front of    *)
(* the rate limiter's collector and the sink.                              *)
(*                                                                         *)
(*   tcp_conn_tracker -> tls_conn_tracker -> rateLimitCollector -> sink    *)
(*                                                                         *)
(* The capture goroutine calls Process and then Close.  A TCP timer's      *)
(* goroutine flushes its connection: it holds the TCP tracker's mutex      *)
(* while the summary goes all the way down.  TLS packets and HTTP content  *)
(* go down without that mutex, so that two goroutines can be in            *)
(* rateLimitCollector.Process, whose map RequestArrivalTimes has no lock.  *)
(* A Go map that is changed while another goroutine ranges over it may end *)
(* the process; whether it does is open.  The facts of a summary and the   *)
(* times of TCP timers are in TCPConnTracker; the sampling intervals and   *)
(* expiry thresholds in RateLimit: here any answer of theirs is possible.  *)
(***************************************************************************)
EXTENDS TLSConnTracker

CONSTANTS
  TCPConns,   \* connections the TCP tracker sees
  Keys,       \* request keys; a request and a response each
  MaxEpochs,  \* bound on the epochs of the rate limiter
  MaxInputs   \* bound on the packets of a behaviour

ASSUME ChainAssumption == {MaxEpochs, MaxInputs} \subseteq Nat /\ "capture" \notin TCPConns /\ "none" \notin TCPConns

Goroutines == {"capture"} \cup TCPConns   \* a timer's goroutine is its connection
Items == [kind : {"request", "response"}, key : Keys]
Other == [kind |-> "other"]                  \* TCP packets and summaries
Handshake == [kind |-> "handshake"]          \* TLSHandshakeMetadata

VARIABLES
  tcpActive,   \* TCP tracker: activeConnections
  tcpFired,    \* connections whose timer has fired and not yet done its work
  closing,     \* the capture goroutine has called Close
  tcpClosed,   \* TCP tracker: closed
  tcpMutex,    \* TCP tracker: who holds mutex
  toFlush,     \* connections close() has yet to send down
  at,          \* where each goroutine is in rateLimitCollector.Process
  arrivals,    \* keys of RequestArrivalTimes
  epochCh,     \* an epoch waits in the collector's channel
  epochs,      \* epochs announced
  items,       \* history: HTTP items that arrived
  inputs,      \* history: packets that arrived
  sinkClosed,  \* the sink is closed
  late,        \* history: the sink was called after it was closed
  crashed      \* the Go runtime found the map in use by two goroutines

tlsVars  == <<now, active, hellos, life, timers, callbacks, closed, received, reported>>
tcpVars  == <<tcpActive, tcpFired, closing, tcpClosed, tcpMutex, toFlush>>
rateVars == <<arrivals, epochCh, epochs>>
sinkVars == <<items, inputs, sinkClosed, late>>
chainVars == <<tlsVars, tcpVars, at, rateVars, sinkVars, crashed>>

Out == [pc |-> "out", item |-> Other, todo |-> {}]

ChainInit ==
  /\ Init
  /\ tcpActive = {} /\ tcpFired = {} /\ closing = FALSE /\ tcpClosed = FALSE
  /\ tcpMutex = "none" /\ toFlush = {}
  /\ at = [g \in Goroutines |-> Out]
  /\ arrivals = {} /\ epochCh = FALSE /\ epochs = 0
  /\ items = {} /\ inputs = 0 /\ sinkClosed = FALSE /\ late = FALSE
  /\ crashed = FALSE

Enters(g, item) == at' = [at EXCEPT ![g] = [pc |-> "decide", item |-> item, todo |-> {}]]
GoesTo(g, pc)   == at' = [at EXCEPT ![g].pc = pc]
Idle == at["capture"].pc = "out" /\ ~ closing
Arrives == Idle /\ inputs < MaxInputs /\ inputs' = inputs + 1

-----------------------------------------------------------------------------
(* rateLimitCollector.Process, called by goroutine g *)

(* Using the map while another goroutine ranges over it: the runtime may   *)
(* notice, and the process ends.                                           *)
MapInUse(g) == \E h \in Goroutines \ {g} : at[h].pc = "expire"
UsesMap(g)  == crashed' \in (IF MapInUse(g) THEN BOOLEAN ELSE {FALSE})

(* The switch: AllowHTTPRequest, the look-up of the request, AllowOther. *)
Decide(g) ==
  /\ at[g].pc = "decide"
  /\ IF at[g].item.kind = "response"
     THEN LET key == at[g].item.key IN
          /\ UsesMap(g)
          /\ GoesTo(g, IF key \in arrivals THEN "forward" ELSE "select")
          /\ arrivals' = arrivals \ {key}
     ELSE /\ \E allow \in BOOLEAN : GoesTo(g, IF allow THEN "forward" ELSE "select")
          /\ UNCHANGED <<arrivals, crashed>>
  /\ UNCHANGED <<tlsVars, tcpVars, epochCh, epochs, sinkVars>>

(* NextCollector.Process, down to the sink. *)
Forward(g) ==
  /\ at[g].pc = "forward"
  /\ GoesTo(g, IF at[g].item.kind = "request" THEN "record" ELSE "select")
  /\ late' = (late \/ sinkClosed)
  /\ UNCHANGED <<tlsVars, tcpVars, rateVars, items, inputs, sinkClosed, crashed>>

Record(g) ==
  /\ at[g].pc = "record"
  /\ UsesMap(g)
  /\ arrivals' = arrivals \cup {at[g].item.key}
  /\ GoesTo(g, "select")
  /\ UNCHANGED <<tlsVars, tcpVars, epochCh, epochs, sinkVars>>

(* Mutant: a flush does not release the mutex. *)
LeavesLocked(g) ==
  /\ at' = [at EXCEPT ![g] = Out]
  /\ tcpMutex' = IF g = "capture" /\ tcpMutex = "capture" /\ toFlush = {} THEN "none" ELSE tcpMutex
  /\ tcpActive' = tcpActive \ {g} /\ tcpFired' = tcpFired \ {g}
  /\ UNCHANGED <<closing, tcpClosed, toFlush>>

(* The goroutine comes back up the chain.  A flush deletes its connection; *)
(* the mutex is released, unless close() has more connections to send.     *)
Leaves(g) ==
  /\ at' = [at EXCEPT ![g] = Out]
  /\ tcpMutex' = IF tcpMutex = g /\ toFlush = {} THEN "none" ELSE tcpMutex
  /\ tcpActive' = tcpActive \ {g} /\ tcpFired' = tcpFired \ {g}
  /\ UNCHANGED <<closing, tcpClosed, toFlush>>

(* The select on epochCh; expireRequests ranges over the map. *)
Select(g) ==
  /\ at[g].pc = "select"
  /\ IF epochCh
     THEN at' = [at EXCEPT ![g].pc = "expire", ![g].todo = arrivals] /\ UNCHANGED tcpVars
     ELSE Leaves(g)
  /\ epochCh' = FALSE
  /\ UNCHANGED <<tlsVars, arrivals, epochs, sinkVars, crashed>>

ExpireRequest(g) ==
  /\ at[g].pc = "expire"
  /\ \E k \in at[g].todo :
       /\ at' = [at EXCEPT ![g].todo = @ \ {k}]
       /\ \/ UNCHANGED <<arrivals, crashed>>          \* not before the threshold
          \/ arrivals' = arrivals \ {k} /\ UsesMap(g)
  /\ UNCHANGED <<tlsVars, tcpVars, epochCh, epochs, sinkVars>>

Expired(g) ==
  /\ at[g].pc = "expire" /\ at[g].todo = {}
  /\ Leaves(g)
  /\ UNCHANGED <<tlsVars, rateVars, sinkVars, crashed>>

InProcess(g) == Decide(g) \/ Forward(g) \/ Record(g) \/ Select(g) \/ ExpireRequest(g) \/ Expired(g)

(* startNewEpoch sends to the collector's channel if it is empty. *)
Epoch ==
  /\ epochs < MaxEpochs /\ epochs' = epochs + 1
  /\ epochCh' = TRUE
  /\ UNCHANGED <<tlsVars, tcpVars, at, arrivals, sinkVars, crashed>>

-----------------------------------------------------------------------------
(* The TCP tracker *)

(* TCP packet metadata of a connection with an entry go on down the chain  *)
(* under the mutex, others make an entry with a timer.                     *)
TCPPacket(c) ==
  /\ Arrives /\ tcpMutex = "none"
  /\ IF c \in tcpActive
     THEN tcpMutex' = "capture" /\ Enters("capture", Other) /\ UNCHANGED tcpActive
     ELSE tcpActive' = tcpActive \cup {c} /\ UNCHANGED <<tcpMutex, at>>
  /\ UNCHANGED <<tlsVars, tcpFired, closing, tcpClosed, toFlush, rateVars, items, sinkClosed, late, crashed>>

(* Everything that is not TCP packet metadata goes down without the mutex. *)
HTTPArrives(i) ==
  /\ Arrives /\ i \notin items
  /\ items' = items \cup {i}
  /\ Enters("capture", i)
  /\ UNCHANGED <<tlsVars, tcpVars, rateVars, sinkClosed, late, crashed>>

TCPTimerFires(c) ==
  /\ c \in tcpActive /\ c \notin tcpFired
  /\ tcpFired' = tcpFired \cup {c}
  /\ UNCHANGED <<tlsVars, tcpActive, closing, tcpClosed, tcpMutex, toFlush, at, rateVars, sinkVars, crashed>>

(* Mutant: the mutex is released before the summary is sent. *)
FlushBeginUnlocked(c) ==
  /\ c \in tcpFired /\ tcpMutex = "none" /\ at[c].pc = "out"
  /\ IF c \in tcpActive
     THEN Enters(c, Other) /\ tcpActive' = tcpActive \ {c} /\ UNCHANGED <<tcpMutex, tcpFired>>
     ELSE tcpFired' = tcpFired \ {c} /\ UNCHANGED <<tcpMutex, at, tcpActive>>
  /\ UNCHANGED <<tlsVars, closing, tcpClosed, toFlush, rateVars, sinkVars, crashed>>

(* flushConnection: the timer's goroutine gets the mutex. *)
FlushBegin(c) ==
  /\ c \in tcpFired /\ tcpMutex = "none" /\ at[c].pc = "out"
  /\ IF c \in tcpActive
     THEN Enters(c, Other) /\ tcpMutex' = c /\ UNCHANGED <<tcpActive, tcpFired>>
     ELSE tcpFired' = tcpFired \ {c} /\ UNCHANGED <<tcpMutex, at, tcpActive>>
  /\ UNCHANGED <<tlsVars, closing, tcpClosed, toFlush, rateVars, sinkVars, crashed>>

(* Close is called; it waits for the mutex. *)
CloseCalled ==
  /\ Idle /\ closing' = TRUE
  /\ UNCHANGED <<tlsVars, tcpActive, tcpFired, tcpClosed, tcpMutex, toFlush, at, rateVars, sinkVars,
                 crashed>>

(* close(): under the mutex, every connection is sent down in turn and its *)
(* timer stopped.                                                          *)
TCPClose ==
  /\ closing /\ ~ tcpClosed /\ tcpMutex = "none"
  /\ tcpClosed' = TRUE
  /\ toFlush' = tcpActive /\ tcpActive' = {}
  /\ tcpMutex' = IF tcpActive = {} THEN "none" ELSE "capture"
  /\ UNCHANGED <<tlsVars, tcpFired, closing, at, rateVars, sinkVars, crashed>>

CloseFlushes(c) ==
  /\ c \in toFlush /\ at["capture"].pc = "out"
  /\ toFlush' = toFlush \ {c}
  /\ Enters("capture", Other)
  /\ UNCHANGED <<tlsVars, tcpActive, tcpFired, closing, tcpClosed, tcpMutex, rateVars, sinkVars, crashed>>

-----------------------------------------------------------------------------
(* The TLS tracker *)

HandshakeSent == reported' # reported

(* A hello; a completed handshake goes down while the TLS mutex is held. *)
TLSHello(c, h) ==
  /\ Arrives
  /\ ProcessHello(c, h) \/ ProcessBadHello(c, h)
  /\ IF HandshakeSent THEN Enters("capture", Handshake) ELSE UNCHANGED at
  /\ UNCHANGED <<tcpVars, rateVars, items, sinkClosed, late, crashed>>

TLSMutexFree == at["capture"].item # Handshake \/ at["capture"].pc = "out"

TLSTimer ==
  /\ \/ Tick
     \/ \E t \in timers : TimerFires(t)
     \/ TLSMutexFree /\ \E b \in callbacks : DropConnection(b)
  /\ UNCHANGED <<tcpVars, at, rateVars, sinkVars, crashed>>

(* Close of the TLS tracker, and under its mutex of all that is behind. *)
CloseDownstream ==
  /\ tcpClosed /\ toFlush = {} /\ at["capture"].pc = "out"
  /\ Close
  /\ sinkClosed' = TRUE
  /\ UNCHANGED <<tcpVars, at, rateVars, items, inputs, late, crashed>>

-----------------------------------------------------------------------------
CaptureStep == InProcess("capture") \/ TCPClose \/ CloseDownstream
               \/ \E c \in TCPConns : CloseFlushes(c)

ChainNext ==
  /\ ~ crashed
  /\ \/ CaptureStep \/ TLSTimer \/ CloseCalled \/ Epoch
     \/ \E c \in TCPConns : TCPPacket(c) \/ TCPTimerFires(c) \/ FlushBegin(c) \/ InProcess(c)
     \/ \E c \in Conns, h \in Hellos : TLSHello(c, h)
     \/ \E i \in Items : HTTPArrives(i)

ChainSpec == ChainInit /\ [][ChainNext]_chainVars

(* Goroutines in the chain go on and TLS timers do their work; packets,    *)
(* epochs and Close need not come, nor TCP timers get the mutex.           *)
ChainFairSpec ==
  /\ ChainSpec
  /\ WF_chainVars(~ crashed /\ CaptureStep)
  /\ WF_chainVars(~ crashed /\ TLSTimer)
  /\ \A c \in TCPConns : WF_chainVars(~ crashed /\ InProcess(c))

-----------------------------------------------------------------------------
InChain == {g \in Goroutines : at[g].pc # "out"}

(* The sink is not called after it was closed, although timers' goroutines *)
(* may be waiting or on their way down when Close begins                   *)
(* (flushConnection holds the mutex over its call, close waits for it).    *)
SinkNotCalledAfterClose == ~ late

(* At most two goroutines are in the chain, and of two one is the capture  *)
(* goroutine with something else than TCP, the other a flush that holds    *)
(* the TCP tracker's mutex: two timers never meet in RequestArrivalTimes,  *)
(* and without a flush under way the process does not die of it            *)
(* (rateLimitCollector.Process, expireRequests).                           *)
OnlyAFlushMeetsCapture ==
  /\ \A g, h \in InChain \cap TCPConns : g = h
  /\ \A g \in InChain \cap TCPConns : tcpMutex = g
  /\ InChain \cap TCPConns # {} /\ "capture" \in InChain =>
       at["capture"].item.kind \in {"request", "response", "handshake"}
  /\ crashed => \E g \in InChain \cap TCPConns : tcpMutex = g

(* What trackers and rate limiter may do to each other across goroutines. *)
ChainInv == SinkNotCalledAfterClose /\ OnlyAFlushMeetsCapture

(* Close comes to its end whatever flushes are waiting or under way, and   *)
(* so does every partial TLS handshake (Close, addConnection).             *)
TrackersFinish ==
  /\ closing ~> (sinkClosed \/ crashed)
  /\ \A c \in Conns : c \in active ~> (c \notin active \/ crashed)
=============================================================================
