------------------------- MODULE TrackedChainProofs -------------------------
(***************************************************************************)
(* Proofs about TrackedChain, for any connections, keys and bounds: what   *)
(* the TLS tracker keeps, and which goroutines can meet behind the         *)
(* trackers.                                                               *)
(***************************************************************************)
EXTENDS TrackedChain, TLAPS

(* A hello that arrives. *)
LEMMA HelloKeepsInv ==
  ASSUME HandshakeInv, NEW c \in Conns, NEW h \in Hellos,
         ProcessHello(c, h) \/ ProcessBadHello(c, h)
  PROVE  HandshakeInv'
<1> USE TLSAssumption DEF HandshakeInv
<1>0. /\ received' = [received EXCEPT ![c][h] = @ + 1]
      /\ EnsureConnection(c) /\ UNCHANGED <<now, callbacks, closed>>
  BY DEF ProcessHello, ProcessBadHello, Receive
<1>1. PICK hs \in SUBSET Hellos :
        /\ hs = EntryHellos(c) \/ hs = EntryHellos(c) \cup {h}
        /\ hellos' = [hellos EXCEPT ![c] = hs]
        /\ \/ hs = Hellos /\ active' = active \ {c} /\ reported' = [reported EXCEPT ![c] = @ + 1]
           \/ hs # Hellos /\ active' = active \cup {c} /\ UNCHANGED reported
  <2>1. EntryHellos(c) \in SUBSET Hellos /\ EntryHellos(c) # Hellos
    BY DEF EntryHellos, TypeOK, Hellos
  <2>2. CASE ProcessHello(c, h)
    <3>1. EntryHellos(c) \cup {h} \in SUBSET Hellos
      BY <2>1
    <3> QED
      BY <2>2, <3>1 DEF ProcessHello, HandshakeComplete, FlushConnection
  <2>3. CASE ProcessBadHello(c, h)
    BY <2>1, <2>3 DEF ProcessBadHello
  <2> QED
    BY <2>2, <2>3
<1>2. /\ life' \in [Conns -> Nat] /\ timers' \subseteq Conns \X Nat \X Nat
      /\ timers \subseteq timers'
      /\ c \notin active => \E t \in timers' : t[1] = c
  <2>1. CASE c \in active
    BY <1>0, <2>1 DEF EnsureConnection, TypeOK
  <2>2. CASE c \notin active
    <3>1. life[c] + 1 \in Nat /\ now + Timeout \in Nat
      BY DEF TypeOK
    <3>2. /\ life' = [life EXCEPT ![c] = life[c] + 1]
          /\ timers' = timers \cup {<<c, life[c] + 1, now + Timeout>>}
      BY <1>0, <2>2 DEF EnsureConnection
    <3>3. <<c, life[c] + 1, now + Timeout>> \in Conns \X Nat \X Nat
      BY <3>1
    <3>4. \E t \in timers' : t[1] = c
      <4>1. <<c, life[c] + 1, now + Timeout>> \in timers' /\ <<c, life[c] + 1, now + Timeout>>[1] = c
        BY <3>2
      <4> QED
        BY <4>1
    <3>5. life' \in [Conns -> Nat]
      BY <3>1, <3>2 DEF TypeOK
    <3> QED
      BY <3>2, <3>3, <3>4, <3>5 DEF TypeOK
  <2> QED
    BY <2>1, <2>2
<1>3. /\ received' \in [Conns -> [Hellos -> Nat]]
      /\ \A k \in Hellos : received'[c][k] = IF k = h THEN received[c][k] + 1 ELSE received[c][k]
      /\ \A d \in Conns \ {c} : received'[d] = received[d]
  BY <1>0 DEF TypeOK
<1>4. TypeOK'
  <2>1. hellos' \in [Conns -> SUBSET Hellos] /\ reported' \in [Conns -> Nat] /\ active' \subseteq Conns
    BY <1>1 DEF TypeOK
  <2>2. \A d \in active' : hellos'[d] # Hellos
    BY <1>1 DEF TypeOK
  <2> QED
    BY <1>0, <1>2, <1>3, <2>1, <2>2 DEF TypeOK
<1>5. HellosUsedOnce'
  <2> SUFFICES ASSUME NEW d \in Conns, NEW k \in Hellos
               PROVE  reported'[d] + (IF d \in active' /\ k \in hellos'[d] THEN 1 ELSE 0)
                        <= received'[d][k]
    BY DEF HellosUsedOnce
  <2>1. reported[d] \in Nat /\ received[d][k] \in Nat
        /\ reported[d] + (IF d \in active /\ k \in hellos[d] THEN 1 ELSE 0) <= received[d][k]
    BY DEF TypeOK, HellosUsedOnce
  <2>2. CASE d # c
    <3>1. /\ d \in active' <=> d \in active
          /\ hellos'[d] = hellos[d] /\ reported'[d] = reported[d] /\ received'[d] = received[d]
      BY <1>1, <1>3, <2>2 DEF TypeOK
    <3> QED
      BY <2>1, <3>1
  <2>3. CASE d = c
    <3>1. k \in hs => k = h \/ (c \in active /\ k \in hellos[c])
      BY <1>1 DEF EntryHellos
    <3>2. hellos'[c] = hs
      BY <1>1 DEF TypeOK
    <3>3. received'[c][k] = IF k = h THEN received[c][k] + 1 ELSE received[c][k]
      BY <1>3
    <3>4. CASE hs = Hellos /\ active' = active \ {c} /\ reported' = [reported EXCEPT ![c] = @ + 1]
      <4>1. reported'[c] = reported[c] + 1 /\ k \in hs /\ c \notin active'
        BY <3>4 DEF TypeOK
      <4> QED
        BY <2>1, <2>3, <3>1, <3>3, <4>1
    <3>5. CASE hs # Hellos /\ active' = active \cup {c} /\ UNCHANGED reported
      BY <2>1, <2>3, <3>1, <3>2, <3>3, <3>5
    <3> QED
      BY <1>1, <3>4, <3>5
  <2> QED
    BY <2>2, <2>3
<1>6. PartialHasTimer'
  <2> SUFFICES ASSUME NEW d \in active'
               PROVE  (\E t \in timers' : t[1] = d) \/ (\E b \in callbacks' : b[1] = d)
    BY DEF PartialHasTimer
  <2>1. d = c \/ d \in active
    BY <1>1
  <2>2. CASE d \in active
    BY <1>0, <1>2, <2>2 DEF PartialHasTimer
  <2>3. CASE d = c /\ c \notin active
    BY <1>2, <2>3
  <2> QED
    BY <2>1, <2>2, <2>3
<1> QED
  BY <1>4, <1>5, <1>6

(* The TLS tracker: no hello serves two handshakes, and every partial      *)
(* handshake has a timer or a waiting callback, although timers are        *)
(* neither reset nor stopped and a callback drops whatever entry its       *)
(* connection has by then.                                                 *)
THEOREM HandshakeTheorem == Spec => []HandshakeInv
<1>1. Init => HandshakeInv
  <2> SUFFICES ASSUME Init PROVE HandshakeInv
    OBVIOUS
  <2>1. received \in [Conns -> [Hellos -> Nat]] /\ life \in [Conns -> Nat] /\ reported \in [Conns -> Nat]
    BY DEF Init
  <2>2. TypeOK
    BY <2>1 DEF Init, TypeOK
  <2>3. HellosUsedOnce /\ PartialHasTimer
    BY DEF Init, HellosUsedOnce, PartialHasTimer
  <2> QED
    BY <2>2, <2>3 DEF HandshakeInv
<1>2. HandshakeInv /\ [Next]_vars => HandshakeInv'
  <2> SUFFICES ASSUME HandshakeInv, [Next]_vars PROVE HandshakeInv'
    OBVIOUS
  <2>1. CASE Tick
    BY <2>1 DEF Tick, HandshakeInv, TypeOK, HellosUsedOnce, PartialHasTimer
  <2>2. CASE Close
    BY <2>2 DEF Close, HandshakeInv, TypeOK, HellosUsedOnce, PartialHasTimer
  <2>3. ASSUME NEW c \in Conns, NEW h \in Hellos, ProcessHello(c, h) \/ ProcessBadHello(c, h)
        PROVE  HandshakeInv'
    BY <2>3, HelloKeepsInv
  <2>4. ASSUME NEW t \in timers, TimerFires(t)
        PROVE  HandshakeInv'
    <3>1. TypeOK' /\ HellosUsedOnce'
      BY <2>4 DEF TimerFires, HandshakeInv, TypeOK, HellosUsedOnce
    <3>2. PartialHasTimer'
      <4> SUFFICES ASSUME NEW c \in active
                   PROVE  (\E u \in timers' : u[1] = c) \/ (\E b \in callbacks' : b[1] = c)
        BY <2>4 DEF TimerFires, PartialHasTimer
      <4>1. CASE \E b \in callbacks : b[1] = c
        BY <2>4, <4>1 DEF TimerFires
      <4>2. CASE t[1] = c
        <5>1. <<t[1], t[2]>> \in callbacks' /\ <<t[1], t[2]>>[1] = c
          BY <2>4, <4>2 DEF TimerFires
        <5> QED
          BY <5>1
      <4>3. CASE \E u \in timers : u[1] = c /\ u # t
        BY <2>4, <4>3 DEF TimerFires
      <4> QED
        BY <4>1, <4>2, <4>3 DEF HandshakeInv, PartialHasTimer
    <3> QED
      BY <3>1, <3>2 DEF HandshakeInv
  <2>5. ASSUME NEW b \in callbacks, DropConnection(b)
        PROVE  HandshakeInv'
    BY <2>5 DEF DropConnection, HandshakeInv, TypeOK, HellosUsedOnce, PartialHasTimer
  <2>6. CASE UNCHANGED vars
    BY <2>6 DEF vars, HandshakeInv, TypeOK, HellosUsedOnce, PartialHasTimer
  <2> QED
    BY <2>1, <2>2, <2>3, <2>4, <2>5, <2>6 DEF Next
<1> QED
  BY <1>1, <1>2, PTL DEF Spec

(* In the chain the TLS tracker does nothing it would not do by itself:    *)
(* the composition implements TLSConnTracker, so that what holds of the    *)
(* tracker holds behind the TCP tracker and in front of the rate limiter.  *)
THEOREM ChainKeepsTLS == ChainSpec => Spec /\ []HandshakeInv
<1>1. ChainInit => Init
  BY DEF ChainInit
<1>2. [ChainNext]_chainVars => [Next]_vars
  <2> USE DEF tlsVars, vars
  <2>1. ASSUME NEW g, InProcess(g) PROVE UNCHANGED vars
    BY <2>1 DEF InProcess, Decide, Forward, Record, Select, ExpireRequest, Expired
  <2>2. ASSUME NEW c, TCPPacket(c) \/ TCPTimerFires(c) \/ FlushBegin(c) \/ CloseFlushes(c)
        PROVE  UNCHANGED vars
    BY <2>2 DEF TCPPacket, TCPTimerFires, FlushBegin, CloseFlushes
  <2>3. CASE TCPClose \/ CloseCalled \/ Epoch
    BY <2>3 DEF TCPClose, CloseCalled, Epoch
  <2>4. ASSUME NEW i, HTTPArrives(i) PROVE UNCHANGED vars
    BY <2>4 DEF HTTPArrives
  <2>5. ASSUME NEW c \in Conns, NEW h \in Hellos, TLSHello(c, h) PROVE Next
    BY <2>5 DEF TLSHello, Next
  <2>6. CASE TLSTimer
    BY <2>6 DEF TLSTimer, Next
  <2>7. CASE CloseDownstream
    BY <2>7 DEF CloseDownstream, Next
  <2>8. CASE UNCHANGED chainVars
    BY <2>8 DEF chainVars
  <2> QED
    BY <2>1, <2>2, <2>3, <2>4, <2>5, <2>6, <2>7, <2>8 DEF ChainNext, CaptureStep
<1> QED
  BY <1>1, <1>2, HandshakeTheorem, PTL DEF Spec, ChainSpec

-----------------------------------------------------------------------------
(* The strengthening of ChainInv *)

Positions == [pc : {"out", "decide", "forward", "record", "select", "expire"},
              item : Items \cup {Other, Handshake}, todo : SUBSET Keys]

ChainTypes ==
  /\ tcpActive \subseteq TCPConns /\ tcpFired \subseteq TCPConns /\ toFlush \subseteq TCPConns
  /\ tcpMutex \in Goroutines \cup {"none"}
  /\ at \in [Goroutines -> Positions]
  /\ arrivals \subseteq Keys
  /\ \A g \in Goroutines : at[g].pc = "record" => at[g].item.kind = "request"

(* Who is in the chain with something of the TCP tracker's holds its       *)
(* mutex, and close() holds it until everything is flushed.                *)
MutexInv ==
  /\ \A g \in InChain \cap TCPConns : tcpMutex = g /\ at[g].item = Other
  /\ "capture" \in InChain /\ at["capture"].item = Other => tcpMutex = "capture"
  /\ toFlush # {} => tcpMutex = "capture"

(* The stages of Close: none of the TCP tracker's goroutines is or comes   *)
(* into the chain after close(), none at all when the sink is closed.      *)
ClosingInv ==
  /\ closing /\ ~tcpClosed => "capture" \notin InChain
  /\ tcpClosed => closing /\ tcpActive = {} /\ InChain \cap TCPConns = {}
  /\ sinkClosed => tcpClosed /\ toFlush = {} /\ "capture" \notin InChain
  /\ toFlush # {} => tcpClosed

CrashInv == crashed => \E g \in InChain \cap TCPConns : tcpMutex = g

ChainIInv == ChainTypes /\ MutexInv /\ ClosingInv /\ CrashInv /\ ~late
(* "capture" is the name of one goroutine, "none" of no goroutine. *)
LEMMA Names == /\ "capture" \in Goroutines /\ TCPConns \subseteq Goroutines
               /\ "capture" \notin TCPConns /\ "none" \notin Goroutines
               /\ \A g \in Goroutines : g = "capture" \/ g \in TCPConns
BY ChainAssumption DEF Goroutines

(* A goroutine takes a step inside rateLimitCollector.Process. *)
LEMMA MovesInChain ==
  ASSUME ChainIInv, NEW g \in Goroutines, at[g].pc # "out",
         NEW r, r \in Positions, at' = [at EXCEPT ![g] = r],
         r.pc # "out", r.item = at[g].item, r.pc = "record" => r.item.kind = "request",
         UNCHANGED <<tcpVars, sinkClosed>>, ~late', arrivals' \subseteq Keys,
         crashed' => MapInUse(g)
  PROVE  ChainIInv'
<1> USE DEF ChainIInv, tcpVars
<1>1. /\ \A h \in Goroutines : at'[h].item = at[h].item
      /\ \A h \in Goroutines \ {g} : at'[h] = at[h]
      /\ at'[g] = r
  BY DEF ChainTypes
<1>2. InChain' = InChain
  BY <1>1 DEF InChain
<1>3. ChainTypes'
  BY <1>1 DEF ChainTypes
<1>4. MutexInv' /\ ClosingInv'
  BY <1>1, <1>2, Names DEF MutexInv, ClosingInv
<1>5. CrashInv'
  <2> SUFFICES ASSUME crashed' PROVE \E h \in InChain \cap TCPConns : tcpMutex = h
    BY <1>2 DEF CrashInv
  <2>1. PICK h \in Goroutines \ {g} : at[h].pc = "expire"
    BY DEF MapInUse
  <2>2. g \in InChain /\ h \in InChain
    BY <2>1 DEF InChain
  <2> QED
    BY <2>1, <2>2, Names DEF MutexInv
<1> QED
  BY <1>3, <1>4, <1>5

(* A goroutine comes back up and releases what it held. *)
LEMMA LeavesChain ==
  ASSUME ChainIInv, NEW g \in Goroutines, at[g].pc # "out", Leaves(g),
         UNCHANGED <<sinkClosed, late, arrivals, crashed>>, ~crashed
  PROVE  ChainIInv'
<1> USE DEF ChainIInv
<1>0. /\ at' = [at EXCEPT ![g] = Out]
      /\ tcpMutex' = IF tcpMutex = g /\ toFlush = {} THEN "none" ELSE tcpMutex
      /\ tcpActive' = tcpActive \ {g} /\ tcpFired' = tcpFired \ {g}
      /\ UNCHANGED <<closing, tcpClosed, toFlush>>
  BY DEF Leaves
<1>1. Out \in Positions /\ Out.pc = "out"
  BY DEF Out, Positions
<1>2. /\ \A h \in Goroutines \ {g} : at'[h] = at[h]
      /\ at'[g] = Out
  BY <1>0 DEF ChainTypes
<1>3. InChain' = InChain \ {g}
  BY <1>1, <1>2 DEF InChain
<1>4. ChainTypes'
  <2>1. at' \in [Goroutines -> Positions]
    BY <1>0, <1>1 DEF ChainTypes
  <2>2. \A h \in Goroutines : at'[h].pc = "record" => at'[h].item.kind = "request"
    BY <1>1, <1>2 DEF ChainTypes
  <2> QED
    BY <1>0, <2>1, <2>2 DEF ChainTypes
<1>5. MutexInv'
  BY <1>0, <1>2, <1>3, Names DEF MutexInv, InChain
<1>6. ClosingInv' /\ CrashInv'
  BY <1>0, <1>3 DEF ClosingInv, CrashInv
<1> QED
  BY <1>4, <1>5, <1>6

(* A goroutine goes into rateLimitCollector.Process. *)
LEMMA EntersChain ==
  ASSUME ChainIInv, NEW g \in Goroutines, NEW item \in Items \cup {Other, Handshake},
         at[g].pc = "out", Enters(g, item), ~tcpClosed \/ (g = "capture" /\ ~sinkClosed),
         g \in TCPConns => item = Other,
         item = Other => tcpMutex' = g, item # Other => tcpMutex' = tcpMutex,
         tcpMutex \in {"none", g} \/ item # Other,
         toFlush' \subseteq toFlush, toFlush = {} \/ tcpMutex' = "capture",
         g = "capture" /\ closing => tcpClosed,
         UNCHANGED <<tcpActive, tcpFired, closing, tcpClosed, sinkClosed, late, arrivals, crashed>>,
         ~crashed
  PROVE  ChainIInv'
<1> USE DEF ChainIInv
<1> DEFINE r == [pc |-> "decide", item |-> item, todo |-> {}]
<1>1. r \in Positions
  BY DEF Positions
<1>2. /\ \A h \in Goroutines \ {g} : at'[h] = at[h]
      /\ at'[g] = r
  BY DEF Enters, ChainTypes
<1>3. InChain' = InChain \cup {g}
  BY <1>2 DEF InChain
<1>4. ChainTypes'
  <2>1. at' \in [Goroutines -> Positions]
    BY <1>1 DEF Enters, ChainTypes
  <2>2. \A h \in Goroutines : at'[h].pc = "record" => at'[h].item.kind = "request"
    BY <1>2 DEF ChainTypes
  <2>3. tcpMutex' \in Goroutines \cup {"none"}
    BY DEF ChainTypes
  <2> QED
    BY <2>1, <2>2, <2>3 DEF ChainTypes
<1>5. MutexInv'
  <2>1. ASSUME NEW h \in InChain' \cap TCPConns PROVE tcpMutex' = h /\ at'[h].item = Other
    <3>1. CASE h = g
      BY <1>2, <2>1, <3>1
    <3>2. CASE h # g
      <4>1. h \in InChain /\ tcpMutex = h /\ at[h].item = Other /\ at'[h] = at[h]
        BY <1>2, <1>3, <2>1, <3>2, Names DEF MutexInv
      <4> QED
        BY <2>1, <3>2, <4>1, Names
    <3> QED
      BY <3>1, <3>2
  <2>2. "capture" \in InChain' /\ at'["capture"].item = Other => tcpMutex' = "capture"
    <3>1. CASE g = "capture"
      BY <1>2, <3>1
    <3>2. CASE g # "capture"
      BY <1>2, <1>3, <3>2, Names DEF MutexInv
    <3> QED
      BY <3>1, <3>2
  <2> QED
    BY <2>1, <2>2 DEF MutexInv
<1>6. ClosingInv'
  BY <1>3, Names DEF ClosingInv
<1> QED
  BY <1>4, <1>5, <1>6 DEF CrashInv
(* A step of a goroutine that is in the chain. *)
LEMMA InProcessKeepsInv ==
  ASSUME ChainIInv, ~crashed, NEW g \in Goroutines, InProcess(g)
  PROVE  ChainIInv'
<1>0. /\ at[g] \in Positions /\ arrivals \subseteq Keys /\ ~late
      /\ at[g].pc = "record" => at[g].item.kind = "request"
  BY DEF ChainIInv, ChainTypes
<1>1. at[g].pc # "out" => ~sinkClosed
  BY Names DEF ChainIInv, ClosingInv, InChain
<1>2. CASE Decide(g)
  <2>1. PICK pc \in {"forward", "select"} : at' = [at EXCEPT ![g] = [at[g] EXCEPT !.pc = pc]]
    BY <1>2 DEF Decide, GoesTo
  <2> DEFINE r == [at[g] EXCEPT !.pc = pc]
  <2>2. r \in Positions /\ r.pc = pc /\ r.item = at[g].item
    BY <1>0 DEF Positions
  <2>3. /\ at[g].pc # "out" /\ UNCHANGED <<tcpVars, sinkClosed, late>> /\ arrivals' \subseteq Keys
        /\ crashed' => MapInUse(g)
    BY <1>0, <1>2 DEF Decide, UsesMap, sinkVars
  <2> QED
    BY <1>0, <2>1, <2>2, <2>3, MovesInChain
<1>3. CASE Forward(g)
  <2>1. PICK pc \in {"record", "select"} :
          /\ at' = [at EXCEPT ![g] = [at[g] EXCEPT !.pc = pc]]
          /\ pc = "record" => at[g].item.kind = "request"
    BY <1>3 DEF Forward, GoesTo
  <2> DEFINE r == [at[g] EXCEPT !.pc = pc]
  <2>2. r \in Positions /\ r.pc = pc /\ r.item = at[g].item
    BY <1>0 DEF Positions
  <2>3. /\ at[g].pc # "out" /\ UNCHANGED <<tcpVars, sinkClosed, crashed>> /\ arrivals' \subseteq Keys
        /\ late' = (late \/ sinkClosed)
    BY <1>0, <1>3 DEF Forward, rateVars
  <2> QED
    BY <1>0, <1>1, <2>1, <2>2, <2>3, MovesInChain
<1>4. CASE Record(g)
  <2> DEFINE r == [at[g] EXCEPT !.pc = "select"]
  <2>1. at' = [at EXCEPT ![g] = r]
    BY <1>4 DEF Record, GoesTo
  <2>2. r \in Positions /\ r.pc = "select" /\ r.item = at[g].item
    BY <1>0 DEF Positions
  <2>3. at[g].item.key \in Keys
    BY <1>0, <1>4 DEF Record, Positions, Items, Other, Handshake
  <2>4. /\ at[g].pc # "out" /\ UNCHANGED <<tcpVars, sinkClosed, late>> /\ arrivals' \subseteq Keys
        /\ crashed' => MapInUse(g)
    BY <1>0, <1>4, <2>3 DEF Record, UsesMap, sinkVars
  <2> QED
    BY <1>0, <2>1, <2>2, <2>4, MovesInChain
<1>5. CASE Select(g)
  <2>1. at[g].pc # "out" /\ UNCHANGED <<arrivals, crashed, sinkClosed, late>>
    BY <1>5 DEF Select, sinkVars
  <2>2. CASE epochCh
    <3> DEFINE r == [at[g] EXCEPT !.pc = "expire", !.todo = arrivals]
    <3>1. at' = [at EXCEPT ![g] = r] /\ UNCHANGED tcpVars
      BY <1>5, <2>2 DEF Select, ChainIInv, ChainTypes
    <3>2. r \in Positions /\ r.pc = "expire" /\ r.item = at[g].item
      BY <1>0 DEF Positions
    <3> QED
      BY <1>0, <2>1, <3>1, <3>2, MovesInChain
  <2>3. CASE ~epochCh
    BY <1>5, <2>1, <2>3, LeavesChain DEF Select
  <2> QED
    BY <2>2, <2>3
<1>6. CASE ExpireRequest(g)
  <2>1. PICK k \in at[g].todo :
          /\ at' = [at EXCEPT ![g].todo = @ \ {k}]
          /\ (UNCHANGED <<arrivals, crashed>>) \/ (arrivals' = arrivals \ {k} /\ UsesMap(g))
    BY <1>6 DEF ExpireRequest
  <2> DEFINE r == [at[g] EXCEPT !.todo = @ \ {k}]
  <2>2. at' = [at EXCEPT ![g] = r]
    BY <2>1
  <2>3. r \in Positions /\ r.pc = at[g].pc /\ r.item = at[g].item
    BY <1>0 DEF Positions
  <2>4. at[g].pc = "expire" /\ UNCHANGED <<tcpVars, sinkClosed, late>>
    BY <1>6 DEF ExpireRequest, sinkVars
  <2>5. arrivals' \subseteq Keys
    BY <1>0, <2>1
  <2>6. crashed' => MapInUse(g)
    BY <2>1 DEF UsesMap
  <2> QED
    BY <1>0, <2>2, <2>3, <2>4, <2>5, <2>6, MovesInChain
<1>7. CASE Expired(g)
  BY <1>7, LeavesChain DEF Expired, rateVars, sinkVars
<1> QED
  BY <1>2, <1>3, <1>4, <1>5, <1>6, <1>7 DEF InProcess

(* ChainInv holds of every behaviour of the composed trackers: two timers' *)
(* goroutines never meet behind the TCP tracker, the only company of the   *)
(* capture goroutine is one flush that holds the mutex, and no summary     *)
(* reaches the sink after Close.                                           *)
THEOREM ChainTheorem == ChainSpec => [](ChainIInv /\ ChainInv)
<1>1. ChainInit => ChainIInv
  <2> SUFFICES ASSUME ChainInit PROVE ChainIInv
    OBVIOUS
  <2>1. Out \in Positions /\ Out.pc = "out"
    BY DEF Out, Positions
  <2>2. at \in [Goroutines -> Positions] /\ \A g \in Goroutines : at[g].pc = "out"
    BY <2>1 DEF ChainInit
  <2>3. InChain = {}
    BY <2>2 DEF InChain
  <2> QED
    BY <2>2, <2>3 DEF ChainInit, ChainIInv, ChainTypes, MutexInv, ClosingInv, CrashInv
<1>2. ChainIInv /\ [ChainNext]_chainVars => ChainIInv'
  <2> SUFFICES ASSUME ChainIInv, [ChainNext]_chainVars PROVE ChainIInv'
    OBVIOUS
  <2>0. ASSUME UNCHANGED <<at, crashed, sinkClosed, late, arrivals>>,
               UNCHANGED <<tcpActive, closing, tcpClosed, tcpMutex, toFlush>>,
               tcpFired' \subseteq TCPConns
        PROVE  ChainIInv'
    BY <2>0 DEF ChainIInv, ChainTypes, MutexInv, ClosingInv, CrashInv, InChain
  <2>1. CASE UNCHANGED chainVars
    BY <2>0, <2>1 DEF chainVars, tcpVars, rateVars, sinkVars, ChainIInv, ChainTypes
  <2> SUFFICES ASSUME ~crashed, ChainNext PROVE ChainIInv'
    BY <2>1 DEF ChainNext
  <2>2. ASSUME NEW g \in Goroutines, InProcess(g) PROVE ChainIInv'
    BY <2>2, InProcessKeepsInv
  <2>3. CASE Epoch \/ TLSTimer
    BY <2>0, <2>3 DEF Epoch, TLSTimer, tcpVars, rateVars, sinkVars, ChainIInv, ChainTypes
  <2>4. ASSUME NEW c \in TCPConns, TCPTimerFires(c) PROVE ChainIInv'
    BY <2>0, <2>4 DEF TCPTimerFires, rateVars, sinkVars, ChainIInv, ChainTypes
  <2>5. CASE CloseCalled
    <3>1. /\ at["capture"].pc = "out" /\ closing' = TRUE
          /\ UNCHANGED <<tcpActive, tcpFired, tcpClosed, tcpMutex, toFlush, at, crashed, sinkClosed,
                         late, arrivals>>
      BY <2>5 DEF CloseCalled, Idle, rateVars, sinkVars
    <3> QED
      BY <3>1 DEF ChainIInv, ChainTypes, MutexInv, ClosingInv, CrashInv, InChain
  <2>6. CASE TCPClose
    <3>1. /\ closing /\ ~tcpClosed /\ tcpMutex = "none" /\ tcpClosed' = TRUE
          /\ toFlush' = tcpActive /\ tcpActive' = {}
          /\ tcpMutex' = IF tcpActive = {} THEN "none" ELSE "capture"
          /\ UNCHANGED <<tcpFired, closing, at, crashed, sinkClosed, late, arrivals>>
      BY <2>6 DEF TCPClose, rateVars, sinkVars
    <3>2. InChain = {}
      BY <3>1, Names DEF ChainIInv, MutexInv, ClosingInv, InChain
    <3>3. InChain' = {}
      BY <3>1, <3>2 DEF InChain
    <3> QED
      BY <3>1, <3>3, Names DEF ChainIInv, ChainTypes, MutexInv, ClosingInv, CrashInv
  <2>7. CASE CloseDownstream
    <3>1. /\ tcpClosed /\ toFlush = {} /\ at["capture"].pc = "out"
          /\ UNCHANGED <<tcpVars, at, crashed, late, arrivals>>
      BY <2>7 DEF CloseDownstream, rateVars
    <3> QED
      BY <3>1 DEF tcpVars, ChainIInv, ChainTypes, MutexInv, ClosingInv, CrashInv, InChain
  <2>8. ASSUME NEW c \in TCPConns, CloseFlushes(c) PROVE ChainIInv'
    <3>1. /\ c \in toFlush /\ at["capture"].pc = "out" /\ toFlush' = toFlush \ {c}
          /\ Enters("capture", Other)
          /\ UNCHANGED <<tcpActive, tcpFired, closing, tcpClosed, tcpMutex, sinkClosed, late,
                         arrivals, crashed>>
      BY <2>8 DEF CloseFlushes, rateVars, sinkVars
    <3>2. tcpMutex = "capture" /\ ~sinkClosed
      BY <3>1 DEF ChainIInv, MutexInv, ClosingInv
    <3>3. tcpClosed
      BY <3>1 DEF ChainIInv, ClosingInv
    <3> QED
      BY <3>1, <3>2, <3>3, Names, EntersChain
  <2>9. ASSUME NEW c \in TCPConns, TCPPacket(c) PROVE ChainIInv'
    <3>1. /\ at["capture"].pc = "out" /\ ~closing /\ tcpMutex = "none"
          /\ UNCHANGED <<tcpFired, closing, tcpClosed, toFlush, sinkClosed, late, arrivals, crashed>>
      BY <2>9 DEF TCPPacket, Arrives, Idle, rateVars
    <3>2. ~tcpClosed /\ ~sinkClosed /\ toFlush = {}
      BY <3>1 DEF ChainIInv, ClosingInv, MutexInv
    <3>3. CASE c \in tcpActive
      <4>1. tcpMutex' = "capture" /\ Enters("capture", Other) /\ UNCHANGED tcpActive
        BY <2>9, <3>3 DEF TCPPacket
      <4> QED
        BY <3>1, <3>2, <4>1, Names, EntersChain
    <3>4. CASE c \notin tcpActive
      <4>1. tcpActive' = tcpActive \cup {c} /\ UNCHANGED <<tcpMutex, at>>
        BY <2>9, <3>4 DEF TCPPacket
      <4> QED
        BY <3>1, <3>2, <4>1 DEF ChainIInv, ChainTypes, MutexInv, ClosingInv, CrashInv, InChain
    <3> QED
      BY <3>3, <3>4
  <2>10. ASSUME NEW c \in TCPConns, FlushBegin(c) PROVE ChainIInv'
    <3>1. /\ tcpMutex = "none" /\ at[c].pc = "out"
          /\ UNCHANGED <<closing, tcpClosed, toFlush, sinkClosed, late, arrivals, crashed>>
      BY <2>10 DEF FlushBegin, rateVars, sinkVars
    <3>2. toFlush = {}
      BY <3>1 DEF ChainIInv, MutexInv
    <3>3. CASE c \in tcpActive
      <4>1. Enters(c, Other) /\ tcpMutex' = c /\ UNCHANGED <<tcpActive, tcpFired>>
        BY <2>10, <3>3 DEF FlushBegin
      <4>2. ~tcpClosed
        BY <3>3 DEF ChainIInv, ClosingInv
      <4> QED
        BY <3>1, <3>2, <4>1, <4>2, Names, EntersChain
    <3>4. CASE c \notin tcpActive
      BY <2>0, <2>10, <3>1, <3>4 DEF FlushBegin, ChainIInv, ChainTypes
    <3> QED
      BY <3>3, <3>4
  <2>11. ASSUME NEW i \in Items, HTTPArrives(i) PROVE ChainIInv'
    <3>1. /\ at["capture"].pc = "out" /\ ~closing /\ Enters("capture", i)
          /\ UNCHANGED <<tcpActive, tcpFired, closing, tcpClosed, tcpMutex, toFlush, sinkClosed,
                         late, arrivals, crashed>>
      BY <2>11 DEF HTTPArrives, Arrives, Idle, tcpVars, rateVars
    <3>2. ~tcpClosed /\ i # Other
      BY <3>1 DEF ChainIInv, ClosingInv, Items, Other
    <3> QED
      BY <3>1, <3>2, Names, EntersChain DEF ChainIInv, MutexInv
  <2>12. ASSUME NEW c \in Conns, NEW h \in Hellos, TLSHello(c, h) PROVE ChainIInv'
    <3>1. /\ at["capture"].pc = "out" /\ ~closing
          /\ UNCHANGED <<tcpActive, tcpFired, closing, tcpClosed, tcpMutex, toFlush, sinkClosed,
                         late, arrivals, crashed>>
      BY <2>12 DEF TLSHello, Arrives, Idle, tcpVars, rateVars
    <3>2. ~tcpClosed /\ Handshake # Other
      BY <3>1 DEF ChainIInv, ClosingInv, Handshake, Other
    <3>3. CASE Enters("capture", Handshake)
      BY <3>1, <3>2, <3>3, Names, EntersChain DEF ChainIInv, MutexInv
    <3>4. CASE UNCHANGED at
      BY <2>0, <3>1, <3>4 DEF ChainIInv, ChainTypes
    <3> QED
      BY <2>12, <3>3, <3>4 DEF TLSHello
  <2> QED
    BY <2>2, <2>3, <2>4, <2>5, <2>6, <2>7, <2>8, <2>9, <2>10, <2>11, <2>12, Names
    DEF ChainNext, CaptureStep
<1>3. ChainIInv => ChainInv
  <2> SUFFICES ASSUME ChainIInv PROVE ChainInv
    OBVIOUS
  <2>1. SinkNotCalledAfterClose
    BY DEF ChainIInv, SinkNotCalledAfterClose
  <2>2. \A g \in InChain \cap TCPConns : tcpMutex = g
    BY DEF ChainIInv, MutexInv
  <2>3. ASSUME InChain \cap TCPConns # {}, "capture" \in InChain
        PROVE  at["capture"].item.kind \in {"request", "response", "handshake"}
    <3>1. at["capture"].item # Other
      BY <2>2, <2>3, Names DEF ChainIInv, MutexInv
    <3>2. at["capture"].item \in Items \cup {Handshake}
      BY <3>1, Names DEF ChainIInv, ChainTypes, Positions
    <3> QED
      BY <3>2 DEF Items, Handshake
  <2> QED
    BY <2>1, <2>2, <2>3 DEF ChainIInv, ChainInv, OnlyAFlushMeetsCapture, CrashInv
<1> QED
  BY <1>1, <1>2, <1>3, PTL DEF ChainSpec
=============================================================================
