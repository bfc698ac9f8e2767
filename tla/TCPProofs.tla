------------------------------ MODULE TCPProofs -----------------------------
(***************************************************************************)
(* Proofs about a TCP connection as the two parts that follow it see it.   *)
(*                                                                         *)
(* TCPConnTracker, for any connections, timeout, lag and number of lives:  *)
(* each life ends in one summary whatever timers, callbacks, packets and   *)
(* Close do, and every step is a step of ConnSummaries or none at all.     *)
(*                                                                         *)
(* TCPStream, for any set of directions, any chunk size and any amount of  *)
(* data: bytes are conserved and reported once.                            *)
(***************************************************************************)
EXTENDS TCPConnTracker, TCPStream, FiniteSetTheorems, TLAPS

-----------------------------------------------------------------------------
(* The tracker *)

SummariesOf(c) == {s \in summaries : s.conn = c}

(* Number of lives of c that have come to an end. *)
Ended(c) == lives[c] - (IF c \in active THEN 1 ELSE 0)

(* The summaries of a connection are those of its ended lives. *)
SummariesInv ==
  \A c \in Conns :
    /\ Ended(c) \in Nat
    /\ IsFiniteSet(SummariesOf(c)) /\ Cardinality(SummariesOf(c)) = Ended(c)
    /\ \A s \in SummariesOf(c) : s.life <= Ended(c)
    /\ \A s1, s2 \in SummariesOf(c) : s1.life = s2.life => s1 = s2

(* After Close no connection is active, and the downstream collector is    *)
(* closed after that.                                                      *)
CloseInv ==
  /\ closed => active = {}
  /\ downClosed => closed
  /\ ~late

(* connectionInfo of an active connection is what its packets say, however *)
(* they were ordered; nothing is remembered of any other.                  *)
InfoFits(i, o) ==
  /\ i.first \in o.times /\ \A t \in o.times : i.first <= t
  /\ i.last \in o.times /\ \A t \in o.times : i.last >= t
  /\ i.endState = IF "RST" \in o.facts THEN "reset"
                  ELSE IF "FIN" \in o.facts THEN "closed" ELSE "open"
  /\ "handshake" \in o.facts => i.initiator = IF i.src = "client" THEN "source" ELSE "dest"
  /\ "handshake" \notin o.facts => i.initiator = "unknown"

InfoInv ==
  \A c \in Conns : IF c \in active THEN InfoFits(info[c], seen[c]) ELSE seen[c] = NothingSeen

IInv == TypeOK /\ SummariesInv /\ CloseInv /\ InfoInv
Observed == [times : SUBSET Nat, facts : SUBSET {"handshake", "FIN", "RST"}]

-----------------------------------------------------------------------------
(* augmentWith keeps connectionInfo in step with the packets: the order in *)
(* which they come does not matter.                                        *)
LEMMA AugmentFits ==
  ASSUME NEW i \in ConnectionInfo, NEW o \in Observed, InfoFits(i, o),
         NEW p \in Packets, NEW t \in Nat
  PROVE  /\ AugmentWith(i, p, t) \in ConnectionInfo
         /\ InfoFits(AugmentWith(i, p, t), [times |-> o.times \cup {t},
                                            facts |-> o.facts \cup FactsOf(p)])
<1> DEFINE j == AugmentWith(i, p, t)
           q == [times |-> o.times \cup {t}, facts |-> o.facts \cup FactsOf(p)]
<1>1. /\ p[1] \in Kinds /\ p[2] \in Sides
      /\ p[1] = "SYN" => p[2] = "client"
      /\ p[1] = "SYNACK" => p[2] = "server"
  BY DEF Packets
<1>2. /\ i.src \in Sides /\ i.first \in Nat /\ i.last \in Nat
      /\ i.initiator \in {"unknown", "source", "dest"} /\ i.endState \in {"open", "closed", "reset"}
  BY DEF ConnectionInfo
<1>3. /\ j.src = i.src
      /\ j.first = (IF t < i.first THEN t ELSE i.first)
      /\ j.last = (IF t > i.last THEN t ELSE i.last)
      /\ j.initiator = InferInitiator(i, p)
      /\ j.endState = EndState(i.endState, p)
  BY DEF AugmentWith, ConnectionInfo
<1>4. InferInitiator(i, p) \in {"unknown", "source", "dest"}
  BY <1>2 DEF InferInitiator
<1>5. EndState(i.endState, p) \in {"open", "closed", "reset"}
  BY <1>2 DEF EndState
<1>6. j \in ConnectionInfo
  BY <1>2, <1>3, <1>4, <1>5 DEF AugmentWith, ConnectionInfo
<1>7. /\ j.first \in q.times /\ \A u \in q.times : j.first <= u
      /\ j.last \in q.times /\ \A u \in q.times : j.last >= u
  BY <1>2, <1>3 DEF InfoFits, Observed
<1>8. FactsOf(p) = IF p[1] \in {"SYN", "SYNACK"} THEN {"handshake"}
                   ELSE IF p[1] \in {"FIN", "RST"} THEN {p[1]} ELSE {}
  BY <1>1 DEF FactsOf, Kinds
<1>9. j.endState = IF "RST" \in q.facts THEN "reset"
                   ELSE IF "FIN" \in q.facts THEN "closed" ELSE "open"
  BY <1>1, <1>2, <1>3, <1>8 DEF EndState, InfoFits, Kinds
<1>10. /\ "handshake" \in q.facts => j.initiator = IF j.src = "client" THEN "source" ELSE "dest"
       /\ "handshake" \notin q.facts => j.initiator = "unknown"
  BY <1>1, <1>2, <1>3, <1>8 DEF InferInitiator, InfoFits, Kinds, Sides
<1> QED
  BY <1>6, <1>7, <1>9, <1>10 DEF InfoFits

(* Summarising active connections and forgetting them keeps the count. *)
LEMMA Summarised ==
  ASSUME TypeOK, SummariesInv, NEW C \in SUBSET active,
         summaries' = summaries \cup {Summary(c) : c \in C},
         active' = active \ C, lives' = lives
  PROVE  /\ SummariesInv'
         /\ summaries' \subseteq [conn : Conns, life : 1..MaxLives, info : ConnectionInfo]
<1>1. ASSUME NEW c \in active PROVE c \in Conns /\ lives[c] \in 1..MaxLives /\ Ended(c) = lives[c] - 1
  BY TCPAssumption DEF TypeOK, SummariesInv, Ended
<1>2. \A c \in C : Summary(c) \in [conn : Conns, life : 1..MaxLives, info : ConnectionInfo]
  BY <1>1 DEF Summary, TypeOK
<1>3. ASSUME NEW c \in Conns
      PROVE  /\ Ended(c)' \in Nat
             /\ IsFiniteSet(SummariesOf(c)') /\ Cardinality(SummariesOf(c)') = Ended(c)'
             /\ \A s \in SummariesOf(c)' : s.life <= Ended(c)'
             /\ \A s1, s2 \in SummariesOf(c)' : s1.life = s2.life => s1 = s2
  <2>1. CASE c \in C
    <3>1. SummariesOf(c)' = SummariesOf(c) \cup {Summary(c)}
      BY <2>1 DEF SummariesOf, Summary
    <3>2. Ended(c)' = lives[c] /\ Ended(c) = lives[c] - 1 /\ lives[c] \in Nat
      BY <1>1, <2>1 DEF Ended
    <3>3. Summary(c).life = lives[c] /\ \A s \in SummariesOf(c) : s.life <= lives[c] - 1
      BY <3>2 DEF Summary, SummariesInv
    <3>4. \A s \in SummariesOf(c) : s.life \in Nat
      BY DEF SummariesOf, TypeOK
    <3>5. Summary(c) \notin SummariesOf(c)
      BY <3>2, <3>3
    <3>6. /\ IsFiniteSet(SummariesOf(c)')
          /\ Cardinality(SummariesOf(c)') = Cardinality(SummariesOf(c)) + 1
      BY <3>1, <3>5, FS_AddElement DEF SummariesInv
    <3> QED
      BY <3>1, <3>2, <3>3, <3>4, <3>6 DEF SummariesInv
  <2>2. CASE c \notin C
    <3>1. SummariesOf(c)' = SummariesOf(c)
      BY <2>2 DEF SummariesOf, Summary
    <3>2. Ended(c)' = Ended(c)
      BY <2>2 DEF Ended
    <3> QED
      BY <3>1, <3>2 DEF SummariesInv
  <2> QED
    BY <2>1, <2>2
<1> QED
  BY <1>2, <1>3 DEF SummariesInv, TypeOK

(* A new life does not touch the summaries of ended ones. *)
LEMMA SummariesFrame ==
  ASSUME TypeOK, SummariesInv, summaries' = summaries, NEW C \in SUBSET (Conns \ active),
         active' = active \cup C,
         lives' = [c \in Conns |-> IF c \in C THEN lives[c] + 1 ELSE lives[c]]
  PROVE  SummariesInv'
<1> SUFFICES ASSUME NEW c \in Conns PROVE Ended(c)' = Ended(c) /\ SummariesOf(c)' = SummariesOf(c)
  BY DEF SummariesInv
<1>1. lives[c] \in Nat
  BY TCPAssumption DEF TypeOK
<1> QED
  BY <1>1 DEF Ended, SummariesOf
-----------------------------------------------------------------------------
(* The time of a packet: not before the capture began, not in the future. *)
LEMMA PacketTime ==
  ASSUME TypeOK, NEW c \in Conns, NEW p \in Packets, Process(c, p)
  PROVE  \E t \in 0..MaxTime : ProcessUnknown(c, p, t) \/ ProcessKnown(c, p, t)
<1>1. PICK lag \in 0..MaxLag :
        LET t == IF lag > now THEN 0 ELSE now - lag
        IN  ProcessUnknown(c, p, t) \/ ProcessKnown(c, p, t)
  BY DEF Process
<1>2. (IF lag > now THEN 0 ELSE now - lag) \in 0..MaxTime
  BY TCPAssumption DEF TypeOK
<1> QED
  BY <1>1, <1>2 DEF ProcessUnknown, ProcessKnown, Observe

(* A packet that is not a straggler begins a life. *)
LEMMA BeginsLife ==
  ASSUME IInv, NEW c \in Conns, NEW p \in Packets, NEW t \in 0..MaxTime,
         ProcessUnknown(c, p, t), ~Straggler(p), ~closed,
         UNCHANGED <<now, callbacks, closed, downClosed, summaries, late>>
  PROVE  IInv'
<1> USE TCPAssumption DEF IInv
<1> DEFINE i == [src |-> p[2], first |-> t, last |-> t, initiator |-> "unknown", endState |-> "open"]
<1>0. /\ c \notin active /\ lives[c] < MaxLives
      /\ active' = active \cup {c}
      /\ info' = [info EXCEPT ![c] = i]
      /\ lives' = [lives EXCEPT ![c] = @ + 1]
      /\ timers' = timers \cup {<<c, lives[c] + 1, now + Timeout>>}
      /\ Observe(c, p, t)
  BY DEF ProcessUnknown
<1>1. info' = [info EXCEPT ![c] = i]
  BY <1>0
<1>2. p[2] \in Sides /\ t \in Nat
  BY DEF Packets
<1>3. i \in ConnectionInfo
  BY <1>2 DEF ConnectionInfo
<1>4. lives[c] \in 0..MaxLives /\ lives[c] + 1 \in 1..MaxLives /\ now + Timeout \in Nat
  BY <1>0 DEF TypeOK
<1>5. seen' = [seen EXCEPT ![c] = [times |-> {t}, facts |-> {}]]
  <2>1. seen[c].times = {} /\ seen[c].times \cup {t} = {t}
    BY <1>0 DEF InfoInv, NothingSeen
  <2>2. seen' = [seen EXCEPT ![c] = [times |-> seen[c].times \cup {t}, facts |-> {}]]
    BY <1>0 DEF Observe
  <2> QED
    BY <2>1, <2>2
<1>6. TypeOK'
  <2>1. info' \in [Conns -> ConnectionInfo]
    <3> HIDE DEF i
    <3> QED
      BY <1>1, <1>3 DEF TypeOK
  <2>4. lives' \in [Conns -> 0..MaxLives]
    BY <1>0, <1>4 DEF TypeOK
  <2>2. seen' \in [Conns -> [times : SUBSET Nat, facts : SUBSET {"handshake", "FIN", "RST"}]]
    BY <1>2, <1>5 DEF TypeOK
  <2>3. timers' \subseteq Conns \X (1..MaxLives) \X Nat
    BY <1>0, <1>4 DEF TypeOK
  <2> QED
    BY <1>0, <2>1, <2>2, <2>3, <2>4 DEF TypeOK
<1>7. SummariesInv'
  <2>1. lives' = [d \in Conns |-> IF d \in {c} THEN lives[d] + 1 ELSE lives[d]]
    BY <1>0 DEF TypeOK
  <2>2. {c} \in SUBSET (Conns \ active)
    BY <1>0
  <2> QED
    BY <1>0, <2>1, <2>2, SummariesFrame
<1>8. CloseInv'
  BY DEF CloseInv
<1>9. InfoInv'
  <2>1. InfoFits(i, [times |-> {t}, facts |-> {}])
    BY <1>2 DEF InfoFits
  <2>2. info'[c] = i /\ seen'[c] = [times |-> {t}, facts |-> {}]
    BY <1>1, <1>5 DEF TypeOK
  <2>3. \A d \in Conns \ {c} : info'[d] = info[d] /\ seen'[d] = seen[d]
    BY <1>1, <1>5 DEF TypeOK
  <2> QED
    BY <1>0, <2>1, <2>2, <2>3 DEF InfoInv
<1> QED
  BY <1>6, <1>7, <1>8, <1>9

(* A packet of a tracked connection. *)
LEMMA GoesOn ==
  ASSUME IInv, NEW c \in Conns, NEW p \in Packets, NEW t \in 0..MaxTime,
         ProcessKnown(c, p, t), UNCHANGED <<now, callbacks, closed, downClosed, summaries, late>>
  PROVE  IInv'
<1> USE TCPAssumption DEF IInv
<1> DEFINE o == [times |-> seen[c].times \cup {t}, facts |-> seen[c].facts \cup FactsOf(p)]
<1>0. /\ c \in active
      /\ info' = [info EXCEPT ![c] = AugmentWith(info[c], p, t)]
      /\ seen' = [seen EXCEPT ![c] = o]
      /\ UNCHANGED <<active, lives>>
  BY DEF ProcessKnown, Observe
<1>1. AugmentWith(info[c], p, t) \in ConnectionInfo /\ InfoFits(AugmentWith(info[c], p, t), o)
  <2>1. info[c] \in ConnectionInfo /\ seen[c] \in Observed /\ InfoFits(info[c], seen[c])
    BY <1>0 DEF TypeOK, InfoInv, Observed
  <2> QED
    BY <2>1, AugmentFits
<1>2. o \in [times : SUBSET Nat, facts : SUBSET {"handshake", "FIN", "RST"}]
  <2>1. FactsOf(p) \subseteq {"handshake", "FIN", "RST"}
    BY DEF FactsOf, Packets, Kinds
  <2> QED
    BY <2>1 DEF TypeOK
<1>3. lives[c] \in 1..MaxLives /\ now + Timeout \in Nat
  BY <1>0 DEF TypeOK, SummariesInv, Ended
<1>4. TypeOK'
  <2>1. timers' \subseteq Conns \X (1..MaxLives) \X Nat
    BY <1>3 DEF ProcessKnown, TypeOK
  <2> QED
    BY <1>0, <1>1, <1>2, <2>1 DEF TypeOK
<1>5. SummariesInv'
  BY <1>0 DEF SummariesInv, SummariesOf, Ended
<1>6. CloseInv'
  BY <1>0 DEF CloseInv
<1>7. InfoInv'
  <2>1. info'[c] = AugmentWith(info[c], p, t) /\ seen'[c] = o
    BY <1>0 DEF TypeOK
  <2>2. \A d \in Conns \ {c} : info'[d] = info[d] /\ seen'[d] = seen[d]
    BY <1>0 DEF TypeOK
  <2> QED
    BY <1>0, <1>1, <2>1, <2>2 DEF InfoInv
<1> QED
  BY <1>4, <1>5, <1>6, <1>7

(* TrackerInv holds of every behaviour: a callback that waited for the     *)
(* mutex while its connection was flushed or reborn, and a timer that      *)
(* fires around Close, never cause a second or a late summary.             *)
THEOREM TrackerTheorem == Spec => [](IInv /\ TrackerInv)
<1> USE TCPAssumption
<1>1. Init => IInv
  <2> SUFFICES ASSUME Init PROVE IInv
    OBVIOUS
  <2>1. TypeOK
    <3>1. NoInfo \in ConnectionInfo
      BY DEF ConnectionInfo, NoInfo, Sides
    <3>2. NothingSeen \in [times : SUBSET Nat, facts : SUBSET {"handshake", "FIN", "RST"}]
      BY DEF NothingSeen
    <3>3. info \in [Conns -> ConnectionInfo] /\ lives \in [Conns -> 0..MaxLives] /\ now \in 0..MaxTime
      BY <3>1 DEF Init
    <3>4. seen \in [Conns -> [times : SUBSET Nat, facts : SUBSET {"handshake", "FIN", "RST"}]]
      BY <3>2 DEF Init
    <3> QED
      BY <3>3, <3>4 DEF Init, TypeOK
  <2>2. SummariesInv
    <3>1. \A c \in Conns : SummariesOf(c) = {} /\ Ended(c) = 0
      BY DEF Init, SummariesOf, Ended
    <3> QED
      BY <3>1, FS_EmptySet DEF SummariesInv
  <2>3. CloseInv /\ InfoInv
    BY DEF Init, CloseInv, InfoInv
  <2> QED
    BY <2>1, <2>2, <2>3 DEF IInv
<1>2. IInv /\ [Next]_vars => IInv'
  <2> SUFFICES ASSUME IInv, [Next]_vars PROVE IInv'
    OBVIOUS
  <2>0. ASSUME UNCHANGED <<active, info, lives, summaries, seen>>
        PROVE  SummariesInv' /\ InfoInv'
    BY <2>0 DEF IInv, SummariesInv, SummariesOf, Ended, InfoInv
  <2>1. CASE Tick
    BY <2>0, <2>1 DEF Tick, IInv, TypeOK, CloseInv
  <2>2. ASSUME NEW c \in Conns, NEW p \in Packets, Process(c, p)
        PROVE  IInv'
    <3>1. PICK t \in 0..MaxTime : ProcessUnknown(c, p, t) \/ ProcessKnown(c, p, t)
      BY <2>2, PacketTime DEF IInv
    <3>3. ~closed /\ UNCHANGED <<now, callbacks, closed, downClosed, summaries, late>>
      BY <2>2 DEF Process
    <3>4. CASE ProcessUnknown(c, p, t) /\ Straggler(p)
      BY <2>0, <3>3, <3>4 DEF ProcessUnknown, IInv, TypeOK, CloseInv
    <3>5. CASE ProcessUnknown(c, p, t) /\ ~Straggler(p)
      BY <3>3, <3>5, BeginsLife
    <3>6. CASE ProcessKnown(c, p, t)
      BY <3>3, <3>6, GoesOn
    <3> QED
      BY <3>1, <3>4, <3>5, <3>6
  <2>3. ASSUME NEW t \in timers, TimerFires(t)
        PROVE  IInv'
    BY <2>0, <2>3 DEF TimerFires, IInv, TypeOK, CloseInv
  <2>4. ASSUME NEW b \in callbacks, FlushConnection(b)
        PROVE  IInv'
    <3>1. CASE b[1] \notin active
      BY <2>0, <2>4, <3>1 DEF FlushConnection, IInv, TypeOK, CloseInv
    <3>2. CASE b[1] \in active
      <4>1. /\ summaries' = summaries \cup {Summary(c) : c \in {b[1]}}
            /\ active' = active \ {b[1]} /\ UNCHANGED <<now, info, timers, closed, downClosed, lives>>
            /\ late' = (late \/ downClosed) /\ callbacks' = callbacks \ {b}
            /\ seen' = [seen EXCEPT ![b[1]] = NothingSeen]
        BY <2>4, <3>2 DEF FlushConnection, RemoveConnection
      <4>2. /\ SummariesInv'
            /\ summaries' \subseteq [conn : Conns, life : 1..MaxLives, info : ConnectionInfo]
        <5>1. {b[1]} \in SUBSET active
          BY <3>2
        <5> QED
          BY <4>1, <5>1, Summarised DEF IInv
      <4>3. ~closed /\ ~downClosed /\ ~late'
        BY <3>2, <4>1 DEF IInv, CloseInv
      <4>4. TypeOK' /\ CloseInv'
        BY <4>1, <4>2, <4>3 DEF IInv, TypeOK, CloseInv, NothingSeen
      <4>5. InfoInv'
        BY <4>1 DEF IInv, TypeOK, InfoInv
      <4> QED
        BY <4>2, <4>4, <4>5 DEF IInv
    <3> QED
      BY <3>1, <3>2
  <2>5. CASE Close
    <3>1. /\ summaries' = summaries \cup {Summary(c) : c \in active}
          /\ active' = active \ active /\ closed' = TRUE
          /\ timers' \subseteq timers
          /\ seen' = [c \in Conns |-> NothingSeen]
          /\ UNCHANGED <<now, info, callbacks, downClosed, lives, late>>
      BY <2>5 DEF Close, FlushAll
    <3>2. /\ SummariesInv'
          /\ summaries' \subseteq [conn : Conns, life : 1..MaxLives, info : ConnectionInfo]
      BY <3>1, Summarised DEF IInv
    <3>3. TypeOK' /\ CloseInv' /\ InfoInv'
      BY <3>1, <3>2 DEF IInv, TypeOK, CloseInv, InfoInv, NothingSeen
    <3> QED
      BY <3>2, <3>3 DEF IInv
  <2>6. CASE CloseDownstream
    BY <2>0, <2>6 DEF CloseDownstream, IInv, TypeOK, CloseInv
  <2>7. CASE UNCHANGED vars
    BY <2>0, <2>7 DEF vars, IInv, TypeOK, CloseInv
  <2> QED
    BY <2>1, <2>2, <2>3, <2>4, <2>5, <2>6, <2>7 DEF Next
<1>3. IInv => TrackerInv
  BY DEF IInv, TrackerInv, OneSummaryPerLife, QuietAfterClose, SummariesInv, SummariesOf, Ended,
         CloseInv
<1> QED
  BY <1>1, <1>2, <1>3, PTL DEF Spec
-----------------------------------------------------------------------------
(* The abstract summary that a summary stands for. *)
Mapped(s) == [conn |-> s.conn, life |-> s.life, first |-> s.info.first, last |-> s.info.last,
              end |-> s.info.endState, opener |-> Opener(s.info)]

(* What the tracker sends for an active connection is the summary that     *)
(* ConnSummaries derives from the set of packets.                          *)
LEMMA SummaryIsAbstract ==
  ASSUME IInv, NEW c \in active
  PROVE  Mapped(Summary(c)) = Abstract!SummaryOf(c)
<1> DEFINE i == info[c]
           o == seen[c]
<1>1. c \in Conns /\ i \in ConnectionInfo /\ o \in Observed /\ InfoFits(i, o)
  BY DEF IInv, TypeOK, InfoInv, Observed
<1> HIDE DEF i, o
<1>2. Abstract!Min(o.times) = i.first
  <2>1. \A x \in o.times : (\A y \in o.times : x <= y) => x = i.first
    BY <1>1 DEF InfoFits, Observed, ConnectionInfo
  <2>2. i.first \in o.times /\ \A y \in o.times : i.first <= y
    BY <1>1 DEF InfoFits
  <2> QED
    BY <2>1, <2>2 DEF Abstract!Min
<1>3. Abstract!Max(o.times) = i.last
  <2>1. \A x \in o.times : (\A y \in o.times : x >= y) => x = i.last
    BY <1>1 DEF InfoFits, Observed, ConnectionInfo
  <2>2. i.last \in o.times /\ \A y \in o.times : i.last >= y
    BY <1>1 DEF InfoFits
  <2> QED
    BY <2>1, <2>2 DEF Abstract!Max
<1>4. Abstract!EndOf(o.facts) = i.endState
  BY <1>1 DEF InfoFits, Abstract!EndOf
<1>5. Abstract!OpenerOf(o.facts) = Opener(i)
  <2>1. i.src \in Sides
    BY <1>1 DEF ConnectionInfo
  <2>2. i.src = "server" => (CHOOSE x \in Sides : x # i.src) = "client"
    BY DEF Sides
  <2> QED
    BY <1>1, <2>1, <2>2 DEF InfoFits, Opener, Abstract!OpenerOf, Sides
<1> QED
  BY <1>1, <1>2, <1>3, <1>4, <1>5 DEF Mapped, Summary, Abstract!SummaryOf, i, o

(* The safety part of ImplementsConnSummaries: every step of packets,      *)
(* timers, callbacks and Close is a step of the abstract specification or  *)
(* changes nothing of it; a summary depends on the times of the packets of *)
(* the life and on what those after the first one said, not on the order   *)
(* of these nor on the timers.  It does depend on which packet came first. *)
THEOREM ConnSummariesTheorem == Spec => Abstract!Spec
<1> USE TCPAssumption
<1>1. Init => Abstract!Init
  BY DEF Init, Abstract!Init, NothingSeen
<1>2. IInv /\ [Next]_vars => [Abstract!Next]_(Abstract!vars)
  <2> SUFFICES ASSUME IInv, [Next]_vars
               PROVE  Abstract!Next \/ UNCHANGED Abstract!vars
    BY DEF Abstract!vars
  <2>1. CASE Tick
    BY <2>1 DEF Tick, Abstract!Next, Abstract!Quieten, Abstract!vars, IInv, TypeOK
  <2>2. ASSUME NEW c \in Conns, NEW p \in Packets, Process(c, p)
        PROVE  Abstract!Next \/ UNCHANGED Abstract!vars
    <3>1. PICK t \in 0..MaxTime : ProcessUnknown(c, p, t) \/ ProcessKnown(c, p, t)
      BY <2>2, PacketTime DEF IInv
    <3>3. ~closed /\ now <= MaxCapture /\ now \in Nat /\ UNCHANGED <<now, closed, summaries>>
      BY <2>2 DEF Process, IInv, TypeOK
    <3>4. CASE ProcessUnknown(c, p, t) /\ Straggler(p)
      BY <3>3, <3>4 DEF ProcessUnknown, Abstract!vars
    <3>5. CASE ProcessUnknown(c, p, t) /\ ~Straggler(p)
      <4>1. /\ c \notin active /\ active' = active \cup {c} /\ lives' = [lives EXCEPT ![c] = @ + 1]
            /\ seen' = [seen EXCEPT ![c] = [times |-> seen[c].times \cup {t}, facts |-> {}]]
        BY <3>5 DEF ProcessUnknown, Observe
      <4>2. seen[c].facts = {} /\ seen[c].times = {}
        BY <4>1 DEF IInv, InfoInv, NothingSeen
      <4>3. /\ [d \in Conns |-> seen'[d].times]
                = [[d \in Conns |-> seen[d].times] EXCEPT ![c] = {t}]
            /\ [d \in Conns |-> seen'[d].facts] = [d \in Conns |-> seen[d].facts]
        BY <4>1, <4>2 DEF IInv, TypeOK
      <4>4. Abstract!Begin(c, t)
        BY <3>3, <4>1, <4>3 DEF Abstract!Begin
      <4> QED
        BY <4>4 DEF Abstract!Next
    <3>6. CASE ProcessKnown(c, p, t)
      <4>1. FactsOf(p) \in SUBSET {"handshake", "FIN", "RST"}
        BY DEF FactsOf, Packets, Kinds
      <4>2. Abstract!Observe(c, FactsOf(p), t)
        <5>1. /\ c \in active /\ active \cup {c} = active /\ UNCHANGED <<active, lives>>
              /\ seen' = [seen EXCEPT ![c] = [times |-> seen[c].times \cup {t},
                                              facts |-> seen[c].facts \cup FactsOf(p)]]
          BY <3>6 DEF ProcessKnown, Observe
        <5>2. /\ [d \in Conns |-> seen'[d].times]
                  = [[d \in Conns |-> seen[d].times] EXCEPT ![c] = @ \cup {t}]
              /\ [d \in Conns |-> seen'[d].facts]
                  = [[d \in Conns |-> seen[d].facts] EXCEPT ![c] = @ \cup FactsOf(p)]
          BY <5>1 DEF IInv, TypeOK
        <5> QED
          BY <3>3, <5>1, <5>2 DEF Abstract!Observe
      <4> QED
        BY <4>1, <4>2 DEF Abstract!Next
    <3> QED
      BY <3>1, <3>4, <3>5, <3>6
  <2>3. ASSUME NEW t \in timers, TimerFires(t)
        PROVE  UNCHANGED Abstract!vars
    BY <2>3 DEF TimerFires, Abstract!vars
  <2>4. ASSUME NEW b \in callbacks, FlushConnection(b)
        PROVE  Abstract!Next \/ UNCHANGED Abstract!vars
    <3>1. CASE b[1] \notin active
      BY <2>4, <3>1 DEF FlushConnection, Abstract!vars
    <3>2. CASE b[1] \in active
      <4>1. Abstract!Summarise(b[1])
        <5>1. /\ summaries' = summaries \cup {Summary(b[1])} /\ active' = active \ {b[1]}
              /\ seen' = [seen EXCEPT ![b[1]] = NothingSeen] /\ UNCHANGED <<now, lives, closed>>
          BY <2>4, <3>2 DEF FlushConnection, RemoveConnection
        <5>2. {Mapped(s) : s \in summaries'}
                = {Mapped(s) : s \in summaries} \cup {Abstract!SummaryOf(b[1])}
          BY <3>2, <5>1, SummaryIsAbstract
        <5>3. Abstract!Forget({b[1]})
          BY <5>1 DEF Abstract!Forget, IInv, TypeOK, NothingSeen
        <5> QED
          BY <3>2, <5>1, <5>2, <5>3 DEF Abstract!Summarise, Mapped
      <4> QED
        BY <3>2, <4>1 DEF Abstract!Next, IInv, TypeOK
    <3> QED
      BY <3>1, <3>2
  <2>5. CASE Close
    <3>1. /\ summaries' = summaries \cup {Summary(c) : c \in active} /\ active' = {}
          /\ seen' = [c \in Conns |-> NothingSeen]
          /\ ~closed /\ closed' = TRUE /\ UNCHANGED <<now, lives>>
      BY <2>5 DEF Close, FlushAll
    <3>2. {Mapped(s) : s \in summaries'}
            = {Mapped(s) : s \in summaries} \cup {Abstract!SummaryOf(c) : c \in active}
      BY <3>1, SummaryIsAbstract
    <3>3. Abstract!Forget(active)
      BY <3>1 DEF Abstract!Forget, IInv, InfoInv, NothingSeen
    <3> QED
      BY <3>1, <3>2, <3>3 DEF Abstract!Next, Abstract!Stop, Mapped
  <2>6. CASE CloseDownstream
    BY <2>6 DEF CloseDownstream, Abstract!vars
  <2>7. CASE UNCHANGED vars
    BY <2>7 DEF vars, Abstract!vars
  <2> QED
    BY <2>1, <2>2, <2>3, <2>4, <2>5, <2>6, <2>7 DEF Next
<1> QED
  BY <1>1, <1>2, TrackerTheorem, PTL DEF Spec, Abstract!Spec

-----------------------------------------------------------------------------
(* The streams *)

(* A call in progress is one of a direction, and none follows the end. *)
CallInv ==
  /\ call # NoCall => call.dir \in Dirs /\ ~ complete
  /\ call = NoCall \/ call.dir # NoDir

(* Who holds the bytes of direction d: only a parser holds any, a parser   *)
(* leaves nothing to the buffers, and between two calls unusedAcceptBuf    *)
(* mirrors what the assembler keeps, unless that follows parsed content.   *)
BufferInv(d) ==
  /\ d \notin parser => held[d] = 0
  /\ call.dir = d => kept[d] = 0 /\ d \notin behind
  /\ d \in parser => unused[d] = 0 /\ kept[d] = 0 /\ d \notin behind
  /\ call.dir # d /\ d \notin parser =>
       IF d \in behind THEN unused[d] = 0 ELSE unused[d] = kept[d]

Conserved(d) == delivered[d] = parsed[d] + dropped[d] + held[d] + kept[d] + InCall(d)

Reported(d) == d \in behind \/ parsed[d] + dropped[d] = delivered[d]

StreamIInv ==
  /\ StreamTypeOK /\ CallInv
  /\ ~ complete => \A d \in Dirs : BufferInv(d) /\ Conserved(d)
  /\ complete => \A d \in Dirs : Reported(d) /\ parsed[d] + dropped[d] <= delivered[d]

(* The initial state satisfies the inductive invariant. *)
LEMMA StreamStarts == StreamInit => StreamIInv
<1> SUFFICES ASSUME StreamInit PROVE StreamIInv
  OBVIOUS
<1>1. StreamTypeOK /\ CallInv
  BY DEF StreamInit, StreamTypeOK, CallInv, NoCall, NoDir, Zero
<1>2. ASSUME NEW d \in Dirs PROVE BufferInv(d) /\ Conserved(d)
  <2>1. held[d] = 0 /\ unused[d] = 0 /\ kept[d] = 0 /\ delivered[d] = 0 /\ parsed[d] = 0 /\ dropped[d] = 0
    BY DEF StreamInit, Zero
  <2>2. call.dir # d
    BY StreamAssumption DEF StreamInit, NoCall, NoDir
  <2> QED
    BY <2>1, <2>2 DEF StreamInit, BufferInv, Conserved, InCall
<1> QED
  BY <1>1, <1>2 DEF StreamIInv, StreamInit

(* The assembler's delivery keeps it: kept and new bytes move to the call. *)
LEMMA DeliverInv ==
  ASSUME StreamIInv, NEW d \in Dirs, NEW n \in 0..MaxChunk, NEW end \in BOOLEAN, ReassembledSG(d, n, end)
  PROVE  StreamIInv'
<1>1. StreamTypeOK' /\ CallInv' /\ ~ complete /\ ~ complete'
  BY StreamAssumption DEF StreamIInv, StreamTypeOK, CallInv, ReassembledSG, Set, Add, NoCall, NoDir
<1>2. ASSUME NEW x \in Dirs PROVE BufferInv(x)'
  BY StreamAssumption, <1>1 DEF StreamIInv, StreamTypeOK, BufferInv, ReassembledSG, Set, Add, NoCall, NoDir
<1>3. ASSUME NEW x \in Dirs PROVE Conserved(x)'
  BY StreamAssumption, <1>1 DEF StreamIInv, StreamTypeOK, Conserved, InCall, ReassembledSG, Set, Add, NoCall, NoDir
<1> QED
  BY <1>1, <1>2, <1>3 DEF StreamIInv

(* So does every answer of the selector. *)
LEMMA SelectInv ==
  ASSUME StreamIInv, NEW d \in Dirs, NEW k \in Nat,
         NeedMoreData(d, k) \/ Reject(d) \/ AcceptBy(d, k) \/ AcceptWithoutContext(d)
  PROVE  StreamIInv'
<1>a. ~ complete /\ ~ complete' /\ call.dir = d /\ d \notin parser /\ call.len \in Nat /\ call.end \in BOOLEAN
  BY DEF StreamIInv, StreamTypeOK, CallInv, NeedMoreData, Reject, AcceptBy, AcceptWithoutContext, Selecting
<1>b. \/ call' = NoCall
      \/ call' = [call EXCEPT !.len = @ - k] /\ k < call.len
  BY DEF NeedMoreData, Reject, AcceptBy, AcceptWithoutContext
<1>c. call' \in [dir : Dirs \cup {NoDir}, len : Nat, end : BOOLEAN] /\ (call' # NoCall => call'.dir = d)
  <2>1. CASE call' = NoCall
    BY <2>1 DEF NoCall
  <2>2. CASE call' = [call EXCEPT !.len = @ - k] /\ k < call.len
    <3>1. call.len - k \in Nat
      BY <1>a, <2>2
    <3> QED
      BY <1>a, <2>2, <3>1 DEF StreamIInv, StreamTypeOK
  <2> QED
    BY <1>b, <2>1, <2>2
<1>d. call' = NoCall \/ call'.dir # NoDir
  BY <1>c, StreamAssumption DEF NoDir
<1>e. dropped' \in [Dirs -> Nat] /\ kept' \in [Dirs -> Nat] /\ unused' \in [Dirs -> Nat] /\ parser' \in SUBSET Dirs
  BY <1>a DEF StreamIInv, StreamTypeOK, NeedMoreData, Reject, AcceptBy, AcceptWithoutContext, Set, Add
<1>1. StreamTypeOK' /\ CallInv' /\ ~ complete /\ ~ complete' /\ call.dir = d /\ d \notin parser
  BY <1>a, <1>c, <1>d, <1>e DEF StreamIInv, StreamTypeOK, CallInv, NeedMoreData, Reject, AcceptBy, AcceptWithoutContext
<1>2. ASSUME NEW x \in Dirs PROVE BufferInv(x)'
  BY StreamAssumption, <1>1 DEF StreamIInv, StreamTypeOK, BufferInv, NeedMoreData, Reject, AcceptBy,
     AcceptWithoutContext, Selecting, Set, Add, NoCall, NoDir
<1>3. ASSUME NEW x \in Dirs PROVE Conserved(x)'
  <2>1. BufferInv(d) /\ Conserved(x) /\ NoCall.dir \notin Dirs
    BY StreamAssumption, <1>1 DEF StreamIInv, NoCall, NoDir
  <2>2. CASE x # d
    BY <1>1, <1>b, <2>1, <2>2 DEF StreamIInv, StreamTypeOK, Conserved, InCall, NeedMoreData, Reject, AcceptBy,
       AcceptWithoutContext, Set, Add
  <2>3. CASE x = d
    <3>1. CASE call' = NoCall
      BY <1>1, <2>1, <2>3, <3>1 DEF StreamIInv, StreamTypeOK, BufferInv, Conserved, InCall, NeedMoreData, Reject,
         AcceptBy, AcceptWithoutContext, Set, Add
    <3>2. CASE call' # NoCall
      <4>1. AcceptBy(d, k) /\ call'.len = call.len - k /\ call'.dir = d
        BY <1>1, <1>b, <3>2 DEF StreamIInv, StreamTypeOK, NeedMoreData, Reject, AcceptWithoutContext
      <4> QED
        BY <1>1, <2>1, <2>3, <4>1 DEF StreamIInv, StreamTypeOK, Conserved, InCall, AcceptBy, Add
    <3> QED
      BY <3>1, <3>2
  <2> QED
    BY <2>2, <2>3
<1> QED
  BY <1>1, <1>2, <1>3 DEF StreamIInv

(* And every answer of the parser. *)
LEMMA ParseInv ==
  ASSUME StreamIInv, NEW d \in Dirs, NEW u \in Nat,
         ParseFails(d) \/ ParseCompletes(d, u) \/ ParseContinues(d)
  PROVE  StreamIInv'
<1>a. ~ complete /\ ~ complete' /\ call.dir = d /\ d \in parser /\ call.len \in Nat /\ call.end \in BOOLEAN
  BY DEF StreamIInv, StreamTypeOK, CallInv, ParseFails, ParseCompletes, ParseContinues, Parsing
<1>b. call' = NoCall \/ call' = [call EXCEPT !.len = u]
  BY DEF ParseFails, ParseCompletes, ParseContinues
<1>c. call' \in [dir : Dirs \cup {NoDir}, len : Nat, end : BOOLEAN] /\ (call' # NoCall => call'.dir = d)
  <2>1. CASE call' = NoCall
    BY <2>1 DEF NoCall
  <2>2. CASE call' = [call EXCEPT !.len = u]
    BY <1>a, <2>2 DEF StreamIInv, StreamTypeOK
  <2> QED
    BY <1>b, <2>1, <2>2
<1>d. call' = NoCall \/ call'.dir # NoDir
  BY <1>c, StreamAssumption DEF NoDir
<1>e. /\ dropped' \in [Dirs -> Nat] /\ parsed' \in [Dirs -> Nat] /\ held' \in [Dirs -> Nat]
      /\ kept' \in [Dirs -> Nat] /\ parser' \in SUBSET Dirs /\ behind' \in SUBSET Dirs
  <2>1. CASE ParseFails(d)
    BY <1>a, <2>1 DEF StreamIInv, StreamTypeOK, ParseFails, Set, Add
  <2>2. CASE ParseCompletes(d, u)
    <3>1. held[d] \in Nat /\ held[d] + call.len - u \in Nat
      BY <1>a, <2>2 DEF StreamIInv, StreamTypeOK, ParseCompletes
    <3>2. (kept' = kept /\ behind' = behind) \/ (kept' = Set(kept, d, u) /\ behind' = behind \cup {d})
      BY <2>2 DEF ParseCompletes
    <3> QED
      BY <2>2, <3>1, <3>2 DEF StreamIInv, StreamTypeOK, ParseCompletes, Set, Add
  <2>3. CASE ParseContinues(d)
    BY <1>a, <2>3 DEF StreamIInv, StreamTypeOK, ParseContinues, Add
  <2> QED
    BY <2>1, <2>2, <2>3
<1>1. StreamTypeOK' /\ CallInv' /\ ~ complete /\ ~ complete' /\ call.dir = d /\ d \in parser
  BY <1>a, <1>c, <1>d, <1>e DEF StreamIInv, StreamTypeOK, CallInv, ParseFails, ParseCompletes, ParseContinues
<1>2. ASSUME NEW x \in Dirs PROVE BufferInv(x)'
  BY StreamAssumption, <1>1 DEF StreamIInv, StreamTypeOK, BufferInv, ParseFails, ParseCompletes,
     ParseContinues, Parsing, Set, Add, NoCall, NoDir
<1>3. ASSUME NEW x \in Dirs PROVE Conserved(x)'
  BY StreamAssumption, <1>1 DEF StreamIInv, StreamTypeOK, BufferInv, Conserved, InCall, ParseFails,
     ParseCompletes, ParseContinues, Parsing, Set, Add, NoCall, NoDir
<1> QED
  BY <1>1, <1>2, <1>3 DEF StreamIInv

(* The end of the stream reports all bytes but those behind content. *)
LEMMA CompleteInv ==
  ASSUME StreamIInv, ReassemblyComplete
  PROVE  StreamIInv'
<1>1. ~ complete /\ complete' /\ call = NoCall /\ call' = NoCall
  BY DEF ReassemblyComplete
<1>2. PICK ok \in SUBSET Dirs, rest \in [Dirs -> 0..MaxBytes] :
        /\ \A d \in Dirs : rest[d] <= held[d]
        /\ parsed'  = [d \in Dirs |-> parsed[d] + FlowParsed(d, ok, rest)]
        /\ dropped' = [d \in Dirs |-> dropped[d] + FlowDropped(d, ok, rest)]
  BY DEF ReassemblyComplete
<1>3. ASSUME NEW d \in Dirs
      PROVE  FlowParsed(d, ok, rest) \in Nat /\ FlowDropped(d, ok, rest) \in Nat
  BY <1>2, StreamAssumption DEF StreamIInv, StreamTypeOK, FlowParsed, FlowDropped
<1>4. StreamTypeOK'
  BY <1>1, <1>2, <1>3 DEF StreamIInv, StreamTypeOK, ReassemblyComplete, Zero
<1>5. CallInv'
  BY <1>1 DEF CallInv
<1>6. ASSUME NEW d \in Dirs
      PROVE  Reported(d)' /\ parsed'[d] + dropped'[d] <= delivered'[d]
  <2>1. InCall(d) = 0
    BY <1>1, StreamAssumption DEF InCall, NoCall, NoDir
  <2>2. BufferInv(d) /\ Conserved(d) /\ call.dir # d
    BY <1>1, StreamAssumption DEF StreamIInv, NoCall, NoDir
  <2>3. /\ parsed'[d] = parsed[d] + FlowParsed(d, ok, rest)
        /\ dropped'[d] = dropped[d] + FlowDropped(d, ok, rest)
        /\ delivered' = delivered /\ behind' = behind /\ rest[d] \in Nat /\ rest[d] <= held[d]
    BY <1>2, StreamAssumption DEF ReassemblyComplete
  <2> QED
    BY <2>1, <2>2, <2>3, StreamAssumption DEF StreamIInv, StreamTypeOK, BufferInv, Conserved, Reported, FlowParsed, FlowDropped
<1> QED
  BY <1>1, <1>4, <1>5, <1>6 DEF StreamIInv

(* The inductive invariant holds in every reachable state. *)
THEOREM StreamInvariant == StreamSpec => []StreamIInv
<1>1. StreamIInv /\ [StreamNext]_streamVars => StreamIInv'
  <2> SUFFICES ASSUME StreamIInv, [StreamNext]_streamVars PROVE StreamIInv'
    OBVIOUS
  <2>1. CASE UNCHANGED streamVars
    BY <2>1 DEF StreamIInv, StreamTypeOK, CallInv, BufferInv, Conserved, Reported, InCall, streamVars
  <2>2. CASE Accept
    BY <2>2 DEF StreamIInv, StreamTypeOK, CallInv, BufferInv, Conserved, Reported, InCall, Accept
  <2>3. ASSUME NEW d \in Dirs, NEW n \in 0..MaxChunk, NEW end \in BOOLEAN, ReassembledSG(d, n, end)
        PROVE  StreamIInv'
    BY <2>3, DeliverInv
  <2>4. ASSUME NEW d \in Dirs, NEW k \in 0..MaxBytes,
               NeedMoreData(d, k) \/ Reject(d) \/ AcceptBy(d, k) \/ AcceptWithoutContext(d)
        PROVE  StreamIInv'
    BY <2>4, SelectInv, StreamAssumption
  <2>5. ASSUME NEW d \in Dirs, NEW k \in 0..MaxBytes,
               ParseFails(d) \/ ParseCompletes(d, k) \/ ParseContinues(d)
        PROVE  StreamIInv'
    BY <2>5, ParseInv, StreamAssumption
  <2>6. CASE ReassemblyComplete
    BY <2>6, CompleteInv
  <2>7. 0 \in 0..MaxBytes
    BY StreamAssumption
  <2> QED
    BY <2>1, <2>2, <2>3, <2>4, <2>5, <2>6, <2>7 DEF StreamNext
<1> QED
  BY <1>1, StreamStarts, PTL DEF StreamSpec

(* While the stream lives no byte is lost or counted twice, whatever the   *)
(* selector and the parsers answer.                                        *)
THEOREM ConservationTheorem == StreamSpec => [](StreamTypeOK /\ BytesConserved)
<1>1. StreamIInv => StreamTypeOK /\ BytesConserved
  BY DEF StreamIInv, BytesConserved, Conserved
<1> QED
  BY <1>1, StreamInvariant, PTL

(* Nothing is ever reported twice, and the end of the stream loses at most *)
(* the bytes that followed parsed content.                                 *)
THEOREM EndTheorem == StreamSpec => []ReportsAreSound
<1>1. ASSUME StreamIInv, ~ complete, NEW d \in Dirs PROVE parsed[d] + dropped[d] <= delivered[d]
  BY <1>1 DEF StreamIInv, StreamTypeOK, Conserved, InCall
<1>2. StreamIInv => ReportsAreSound
  BY <1>1 DEF StreamIInv, ReportsAreSound, NothingReportedTwice, LossOnlyBehindContent, Reported
<1> QED
  BY <1>2, StreamInvariant, PTL
=============================================================================
