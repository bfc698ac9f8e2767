--------------------------- MODULE TCPConnTracker ---------------------------
(***************************************************************************)
(* tcp_conn_tracker/tcp_conn_tracker.go: turns TCP packet metadata into    *)
(* one summary per connection.  The capture goroutine calls Process and    *)
(* Close; time.AfterFunc timers call flushConnection in goroutines of      *)
(* their own.  All take the same mutex, so each is one step, but a timer   *)
(* that has fired may wait for the mutex (a callback) while Process runs.  *)
(*                                                                         *)
(* A connection that is flushed and seen again starts another life.  A     *)
(* timer belongs to a life, its callback only knows the connection ID.     *)
(***************************************************************************)
EXTENDS Integers, FiniteSets

CONSTANTS
  Conns,      \* akid.ConnectionIDs
  Timeout,    \* connectionTimeout
  MaxLag,     \* how far an ObservationTime may lie in the past
  MaxCapture, \* no packet arrives after this time (bound)
  MaxLives,   \* bound on the lives of a connection
  MaxTime     \* bound on time

ASSUME TCPAssumption ==
  /\ Timeout \in Nat \ {0} /\ MaxLag \in Nat /\ MaxCapture \in Nat
  /\ MaxLives \in Nat /\ MaxTime \in Nat

Sides == {"client", "server"}   \* who really opened the connection
Kinds == {"SYN", "SYNACK", "ACK", "DATA", "FIN", "RST"}

(* Packets TCP sends: the client sends the SYN, the server the SYN-ACK. *)
Packets == {p \in Kinds \X Sides : /\ p[1] = "SYN" => p[2] = "client"
                                   /\ p[1] = "SYNACK" => p[2] = "server"}

VARIABLES
  now,
  active,      \* activeConnections: the connections with an entry
  info,        \* connectionInfo of each connection (meaningful when active)
  timers,      \* armed timers <<conn, life, due>>
  callbacks,   \* timers that fired and wait for the mutex: <<conn, life>>
  closed,      \* closed
  downClosed,  \* the downstream collector is closed
  lives,       \* addConnection calls per connection
  summaries,   \* history: summaries sent downstream
  late,        \* history: a summary was sent after the downstream closed
  seen         \* history: what was observed in each connection's current life

vars == <<now, active, info, timers, callbacks, closed, downClosed, lives, summaries,
          late, seen>>

NoInfo == [src |-> "client", first |-> 0, last |-> 0,
           initiator |-> "unknown", endState |-> "open"]
NothingSeen == [times |-> {}, facts |-> {}]

Init ==
  /\ now = 0
  /\ active = {}
  /\ info = [c \in Conns |-> NoInfo]
  /\ timers = {} /\ callbacks = {}
  /\ closed = FALSE /\ downClosed = FALSE
  /\ lives = [c \in Conns |-> 0]
  /\ summaries = {}
  /\ late = FALSE
  /\ seen = [c \in Conns |-> NothingSeen]

Tick ==
  /\ now < MaxTime
  /\ \A t \in timers : t[3] > now
  /\ now' = now + 1
  /\ UNCHANGED <<active, info, timers, callbacks, closed, downClosed, lives, summaries,
                 late, seen>>

(* What a packet says of its connection besides its time; the first packet *)
(* of a life is only counted (addConnection).                              *)
FactsOf(p) == CASE p[1] \in {"SYN", "SYNACK"} -> {"handshake"}
                [] p[1] \in {"FIN", "RST"} -> {p[1]}
                [] OTHER -> {}

Observe(c, p, t) ==
  seen' = [seen EXCEPT ![c] = [times |-> @.times \cup {t},
                               facts |-> IF c \in active THEN @.facts \cup FactsOf(p) ELSE {}]]

(* A packet of a connection without an entry: pure ACKs and RSTs are taken *)
(* for stragglers of a closed connection, anything else adds an entry      *)
(* whose initiator is unknown and whose end state is open.                 *)
Straggler(p) == p[1] \in {"ACK", "RST"}

ProcessUnknown(c, p, t) ==
  /\ c \notin active
  /\ IF Straggler(p)
     THEN UNCHANGED <<active, info, timers, lives, seen>>
     ELSE /\ lives[c] < MaxLives
          /\ active' = active \cup {c}
          /\ info' = [info EXCEPT ![c] = [src |-> p[2], first |-> t, last |-> t,
                                          initiator |-> "unknown", endState |-> "open"]]
          /\ lives' = [lives EXCEPT ![c] = @ + 1]
          /\ timers' = timers \cup {<<c, lives[c] + 1, now + Timeout>>}
          /\ Observe(c, p, t)

(* Mutant: SYN and SYN-ACK are not told apart. *)
InferInitiatorSynOnly(i, p) ==
  IF i.initiator = "unknown" /\ p[1] \in {"SYN", "SYNACK"}
  THEN IF p[2] = i.src THEN "source" ELSE "dest"
  ELSE i.initiator

InferInitiator(i, p) ==
  CASE i.initiator # "unknown" -> i.initiator
    [] i.initiator = "unknown" /\ p[1] = "SYNACK" -> IF p[2] = i.src THEN "dest" ELSE "source"
    [] i.initiator = "unknown" /\ p[1] = "SYN"    -> IF p[2] = i.src THEN "source" ELSE "dest"
    [] OTHER -> i.initiator

EndState(s, p) ==
  CASE p[1] = "FIN" /\ s = "open" -> "closed"
    [] p[1] = "RST" -> "reset"
    [] OTHER -> s

AugmentWith(i, p, t) ==
  [i EXCEPT !.first = IF t < @ THEN t ELSE @,
            !.last  = IF t > @ THEN t ELSE @,
            !.initiator = InferInitiator(i, p),
            !.endState = EndState(i.endState, p)]

(* A packet of a tracked connection: augmentWith, whose last statement is  *)
(* timeout.Reset.                                                          *)
ProcessKnown(c, p, t) ==
  /\ c \in active
  /\ info' = [info EXCEPT ![c] = AugmentWith(@, p, t)]
  /\ timers' = {r \in timers : r[1] # c \/ r[2] # lives[c]}
               \cup {<<c, lives[c], now + Timeout>>}
  /\ Observe(c, p, t)
  /\ UNCHANGED <<active, lives>>

Process(c, p) ==
  /\ ~closed /\ now <= MaxCapture
  /\ \E lag \in 0..MaxLag :
       LET t == IF lag > now THEN 0 ELSE now - lag IN
       ProcessUnknown(c, p, t) \/ ProcessKnown(c, p, t)
  /\ UNCHANGED <<now, callbacks, closed, downClosed, summaries, late>>

(* The summary of c that Process of the downstream collector receives. *)
Summary(c) == [conn |-> c, life |-> lives[c], info |-> info[c]]

(* The runtime starts a goroutine for a due timer. *)
TimerFires(t) ==
  /\ t[3] <= now
  /\ timers' = timers \ {t}
  /\ callbacks' = callbacks \cup {<<t[1], t[2]>>}
  /\ UNCHANGED <<now, active, info, closed, downClosed, lives, summaries, late, seen>>

(* Mutant: the entry is not deleted. *)
RemoveConnectionForgotten(c) == UNCHANGED active

RemoveConnection(c) == active' = active \ {c}

(* The callback gets the mutex: flushConnection. *)
FlushConnection(b) ==
  /\ callbacks' = callbacks \ {b}
  /\ IF b[1] \in active
     THEN /\ summaries' = summaries \cup {Summary(b[1])}
          /\ RemoveConnection(b[1])
          /\ late' = (late \/ downClosed)
          /\ seen' = [seen EXCEPT ![b[1]] = NothingSeen]
     ELSE UNCHANGED <<summaries, active, late, seen>>
  /\ UNCHANGED <<now, info, timers, closed, downClosed, lives>>

(* close(): summarises what is active and stops those timers. *)
FlushAll ==
  /\ summaries' = summaries \cup {Summary(c) : c \in active}
  /\ timers' = {t \in timers : t[1] \notin active \/ t[2] # lives[t[1]]}
  /\ active' = {}
  /\ seen' = [c \in Conns |-> NothingSeen]

Close ==
  /\ ~closed
  /\ closed' = TRUE
  /\ FlushAll
  /\ UNCHANGED <<now, info, callbacks, downClosed, lives, late>>

(* Close then closes the downstream collector, without the mutex. *)
CloseDownstream ==
  /\ closed /\ ~downClosed
  /\ downClosed' = TRUE
  /\ UNCHANGED <<now, active, info, timers, callbacks, closed, lives, summaries, late,
                 seen>>

Next ==
  \/ Tick
  \/ \E c \in Conns, p \in Packets : Process(c, p)
  \/ \E t \in timers : TimerFires(t)
  \/ \E b \in callbacks : FlushConnection(b)
  \/ Close \/ CloseDownstream

Spec == Init /\ [][Next]_vars

(* Timers fire, callbacks get the mutex and time passes; packets and Close *)
(* need not come.                                                          *)
Fairness ==
  /\ WF_vars(Tick)
  /\ WF_vars(\E t \in timers : TimerFires(t))
  /\ WF_vars(\E b \in callbacks : FlushConnection(b))

FairSpec == Spec /\ Fairness

-----------------------------------------------------------------------------
(* Properties *)

ConnectionInfo == [src : Sides, first : Nat, last : Nat,
                   initiator : {"unknown", "source", "dest"},
                   endState : {"open", "closed", "reset"}]

(* Type invariant of the tracker. *)
TypeOK ==
  /\ now \in 0..MaxTime
  /\ active \subseteq Conns
  /\ info \in [Conns -> ConnectionInfo]
  /\ timers \subseteq Conns \X (1..MaxLives) \X Nat
  /\ callbacks \subseteq Conns \X (1..MaxLives)
  /\ closed \in BOOLEAN /\ downClosed \in BOOLEAN /\ late \in BOOLEAN
  /\ lives \in [Conns -> 0..MaxLives]
  /\ summaries \subseteq [conn : Conns, life : 1..MaxLives, info : ConnectionInfo]
  /\ seen \in [Conns -> [times : SUBSET Nat, facts : SUBSET {"handshake", "FIN", "RST"}]]

(* Every life of a connection ends in exactly one summary: none is lost    *)
(* and none is sent twice, whatever timers fire late (flushConnection,     *)
(* close).                                                                 *)
OneSummaryPerLife ==
  \A c \in Conns :
    /\ Cardinality({s \in summaries : s.conn = c})
         = lives[c] - (IF c \in active THEN 1 ELSE 0)
    /\ \A s1, s2 \in summaries : s1.conn = c /\ s2.conn = c /\ s1.life = s2.life => s1 = s2

(* Nothing is sent to a downstream collector that is closed, not even by a *)
(* timer that fired before Close and gets the mutex after it.              *)
QuietAfterClose == ~late

(* Timers, packets and Close race for the mutex: every life is summarised  *)
(* once and the downstream collector is left alone after Close.            *)
TrackerInv == TypeOK /\ OneSummaryPerLife /\ QuietAfterClose

(* The side that a connection's initiator field names. *)
Opener(i) ==
  IF i.initiator = "unknown" THEN "unknown"
  ELSE IF i.initiator = "source" THEN i.src ELSE CHOOSE x \in Sides : x # i.src

(* The tracker implements ConnSummaries: however packets, timers and Close *)
(* race, each life is summarised once, with the times of all its packets   *)
(* and what those after the first one said, in whatever order they came,   *)
(* nothing after Close; and a silent connection is summarised in the end   *)
(* (Process, addConnection, augmentWith, flushConnection, close).          *)
Abstract == INSTANCE ConnSummaries WITH
  Facts     <- {"handshake", "FIN", "RST"},
  Times     <- 0..MaxTime,
  open      <- active,
  times     <- [c \in Conns |-> seen[c].times],
  facts     <- [c \in Conns |-> seen[c].facts],
  summaries <- {[conn |-> s.conn, life |-> s.life, first |-> s.info.first, last |-> s.info.last,
                 end |-> s.info.endState, opener |-> Opener(s.info)] : s \in summaries},
  quiet     <- now > MaxCapture,
  stopped   <- closed

ImplementsConnSummaries == Abstract!FairSpec
=============================================================================
