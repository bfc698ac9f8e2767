--------------------------- MODULE TLSConnTracker ---------------------------
(***************************************************************************)
(* tls_conn_tracker/tls_conn_tracker.go: joins the client hello and the    *)
(* server hello of a connection into one handshake summary.  A partial     *)
(* handshake is dropped by a timer armed when its entry was made; the      *)
(* timer is neither reset by a later hello nor stopped by the flush, and   *)
(* its callback only knows the connection ID.  Every entry is a life of    *)
(* its connection.  AddClientHello and AddServerHello are library calls    *)
(* that may fail and then leave the entry as it was.                       *)
(***************************************************************************)
EXTENDS Integers, FiniteSets

CONSTANTS
  Conns,      \* akid.ConnectionIDs
  Timeout,    \* connectionTimeout
  MaxHellos,  \* bound on the hellos of each kind per connection
  MaxCapture, \* no packet arrives after this time (bound)
  MaxTime     \* bound on time

ASSUME TLSAssumption ==
  Timeout \in Nat \ {0} /\ MaxHellos \in Nat /\ MaxCapture \in Nat /\ MaxTime \in Nat

Hellos == {"client", "server"}

VARIABLES
  now,
  active,      \* activeConnections: the connections with an entry
  hellos,      \* handshakeMetadata: which hellos an entry has
  life,        \* addConnection calls per connection
  timers,      \* armed timers <<conn, life, due>>
  callbacks,   \* timers that fired and wait for the mutex
  closed,
  received,    \* history: hellos received per connection and kind
  reported     \* history: handshakes sent downstream per connection

vars == <<now, active, hellos, life, timers, callbacks, closed, received, reported>>

Init ==
  /\ now = 0
  /\ active = {}
  /\ hellos = [c \in Conns |-> {}]
  /\ life = [c \in Conns |-> 0]
  /\ timers = {} /\ callbacks = {}
  /\ closed = FALSE
  /\ received = [c \in Conns |-> [h \in Hellos |-> 0]]
  /\ reported = [c \in Conns |-> 0]

Tick ==
  /\ now < MaxTime
  /\ \A t \in timers : t[3] > now
  /\ now' = now + 1
  /\ UNCHANGED <<active, hellos, life, timers, callbacks, closed, received, reported>>

(* ensureConnection and addConnection. *)
EnsureConnection(c) ==
  IF c \in active THEN UNCHANGED <<life, timers>>
  ELSE /\ life' = [life EXCEPT ![c] = @ + 1]
       /\ timers' = timers \cup {<<c, life[c] + 1, now + Timeout>>}

EntryHellos(c) == IF c \in active THEN hellos[c] ELSE {}

(* Mutant: the client hello completes the handshake. *)
HandshakeCompleteClientOnly(hs) == "client" \in hs

HandshakeComplete(hs) == hs = Hellos

FlushConnection(c) ==
  /\ reported' = [reported EXCEPT ![c] = @ + 1]
  /\ active' = active \ {c}

Receive(c, h) ==
  /\ ~closed /\ now <= MaxCapture
  /\ received[c][h] < MaxHellos
  /\ received' = [received EXCEPT ![c][h] = @ + 1]
  /\ EnsureConnection(c)
  /\ UNCHANGED <<now, callbacks, closed>>

(* A hello that is added; the second one completes and flushes the entry. *)
ProcessHello(c, h) ==
  /\ Receive(c, h)
  /\ hellos' = [hellos EXCEPT ![c] = EntryHellos(c) \cup {h}]
  /\ IF HandshakeComplete(EntryHellos(c) \cup {h})
     THEN FlushConnection(c)
     ELSE active' = active \cup {c} /\ UNCHANGED reported

(* AddClientHello or AddServerHello fails: the entry stays. *)
ProcessBadHello(c, h) ==
  /\ Receive(c, h)
  /\ hellos' = [hellos EXCEPT ![c] = EntryHellos(c)]
  /\ active' = active \cup {c}
  /\ UNCHANGED reported

TimerFires(t) ==
  /\ t[3] <= now
  /\ timers' = timers \ {t}
  /\ callbacks' = callbacks \cup {<<t[1], t[2]>>}
  /\ UNCHANGED <<now, active, hellos, life, closed, received, reported>>

(* The callback gets the mutex and deletes whatever entry its ID has now. *)
DropConnection(b) ==
  /\ callbacks' = callbacks \ {b}
  /\ active' = active \ {b[1]}
  /\ UNCHANGED <<now, hellos, life, timers, closed, received, reported>>

(* Close, and the downstream Close under the same mutex. *)
Close ==
  /\ ~closed
  /\ closed' = TRUE
  /\ timers' = {t \in timers : t[1] \notin active \/ t[2] # life[t[1]]}
  /\ active' = {}
  /\ UNCHANGED <<now, hellos, life, callbacks, received, reported>>

Next ==
  \/ Tick \/ Close
  \/ \E c \in Conns, h \in Hellos : ProcessHello(c, h) \/ ProcessBadHello(c, h)
  \/ \E t \in timers : TimerFires(t)
  \/ \E b \in callbacks : DropConnection(b)

Spec == Init /\ [][Next]_vars

-----------------------------------------------------------------------------
(* Properties *)

(* Type invariant of the tracker. *)
TypeOK ==
  /\ active \subseteq Conns
  /\ hellos \in [Conns -> SUBSET Hellos]
  /\ life \in [Conns -> Nat] /\ reported \in [Conns -> Nat]
  /\ received \in [Conns -> [Hellos -> Nat]]
  /\ now \in Nat /\ timers \subseteq Conns \X Nat \X Nat /\ callbacks \subseteq Conns \X Nat
  /\ \A c \in active : hellos[c] # Hellos
  /\ closed \in BOOLEAN

(* A handshake is reported only for a client hello and a server hello of   *)
(* its own: no hello is used for two handshakes, whatever retransmissions, *)
(* failures and timeouts come between (HandshakeComplete, flushConnection). *)
HellosUsedOnce ==
  \A c \in Conns : \A h \in Hellos :
    reported[c] + (IF c \in active /\ h \in hellos[c] THEN 1 ELSE 0) <= received[c][h]

(* Every entry has a timer or a waiting callback that will remove it: no   *)
(* partial handshake is kept for ever (addConnection).                     *)
PartialHasTimer ==
  \A c \in active : \/ \E t \in timers : t[1] = c
                    \/ \E b \in callbacks : b[1] = c

(* Hellos repeat, fail to parse and time out: none serves two handshakes,  *)
(* and every partial handshake has a timer that will remove it.            *)
HandshakeInv == TypeOK /\ HellosUsedOnce /\ PartialHasTimer
=============================================================================
