---------------------------- MODULE DaemonProofs ----------------------------
(***************************************************************************)
(* Proofs about Daemon, for any services, clients and traces and channels  *)
(* of any capacity: one long poll per service, clients that are up to      *)
(* date, and tables that fit the goroutines around the main one.           *)
(***************************************************************************)
EXTENDS Daemon, FiniteSetTheorems, TLAPS

Queued(e) == \E i \in 1..Len(queue) : queue[i] = e

(* A change is about traces of its service; a trace-event request that is  *)
(* in the channel is there once, and its handler waits for it.             *)
QueueInv ==
  /\ \A i \in 1..Len(queue) : queue[i].type = "changed" =>
       \A t \in queue[i].act \cup queue[i].deact : ServiceOf[t] = queue[i].svc
  /\ \A r \in Requests : \A i, j \in 1..Len(queue) :
       queue[i] = Events(r) => req[r].pc = "queued" /\ (queue[j] = Events(r) => j = i)

(* A trace that is not known left nothing behind, one that is known has a  *)
(* channel, and an upload has one of the channels of its trace.            *)
TraceInv ==
  /\ \A t \in Traces : IF info[t].known THEN Len(chans[t]) > 0 ELSE info[t] = NoInfo
  /\ \A r \in Requests : req[r].pc = "uploading" => req[r].chan \in Incarnations(req[r].trace)

(* Client c is about to be unregistered from t; is registered with it. *)
Leaves(c, t) == unreg[c][t] > 0 \/ Queued(Unregister(c, t))
IsClient(c, t) == info[t].known /\ c \in info[t].clients

(* Whoever is about to be unregistered from a trace has ended a stream of  *)
(* it, and so has whoever sends the last request of one.  An upload whose  *)
(* client has not is to a registered client's trace, by its newest         *)
(* channel.                                                                *)
LastInv ==
  /\ \A c \in Clients, t \in Traces : Leaves(c, t) => t \in finished[c]
  /\ \A r \in Requests : req[r].pc # "idle" /\ req[r].last => req[r].trace \in finished[req[r].client]
  /\ \A r \in Requests : req[r].pc = "uploading" =>
       \/ IsClient(req[r].client, req[r].trace) /\ req[r].chan = Len(chans[req[r].trace])
       \/ req[r].trace \in finished[req[r].client]

IInv == /\ TypeOK /\ OnePollerPerService /\ ParkedClientIsCurrent /\ OnlyUsefulTraces
        /\ QueueInv /\ TraceInv /\ LastInv

-----------------------------------------------------------------------------
(* The events of eventChannel. *)
LEMMA EventKinds ==
  ASSUME NEW e \in Event
  PROVE  /\ e.type \in {"heartbeat", "longPoll", "changed", "register", "events", "unregister"}
         /\ e.type = "longPoll" => e.svc \in Services
         /\ e.type = "changed" => e.svc \in Services /\ e.act \subseteq Traces /\ e.deact \subseteq Traces
         /\ e.type = "register" => e.client \in Clients
         /\ e.type = "events" => e.req \in Requests /\ e = Events(e.req)
         /\ e.type = "unregister" => /\ e.client \in Clients /\ e.trace \in Traces
                                     /\ e = Unregister(e.client, e.trace)
<1> USE DEF Heartbeat, LongPoll, Changed, Register, Events, Unregister
<1>1. CASE e = Heartbeat
  BY <1>1
<1>2. ASSUME NEW s \in Services, e = LongPoll(s) PROVE e.type = "longPoll" /\ e.svc \in Services
  BY <1>2
<1>3. ASSUME NEW s \in Services, NEW A \in SUBSET Traces, NEW D \in SUBSET Traces, e = Changed(s, A, D)
      PROVE  e.type = "changed" /\ e.svc \in Services /\ e.act \subseteq Traces /\ e.deact \subseteq Traces
  BY <1>3
<1>4. ASSUME NEW c \in Clients, e = Register(c) PROVE e.type = "register" /\ e.client \in Clients
  BY <1>4
<1>5. ASSUME NEW r \in Requests, e = Events(r)
      PROVE  e.type = "events" /\ e.req \in Requests /\ e = Events(e.req)
  BY <1>5
<1>6. ASSUME NEW c \in Clients, NEW t \in Traces, e = Unregister(c, t)
      PROVE  /\ e.type = "unregister" /\ e.client \in Clients /\ e.trace \in Traces
             /\ e = Unregister(e.client, e.trace)
  BY <1>6
<1> HIDE DEF Heartbeat, LongPoll, Changed, Register, Events, Unregister
<1>7. CASE e = Heartbeat
  BY <1>7 DEF Heartbeat
<1> QED
  BY <1>2, <1>3, <1>4, <1>5, <1>6, <1>7 DEF Event

LEMMA NewEvents ==
  /\ Heartbeat \in Event /\ Heartbeat.type = "heartbeat"
  /\ \A s \in Services : LongPoll(s) \in Event /\ LongPoll(s).type = "longPoll" /\ LongPoll(s).svc = s
  /\ \A s \in Services, A \in SUBSET Traces, D \in SUBSET Traces :
       /\ Changed(s, A, D) \in Event /\ Changed(s, A, D).type = "changed"
       /\ Changed(s, A, D).svc = s /\ Changed(s, A, D).act = A /\ Changed(s, A, D).deact = D
  /\ \A c \in Clients : Register(c) \in Event /\ Register(c).type = "register"
  /\ \A r \in Requests : Events(r) \in Event /\ Events(r).type = "events" /\ Events(r).req = r
  /\ \A c \in Clients, t \in Traces :
       /\ Unregister(c, t) \in Event /\ Unregister(c, t).type = "unregister"
       /\ Unregister(c, t).client = c /\ Unregister(c, t).trace = t
<1>1. Heartbeat \in Event /\ Heartbeat.type = "heartbeat"
  BY DEF Event, Heartbeat
<1>2. ASSUME NEW s \in Services
      PROVE  LongPoll(s) \in Event /\ LongPoll(s).type = "longPoll" /\ LongPoll(s).svc = s
  <2>1. LongPoll(s) \in Event
    BY DEF Event
  <2> QED
    BY <2>1 DEF LongPoll
<1>3. ASSUME NEW s \in Services, NEW A \in SUBSET Traces, NEW D \in SUBSET Traces
      PROVE  /\ Changed(s, A, D) \in Event /\ Changed(s, A, D).type = "changed"
             /\ Changed(s, A, D).svc = s /\ Changed(s, A, D).act = A /\ Changed(s, A, D).deact = D
  <2>1. Changed(s, A, D) \in Event
    BY DEF Event
  <2> QED
    BY <2>1 DEF Changed
<1>4. ASSUME NEW c \in Clients
      PROVE  Register(c) \in Event /\ Register(c).type = "register"
  <2>1. Register(c) \in Event
    BY DEF Event
  <2> QED
    BY <2>1 DEF Register
<1>6. ASSUME NEW r \in Requests
      PROVE  Events(r) \in Event /\ Events(r).type = "events" /\ Events(r).req = r
  <2>1. Events(r) \in Event
    BY DEF Event
  <2> QED
    BY <2>1 DEF Events
<1>5. ASSUME NEW c \in Clients, NEW t \in Traces
      PROVE  /\ Unregister(c, t) \in Event /\ Unregister(c, t).type = "unregister"
             /\ Unregister(c, t).client = c /\ Unregister(c, t).trace = t
  <2>1. Unregister(c, t) \in Event
    BY DEF Event
  <2> QED
    BY <2>1 DEF Unregister
<1> QED
  BY <1>1, <1>2, <1>3, <1>4, <1>5, <1>6

(* What is in the channel after a send and after a receive. *)
LEMMA AfterSend ==
  ASSUME NEW S, NEW q \in Seq(S), NEW e \in S
  PROVE  /\ Append(q, e) \in Seq(S) /\ Len(q) \in Nat /\ Len(Append(q, e)) = Len(q) + 1
         /\ 1..Len(Append(q, e)) = 1..Len(q) \cup {Len(q) + 1}
         /\ Len(q) + 1 \notin 1..Len(q)
         /\ \A i \in 1..Len(q) : Append(q, e)[i] = q[i]
         /\ Append(q, e)[Len(q) + 1] = e
<1>1. /\ Append(q, e) \in Seq(S) /\ Len(q) \in Nat /\ Len(Append(q, e)) = Len(q) + 1
      /\ \A i \in 1..Len(q) : Append(q, e)[i] = q[i]
      /\ Append(q, e)[Len(q) + 1] = e
  OBVIOUS
<1>2. 1..(Len(q) + 1) = 1..Len(q) \cup {Len(q) + 1} /\ Len(q) + 1 \notin 1..Len(q)
  BY <1>1
<1> QED
  BY <1>1, <1>2

LEMMA AfterReceive ==
  ASSUME NEW S, NEW q \in Seq(S), q # <<>>
  PROVE  /\ Tail(q) \in Seq(S) /\ Len(q) \in Nat \ {0} /\ Len(Tail(q)) = Len(q) - 1
         /\ Head(q) = q[1] /\ Head(q) \in S
         /\ \A i \in 1..Len(Tail(q)) : i + 1 \in 2..Len(q) /\ Tail(q)[i] = q[i + 1]
         /\ \A i \in 2..Len(q) : i - 1 \in 1..Len(Tail(q)) /\ Tail(q)[i - 1] = q[i]
         /\ 1..Len(q) = {1} \cup 2..Len(q)
<1>1. /\ Tail(q) \in Seq(S) /\ Len(q) \in Nat \ {0} /\ Len(Tail(q)) = Len(q) - 1
      /\ Head(q) = q[1] /\ Head(q) \in S
      /\ \A i \in 1..Len(Tail(q)) : Tail(q)[i] = q[i + 1]
  OBVIOUS
<1>2. /\ \A i \in 1..Len(Tail(q)) : i + 1 \in 2..Len(q)
      /\ \A i \in 2..Len(q) : i - 1 \in 1..Len(Tail(q)) /\ (i - 1) + 1 = i
      /\ 1..Len(q) = {1} \cup 2..Len(q)
  BY <1>1
<1>3. \A i \in 2..Len(q) : Tail(q)[i - 1] = q[i]
  BY <1>1, <1>2
<1> QED
  BY <1>1, <1>2, <1>3

Count(q, type, s) == Cardinality({i \in 1..Len(q) : q[i].type = type /\ q[i].svc = s})

(* How many events of a kind are queued: none at first, one more after a   *)
(* send of one, one less after a receive of one.                           *)
LEMMA CountIsNat ==
  ASSUME NEW q \in Seq(Event), NEW type \in {"longPoll", "changed"}, NEW s \in Services
  PROVE  /\ Count(q, type, s) \in Nat
         /\ Count(q, type, s) = 0 <=> \A i \in 1..Len(q) : ~ (q[i].type = type /\ q[i].svc = s)
<1> DEFINE P == {i \in 1..Len(q) : q[i].type = type /\ q[i].svc = s}
<1>1. IsFiniteSet(1..Len(q)) /\ P \in SUBSET (1..Len(q))
  BY FS_Interval
<1>2. IsFiniteSet(P)
  BY <1>1, FS_Subset
<1>3. Cardinality(P) \in Nat
  BY <1>2, FS_CardinalityType
<1>4. Cardinality(P) = 0 <=> P = {}
  BY <1>2, FS_EmptySet
<1> QED
  BY <1>3, <1>4 DEF Count

LEMMA CountAfterSend ==
  ASSUME NEW q \in Seq(Event), NEW e \in Event, NEW type \in {"longPoll", "changed"}, NEW s \in Services
  PROVE  Count(Append(q, e), type, s) =
           Count(q, type, s) + (IF e.type = type /\ e.svc = s THEN 1 ELSE 0)
<1> DEFINE P == {i \in 1..Len(q) : q[i].type = type /\ q[i].svc = s}
           R == {i \in 1..Len(Append(q, e)) : Append(q, e)[i].type = type /\ Append(q, e)[i].svc = s}
<1>1. IsFiniteSet(P) /\ Cardinality(P) \in Nat
  <2>1. IsFiniteSet(1..Len(q)) /\ P \in SUBSET (1..Len(q))
    BY FS_Interval
  <2> QED
    BY <2>1, FS_Subset, FS_CardinalityType
<1>2. CASE e.type = type /\ e.svc = s
  <2>1. R = P \cup {Len(q) + 1} /\ Len(q) + 1 \notin P
    BY <1>2, AfterSend
  <2>2. Cardinality(P \cup {Len(q) + 1}) = Cardinality(P) + 1
    <3> HIDE DEF P
    <3> QED
      BY <1>1, <2>1, FS_AddElement
  <2> HIDE DEF P, R
  <2>3. Cardinality(R) = Cardinality(P) + 1
    BY <2>1, <2>2
  <2> QED
    BY <2>3, <1>2 DEF P, R, Count
<1>3. CASE ~ (e.type = type /\ e.svc = s)
  <2>1. R = P
    BY <1>3, AfterSend
  <2> HIDE DEF P, R
  <2>2. Count(Append(q, e), type, s) = Count(q, type, s) /\ Count(q, type, s) \in Nat
    BY <1>1, <2>1 DEF P, R, Count
  <2> QED
    BY <2>2, <1>3
<1> QED
  BY <1>2, <1>3

LEMMA CountAfterReceive ==
  ASSUME NEW q \in Seq(Event), q # <<>>, NEW type \in {"longPoll", "changed"}, NEW s \in Services
  PROVE  Count(q, type, s) =
           Count(Tail(q), type, s) + (IF Head(q).type = type /\ Head(q).svc = s THEN 1 ELSE 0)
<1> DEFINE P == {i \in 1..Len(q) : q[i].type = type /\ q[i].svc = s}
           R == {i \in 1..Len(Tail(q)) : Tail(q)[i].type = type /\ Tail(q)[i].svc = s}
           Q == {i \in 2..Len(q) : q[i].type = type /\ q[i].svc = s}
           f == [i \in R |-> i + 1]
<1>1. IsFiniteSet(R) /\ Cardinality(R) \in Nat
  <2>1. Tail(q) \in Seq(Event)
    BY AfterReceive
  <2>2. IsFiniteSet(1..Len(Tail(q))) /\ R \in SUBSET (1..Len(Tail(q)))
    BY <2>1, FS_Interval
  <2> QED
    BY <2>2, FS_Subset, FS_CardinalityType
<1>2. ExistsBijection(R, Q)
  <2>1. \A i \in R : i \in Int /\ i + 1 \in Q
    BY AfterReceive
  <2>2. \A j \in Q : j - 1 \in R /\ (j - 1) + 1 = j
    BY AfterReceive
  <2> HIDE DEF R, Q
  <2>3. f \in [R -> Q]
    BY <2>1
  <2>4. \A a, b \in R : f[a] = f[b] => a = b
    BY <2>1
  <2>5. \A j \in Q : \E i \in R : f[i] = j
    BY <2>2
  <2> HIDE DEF f
  <2>6. f \in Bijection(R, Q)
    BY <2>3, <2>4, <2>5 DEF Bijection, Injection, Surjection, IsInjective
  <2> QED
    BY <2>6 DEF ExistsBijection
<1>3. IsFiniteSet(Q) /\ Cardinality(Q) = Cardinality(R)
  <2> HIDE DEF R, Q
  <2> QED
    BY <1>1, <1>2, FS_Bijection
<1>4. CASE Head(q).type = type /\ Head(q).svc = s
  <2>1. P = Q \cup {1} /\ 1 \notin Q
    BY <1>4, AfterReceive
  <2> HIDE DEF P, Q, R
  <2>2. Cardinality(P) = Cardinality(R) + 1
    BY <1>3, <2>1, FS_AddElement
  <2> QED
    BY <2>2, <1>4 DEF P, R, Count
<1>5. CASE ~ (Head(q).type = type /\ Head(q).svc = s)
  <2>1. P = Q
    BY <1>5, AfterReceive
  <2> HIDE DEF P, Q, R
  <2>2. Cardinality(P) = Cardinality(R)
    BY <1>3, <2>1
  <2>3. Count(q, type, s) = Count(Tail(q), type, s) /\ Count(Tail(q), type, s) \in Nat
    BY <1>1, <2>2 DEF P, R, Count
  <2> QED
    BY <2>3, <1>5
<1> QED
  BY <1>4, <1>5

-----------------------------------------------------------------------------
(* A send: what it does to the channel. *)
LEMMA SendFacts ==
  ASSUME TypeOK, NEW e \in Event, Send(e)
  PROVE  /\ queue' \in Seq(Event) /\ Len(queue') <= Capacity
         /\ \A type \in {"longPoll", "changed"}, s \in Services :
              /\ InQueue(type, s) \in Nat /\ InQueue(type, s)' \in Nat
              /\ InQueue(type, s)' = InQueue(type, s) + (IF e.type = type /\ e.svc = s THEN 1 ELSE 0)
         /\ \A x : Queued(x)' <=> Queued(x) \/ x = e
<1>1. queue \in Seq(Event) /\ queue' = Append(queue, e) /\ Len(queue) < Capacity
  BY DEF TypeOK, Send
<1>2. queue' \in Seq(Event) /\ Len(queue') = Len(queue) + 1 /\ Len(queue) \in Nat
      /\ 1..Len(queue') = 1..Len(queue) \cup {Len(queue) + 1}
      /\ (\A i \in 1..Len(queue) : queue'[i] = queue[i])
      /\ queue'[Len(queue) + 1] = e
  BY <1>1, AfterSend
<1>3. Len(queue') <= Capacity
  BY <1>1, <1>2, DaemonAssumption DEF DaemonAssumption
<1>4. ASSUME NEW type \in {"longPoll", "changed"}, NEW s \in Services
      PROVE  /\ InQueue(type, s) \in Nat /\ InQueue(type, s)' \in Nat
             /\ InQueue(type, s)' = InQueue(type, s) + (IF e.type = type /\ e.svc = s THEN 1 ELSE 0)
  <2>1. InQueue(type, s) = Count(queue, type, s) /\ InQueue(type, s)' = Count(queue', type, s)
    BY DEF InQueue, Count
  <2>2. Count(queue, type, s) \in Nat /\ Count(queue', type, s) \in Nat
    BY <1>1, <1>2, CountIsNat
  <2>3. Count(queue', type, s) = Count(queue, type, s) + (IF e.type = type /\ e.svc = s THEN 1 ELSE 0)
    BY <1>1, CountAfterSend
  <2> QED
    BY <2>1, <2>2, <2>3
<1>5. \A x : Queued(x)' <=> Queued(x) \/ x = e
  BY <1>2 DEF Queued
<1> QED
  BY <1>2, <1>3, <1>4, <1>5

(* A receive of the main goroutine. *)
LEMMA ReceiveFacts ==
  ASSUME TypeOK, NEW e, e = Head(queue), queue # <<>>, queue' = Tail(queue)
  PROVE  /\ e \in Event /\ e = queue[1] /\ Queued(e)
         /\ queue' \in Seq(Event) /\ Len(queue') <= Capacity
         /\ \A type \in {"longPoll", "changed"}, s \in Services :
              /\ InQueue(type, s) \in Nat /\ InQueue(type, s)' \in Nat
              /\ InQueue(type, s) = InQueue(type, s)' + (IF e.type = type /\ e.svc = s THEN 1 ELSE 0)
         /\ \A x : Queued(x)' => Queued(x)
         /\ \A x : Queued(x) => Queued(x)' \/ x = e
<1>1. queue \in Seq(Event) /\ Len(queue) <= Capacity
  BY DEF TypeOK
<1>2. /\ queue' \in Seq(Event) /\ Len(queue) \in Nat \ {0} /\ Len(queue') = Len(queue) - 1
      /\ e = queue[1] /\ e \in Event
      /\ \A i \in 1..Len(queue') : i + 1 \in 2..Len(queue) /\ queue'[i] = queue[i + 1]
      /\ \A i \in 2..Len(queue) : i - 1 \in 1..Len(queue') /\ queue'[i - 1] = queue[i]
      /\ 1..Len(queue) = {1} \cup 2..Len(queue)
  BY <1>1, AfterReceive
<1>3. Len(queue') <= Capacity
  BY <1>1, <1>2, DaemonAssumption DEF DaemonAssumption
<1>4. ASSUME NEW type \in {"longPoll", "changed"}, NEW s \in Services
      PROVE  /\ InQueue(type, s) \in Nat /\ InQueue(type, s)' \in Nat
             /\ InQueue(type, s) = InQueue(type, s)' + (IF e.type = type /\ e.svc = s THEN 1 ELSE 0)
  <2>1. InQueue(type, s) = Count(queue, type, s) /\ InQueue(type, s)' = Count(queue', type, s)
    BY DEF InQueue, Count
  <2>2. Count(queue, type, s) \in Nat /\ Count(queue', type, s) \in Nat
    BY <1>1, <1>2, CountIsNat
  <2>3. Count(queue, type, s) = Count(queue', type, s) + (IF e.type = type /\ e.svc = s THEN 1 ELSE 0)
    BY <1>1, CountAfterReceive
  <2> QED
    BY <2>1, <2>2, <2>3
<1>5. Queued(e) /\ \A x : (Queued(x)' => Queued(x)) /\ (Queued(x) => Queued(x)' \/ x = e)
  <2>1. \A x : Queued(x)' => Queued(x)
    BY <1>2 DEF Queued
  <2>2. \A x : Queued(x) => Queued(x)' \/ x = e
    BY <1>2 DEF Queued
  <2>3. Queued(e)
    BY <1>2 DEF Queued
  <2> QED
    BY <2>1, <2>2, <2>3
<1> QED
  BY <1>2, <1>3, <1>4, <1>5

(* QueueInv after a send and after a receive, by what becomes of the       *)
(* clients' requests.                                                      *)
LEMMA SendKeepsQueue ==
  ASSUME TypeOK, QueueInv, NEW e \in Event, Send(e),
         e.type = "changed" => \A t \in e.act \cup e.deact : ServiceOf[t] = e.svc,
         \A r \in Requests : Queued(Events(r)) => e # Events(r) /\ req'[r].pc = "queued",
         \A r \in Requests : e = Events(r) => req'[r].pc = "queued"
  PROVE  QueueInv'
<1>1. /\ Len(queue') = Len(queue) + 1 /\ Len(queue) \in Nat
      /\ 1..Len(queue') = 1..Len(queue) \cup {Len(queue) + 1}
      /\ \A i \in 1..Len(queue) : queue'[i] = queue[i]
      /\ queue'[Len(queue) + 1] = e
  BY AfterSend DEF TypeOK, Send
<1>2. ASSUME NEW i \in 1..Len(queue'), queue'[i].type = "changed"
      PROVE  \A t \in queue'[i].act \cup queue'[i].deact : ServiceOf[t] = queue'[i].svc
  <2>1. CASE i \in 1..Len(queue)
    BY <1>1, <1>2, <2>1 DEF QueueInv
  <2>2. CASE i = Len(queue) + 1
    BY <1>1, <1>2, <2>2
  <2> QED
    BY <1>1, <2>1, <2>2
<1>3. ASSUME NEW r \in Requests, NEW i \in 1..Len(queue'), queue'[i] = Events(r)
      PROVE  req'[r].pc = "queued"
  BY <1>1, <1>3 DEF Queued
<1>4. ASSUME NEW r \in Requests, NEW i \in 1..Len(queue'), NEW j \in 1..Len(queue'),
             queue'[i] = Events(r), queue'[j] = Events(r)
      PROVE  j = i
  <2>1. CASE e = Events(r)
    BY <1>1, <1>4, <2>1 DEF Queued
  <2>2. CASE e # Events(r)
    BY <1>1, <1>4, <2>2 DEF QueueInv
  <2> QED
    BY <2>1, <2>2
<1> QED
  BY <1>2, <1>3, <1>4 DEF QueueInv

LEMMA ReceiveKeepsQueue ==
  ASSUME TypeOK, QueueInv, queue # <<>>, queue' = Tail(queue),
         \A r \in Requests : Head(queue) # Events(r) /\ req[r].pc = "queued" => req'[r].pc = "queued"
  PROVE  QueueInv'
<1>1. /\ Len(queue) \in Nat \ {0} /\ Len(queue') = Len(queue) - 1 /\ Head(queue) = queue[1]
      /\ \A i \in 1..Len(queue') : i + 1 \in 2..Len(queue) /\ queue'[i] = queue[i + 1]
      /\ 1..Len(queue) = {1} \cup 2..Len(queue)
  BY AfterReceive DEF TypeOK
<1>2. ASSUME NEW i \in 1..Len(queue'), queue'[i].type = "changed"
      PROVE  \A t \in queue'[i].act \cup queue'[i].deact : ServiceOf[t] = queue'[i].svc
  BY <1>1, <1>2 DEF QueueInv
<1>3. ASSUME NEW r \in Requests, NEW i \in 1..Len(queue'), queue'[i] = Events(r)
      PROVE  req'[r].pc = "queued"
  <2>1. i + 1 \in 1..Len(queue) /\ queue[i + 1] = Events(r) /\ i + 1 # 1 /\ 1 \in 1..Len(queue)
    BY <1>1, <1>3
  <2>2. Head(queue) # Events(r)
    BY <1>1, <2>1 DEF QueueInv
  <2> QED
    BY <2>1, <2>2 DEF QueueInv
<1>4. ASSUME NEW r \in Requests, NEW i \in 1..Len(queue'), NEW j \in 1..Len(queue'),
             queue'[i] = Events(r), queue'[j] = Events(r)
      PROVE  j = i
  <2>1. /\ i + 1 \in 1..Len(queue) /\ queue[i + 1] = Events(r)
        /\ j + 1 \in 1..Len(queue) /\ queue[j + 1] = Events(r)
    BY <1>1, <1>4
  <2>2. j + 1 = i + 1
    BY <2>1 DEF QueueInv
  <2> QED
    BY <2>2
<1> QED
  BY <1>2, <1>3, <1>4 DEF QueueInv

-----------------------------------------------------------------------------
(* Steps that leave the requests alone and take nobody off a list who has  *)
(* not ended a stream.                                                     *)
LEMMA LastFrame ==
  ASSUME TypeOK, LastInv, UNCHANGED <<req, finished>>,
         \A c \in Clients, t \in Traces : Leaves(c, t)' => Leaves(c, t),
         \A c \in Clients, t \in Traces : IsClient(c, t) =>
           (IsClient(c, t)' /\ Len(chans'[t]) = Len(chans[t])) \/ t \in finished[c]
  PROVE  LastInv'
<1>1. \A r \in Requests : req[r].client \in Clients /\ req[r].trace \in Traces
  BY DEF TypeOK
<1>2. \A c \in Clients, t \in Traces : Leaves(c, t)' => t \in finished'[c]
  BY DEF LastInv
<1>3. \A r \in Requests : req'[r].pc # "idle" /\ req'[r].last => req'[r].trace \in finished'[req'[r].client]
  BY DEF LastInv
<1>4. ASSUME NEW r \in Requests, req[r].pc = "uploading"
      PROVE  \/ IsClient(req[r].client, req[r].trace)' /\ req[r].chan = Len(chans'[req[r].trace])
             \/ req[r].trace \in finished[req[r].client]
  <2>1. PICK c \in Clients, t \in Traces : c = req[r].client /\ t = req[r].trace
    BY <1>1
  <2>2. (IsClient(c, t) /\ req[r].chan = Len(chans[t])) \/ t \in finished[c]
    BY <1>4, <2>1 DEF LastInv
  <2>3. (IsClient(c, t)' /\ req[r].chan = Len(chans'[t])) \/ t \in finished[c]
    BY <2>2
  <2>4. IsClient(c, t)' = IsClient(req[r].client, req[r].trace)'
    BY <2>1 DEF IsClient
  <2> QED
    BY <2>1, <2>3, <2>4
<1>5. \A r \in Requests : req'[r].pc = "uploading" =>
        \/ IsClient(req[r].client, req[r].trace)' /\ req'[r].chan = Len(chans'[req'[r].trace])
        \/ req'[r].trace \in finished'[req'[r].client]
  BY <1>4
<1> QED
  BY <1>2, <1>3, <1>5 DEF LastInv

LEMMA TablesFrame ==
  ASSUME OnlyUsefulTraces, TraceInv, UNCHANGED <<info, chans, req>>, registered \subseteq registered'
  PROVE  OnlyUsefulTraces' /\ TraceInv'
  BY DEF OnlyUsefulTraces, TraceInv, Incarnations

LEMMA ParkedFrame ==
  ASSUME TypeOK, ParkedClientIsCurrent, UNCHANGED told,
         \A c \in Clients : poll'[c] = "waiting" => poll[c] = "waiting",
         \A t \in Traces : info'[t].active = info[t].active
  PROVE  ParkedClientIsCurrent'
  BY DEF ParkedClientIsCurrent, Active

LEMMA PollersFrame ==
  ASSUME OnePollerPerService, UNCHANGED <<registered, polling, main>>,
         \A s \in Services : /\ InQueue("longPoll", s)' = InQueue("longPoll", s)
                             /\ InQueue("changed", s)' = InQueue("changed", s)
  PROVE  OnePollerPerService'
  BY DEF OnePollerPerService

(* A send of an event that does not concern the long polls. *)
LEMMA QuietSend ==
  ASSUME IInv, NEW e \in Event, Send(e), e.type \in {"heartbeat", "register", "unregister"},
         UNCHANGED <<main, registered, info, chans, polling, req, told, streams, finished, acts, restarts>>,
         away' \in BOOLEAN,
         unreg' \in [Clients -> [Traces -> Nat]],
         \A c \in Clients, t \in Traces :
           unreg'[c][t] > 0 \/ e = Unregister(c, t) => Leaves(c, t),
         poll' \in [Clients -> {"idle", "queued", "waiting"}],
         \A c \in Clients : poll'[c] = "waiting" => poll[c] = "waiting"
  PROVE  IInv'
<1>t. TypeOK /\ QueueInv /\ OnlyUsefulTraces /\ TraceInv /\ LastInv /\ ParkedClientIsCurrent
      /\ OnePollerPerService
  BY DEF IInv
<1>1. /\ queue' \in Seq(Event) /\ Len(queue') <= Capacity
      /\ \A type \in {"longPoll", "changed"}, s \in Services :
              /\ InQueue(type, s) \in Nat /\ InQueue(type, s)' \in Nat
              /\ InQueue(type, s)' = InQueue(type, s) + (IF e.type = type /\ e.svc = s THEN 1 ELSE 0)
      /\ \A x : Queued(x)' <=> Queued(x) \/ x = e
  BY <1>t, SendFacts
<1>2. TypeOK'
  BY <1>t, <1>1 DEF TypeOK
<1>3. QueueInv'
  <2>1. \A r \in Requests : e # Events(r)
    BY NewEvents
  <2>2. \A r \in Requests : Queued(Events(r)) => req'[r].pc = "queued"
    BY <1>t DEF QueueInv, Queued
  <2> QED
    BY <2>1, <2>2, <1>t, SendKeepsQueue
<1>4. OnlyUsefulTraces' /\ TraceInv'
  BY <1>t, TablesFrame
<1>5. LastInv'
  <2>1. \A c \in Clients, t \in Traces : Leaves(c, t)' => Leaves(c, t)
    BY <1>1 DEF Leaves
  <2>2. \A c \in Clients, t \in Traces : IsClient(c, t) =>
          IsClient(c, t)' /\ Len(chans'[t]) = Len(chans[t])
    BY DEF IsClient
  <2> QED
    BY <1>t, <2>1, <2>2, LastFrame
<1>6. ParkedClientIsCurrent'
  BY <1>t, ParkedFrame
<1>7. OnePollerPerService'
  <2>1. \A s \in Services : /\ InQueue("longPoll", s)' = InQueue("longPoll", s)
                            /\ InQueue("changed", s)' = InQueue("changed", s)
    <3>1. e.type # "longPoll" /\ e.type # "changed"
      OBVIOUS
    <3> QED
      BY <1>1, <3>1
  <2> QED
    BY <1>t, <2>1, PollersFrame
<1> QED
  BY <1>2, <1>3, <1>4, <1>5, <1>6, <1>7 DEF IInv

LEMMA QuietSends ==
  ASSUME IInv,
         \/ HeartbeatReturns
         \/ \E c \in Clients : ClientPolls(c) \/ \E t \in Traces : SendUnregister(c, t)
  PROVE  IInv'
<1> USE DEF daemonVars, clientVars
<1>t. TypeOK
  BY DEF IInv
<1>1. CASE HeartbeatReturns
  <2>1. Send(Heartbeat) /\ Heartbeat \in Event /\ Heartbeat.type = "heartbeat"
    BY <1>1, NewEvents DEF HeartbeatReturns
  <2>2. \A c \in Clients, t \in Traces : unreg'[c][t] > 0 \/ Heartbeat = Unregister(c, t) => Leaves(c, t)
    BY <1>1, <2>1, NewEvents DEF HeartbeatReturns, Leaves
  <2> QED
    BY <1>t, <1>1, <2>1, <2>2, QuietSend DEF HeartbeatReturns, TypeOK
<1>2. ASSUME NEW c \in Clients, ClientPolls(c)
      PROVE  IInv'
  <2>1. Send(Register(c)) /\ Register(c) \in Event /\ Register(c).type = "register"
    BY <1>2, NewEvents DEF ClientPolls
  <2>2. \A d \in Clients, t \in Traces : unreg'[d][t] > 0 \/ Register(c) = Unregister(d, t) => Leaves(d, t)
    BY <1>2, <2>1, NewEvents DEF ClientPolls, Leaves
  <2>3. /\ poll' \in [Clients -> {"idle", "queued", "waiting"}]
        /\ \A d \in Clients : poll'[d] = "waiting" => poll[d] = "waiting"
    BY <1>2, <1>t DEF ClientPolls, TypeOK
  <2> QED
    BY <1>t, <1>2, <2>1, <2>2, <2>3, QuietSend DEF ClientPolls, TypeOK
<1>3. ASSUME NEW c \in Clients, NEW t \in Traces, SendUnregister(c, t)
      PROVE  IInv'
  <2>1. Send(Unregister(c, t)) /\ Unregister(c, t) \in Event /\ Unregister(c, t).type = "unregister"
    BY <1>3, NewEvents DEF SendUnregister
  <2>2. /\ unreg[c][t] > 0 /\ unreg' = [unreg EXCEPT ![c][t] = @ - 1]
        /\ unreg \in [Clients -> [Traces -> Nat]]
    BY <1>3, <1>t DEF SendUnregister, TypeOK
  <2>3. unreg' \in [Clients -> [Traces -> Nat]]
    BY <2>2
  <2>4. \A d \in Clients, u \in Traces : unreg'[d][u] > 0 => unreg[d][u] > 0
    BY <2>2
  <2>5. \A d \in Clients, u \in Traces : Unregister(c, t) = Unregister(d, u) => d = c /\ u = t
    BY NewEvents
  <2>6. \A d \in Clients, u \in Traces : unreg'[d][u] > 0 \/ Unregister(c, t) = Unregister(d, u) => Leaves(d, u)
    BY <2>2, <2>4, <2>5 DEF Leaves
  <2> QED
    BY <1>t, <1>3, <2>1, <2>3, <2>6, QuietSend DEF SendUnregister, TypeOK
<1> QED
  BY <1>1, <1>2, <1>3

LEMMA ClientSendsStep ==
  ASSUME IInv, NEW r \in Requests, ClientSends(r)
  PROVE  IInv'
<1> USE DEF daemonVars, clientVars
<1> DEFINE R == [pc : {"idle", "queued", "uploading"}, client : Clients, trace : Traces,
                 n : 0..MaxEvents, last : BOOLEAN, chan : Nat]
<1>t. TypeOK /\ QueueInv /\ OnlyUsefulTraces /\ TraceInv /\ LastInv /\ ParkedClientIsCurrent
      /\ OnePollerPerService
  BY DEF IInv
<1>u. UNCHANGED <<main, registered, info, chans, away, polling, poll, unreg, told, acts, restarts>>
  BY DEF ClientSends
<1>c. PICK c \in Clients : \E t \in streams[c], n \in 0..MaxEvents, last \in BOOLEAN :
        /\ req' = [req EXCEPT ![r] = [pc |-> "queued", client |-> c, trace |-> t, n |-> n,
                                      last |-> last, chan |-> 0]]
        /\ streams' = IF last THEN [streams EXCEPT ![c] = @ \ {t}] ELSE streams
        /\ finished' = IF last THEN [finished EXCEPT ![c] = @ \cup {t}] ELSE finished
  BY DEF ClientSends
<1>0. PICK t \in streams[c], n \in 0..MaxEvents, last \in BOOLEAN :
        /\ req' = [req EXCEPT ![r] = [pc |-> "queued", client |-> c, trace |-> t, n |-> n,
                                      last |-> last, chan |-> 0]]
        /\ streams' = IF last THEN [streams EXCEPT ![c] = @ \ {t}] ELSE streams
        /\ finished' = IF last THEN [finished EXCEPT ![c] = @ \cup {t}] ELSE finished
  BY <1>c
<1> DEFINE e == Events(r)
<1>1. e \in Event /\ Send(e) /\ e.type = "events" /\ req[r].pc = "idle" /\ t \in Traces
      /\ (\A k \in Requests : e = Events(k) => k = r)
      /\ (\A d \in Clients, u \in Traces : e # Unregister(d, u))
  <2>1. Send(e) /\ req[r].pc = "idle" /\ t \in Traces
    BY <1>t DEF ClientSends, TypeOK
  <2>2. e \in Event /\ e.type = "events" /\ e.req = r
    BY NewEvents
  <2> HIDE DEF e
  <2>3. \A k \in Requests : e = Events(k) => k = r
    BY <2>2, NewEvents
  <2>4. \A d \in Clients, u \in Traces : e # Unregister(d, u)
    BY <2>2, NewEvents
  <2> QED
    BY <2>1, <2>2, <2>3, <2>4
<1> HIDE DEF e
<1>2. /\ queue' \in Seq(Event) /\ Len(queue') <= Capacity
      /\ \A type \in {"longPoll", "changed"}, s \in Services :
           /\ InQueue(type, s) \in Nat /\ InQueue(type, s)' \in Nat
           /\ InQueue(type, s)' = InQueue(type, s) + (IF e.type = type /\ e.svc = s THEN 1 ELSE 0)
      /\ \A x : Queued(x)' <=> Queued(x) \/ x = e
  BY <1>t, <1>1, SendFacts
<1>3. /\ streams' \in [Clients -> SUBSET Traces] /\ finished' \in [Clients -> SUBSET Traces]
      /\ \A d \in Clients : finished[d] \subseteq finished'[d]
      /\ last => t \in finished'[c]
  BY <1>t, <1>0, <1>1 DEF TypeOK
<1>4. /\ req \in [Requests -> R] /\ req' \in [Requests -> R]
      /\ \A k \in Requests : k # r => req'[k] = req[k]
      /\ req'[r].pc = "queued" /\ req'[r].client = c /\ req'[r].trace = t /\ req'[r].last = last
  <2>1. [pc |-> "queued", client |-> c, trace |-> t, n |-> n, last |-> last, chan |-> 0] \in R
    BY <1>1
  <2>2. req \in [Requests -> R]
    BY <1>t DEF TypeOK
  <2> QED
    BY <2>1, <2>2, <1>0
<1>5. TypeOK'
  BY <1>t, <1>u, <1>2, <1>3, <1>4 DEF TypeOK
<1>6. QueueInv'
  <2>1. \A k \in Requests : Queued(Events(k)) => k # r /\ req[k].pc = "queued"
    BY <1>t, <1>1 DEF QueueInv, Queued
  <2>2. \A k \in Requests : Queued(Events(k)) => e # Events(k) /\ req'[k].pc = "queued"
    BY <2>1, <1>1, <1>4
  <2>3. \A k \in Requests : e = Events(k) => req'[k].pc = "queued"
    BY <1>1, <1>4
  <2>4. e.type # "changed"
    BY <1>1
  <2> QED
    BY <2>2, <2>3, <2>4, <1>t, <1>1, SendKeepsQueue
<1>7. OnlyUsefulTraces'
  BY <1>t, <1>u DEF OnlyUsefulTraces, Incarnations
<1>8. TraceInv'
  BY <1>t, <1>u, <1>4 DEF TraceInv, Incarnations
<1>9. ParkedClientIsCurrent'
  BY <1>t, <1>u, ParkedFrame
<1>10. OnePollerPerService'
  <2>1. e.type # "longPoll" /\ e.type # "changed"
    BY <1>1
  <2> QED
    BY <1>t, <1>u, <1>2, <2>1, PollersFrame
<1>11. LastInv'
  <2>1. \A d \in Clients, u \in Traces : Leaves(d, u)' => u \in finished'[d]
    <3>1. \A d \in Clients, u \in Traces : Leaves(d, u)' => Leaves(d, u)
      BY <1>u, <1>1, <1>2 DEF Leaves
    <3> QED
      BY <1>t, <1>3, <3>1 DEF LastInv
  <2>2. ASSUME NEW k \in Requests
        PROVE  /\ req'[k].pc # "idle" /\ req'[k].last => req'[k].trace \in finished'[req'[k].client]
               /\ req'[k].pc = "uploading" =>
                    \/ IsClient(req[k].client, req[k].trace)' /\ req'[k].chan = Len(chans'[req'[k].trace])
                       /\ req'[k] = req[k]
                    \/ req'[k].trace \in finished'[req'[k].client]
    <3>1. CASE k = r
      BY <1>3, <1>4, <3>1
    <3>2. CASE k # r
      <4>1. req'[k] = req[k] /\ req[k].client \in Clients
        BY <1>4, <3>2
      <4>2. req[k].pc = "uploading" =>
              \/ IsClient(req[k].client, req[k].trace) /\ req[k].chan = Len(chans[req[k].trace])
              \/ req[k].trace \in finished[req[k].client]
        BY <1>t DEF LastInv
      <4>3. req[k].pc # "idle" /\ req[k].last => req[k].trace \in finished[req[k].client]
        BY <1>t DEF LastInv
      <4>4. req[k].trace \in finished[req[k].client] => req[k].trace \in finished'[req[k].client]
        BY <1>3, <4>1
      <4>5. IsClient(req[k].client, req[k].trace) => IsClient(req[k].client, req[k].trace)'
        BY <1>u, <4>1 DEF IsClient
      <4> QED
        BY <1>u, <4>1, <4>2, <4>3, <4>4, <4>5
    <3> QED
      BY <3>1, <3>2
  <2>3. ASSUME NEW k \in Requests, req'[k].pc = "uploading"
        PROVE  \/ IsClient(req[k].client, req[k].trace)' /\ req'[k].chan = Len(chans'[req'[k].trace])
               \/ req'[k].trace \in finished'[req'[k].client]
    BY <2>2, <2>3
  <2> QED
    BY <2>1, <2>2, <2>3 DEF LastInv
<1> QED
  BY <1>5, <1>6, <1>7, <1>8, <1>9, <1>10, <1>11 DEF IInv

(* The cloud answers or fails: the long poll moves on. *)
LEMMA CloudStep ==
  ASSUME IInv, NEW s \in Services, CloudAnswers(s) \/ CloudFails(s)
  PROVE  IInv'
<1> USE DEF daemonVars, clientVars
<1>t. TypeOK /\ QueueInv /\ OnlyUsefulTraces /\ TraceInv /\ LastInv /\ ParkedClientIsCurrent
      /\ OnePollerPerService
  BY DEF IInv
<1>u. /\ UNCHANGED <<main, registered, info, chans, away, poll, req, told, streams, finished, unreg, restarts>>
      /\ s \in polling /\ polling' = polling \ {s}
  BY DEF CloudAnswers, CloudFails
<1>1. PICK A \in SUBSET Traces, D \in SUBSET Traces :
        /\ \A t \in A \cup D : ServiceOf[t] = s
        /\ \A t \in A : acts[t] < MaxActivations
        /\ acts' = [t \in Traces |-> IF t \in A THEN acts[t] + 1 ELSE acts[t]]
        /\ Send(Changed(s, A, D)) \/ (A = {} /\ Send(LongPoll(s)))
  <2>1. CASE CloudAnswers(s)
    BY <2>1 DEF CloudAnswers, Active
  <2>2. CASE CloudFails(s)
    <3>1. acts' = [t \in Traces |-> IF t \in {} THEN acts[t] + 1 ELSE acts[t]]
      BY <2>2, <1>t DEF CloudFails, TypeOK
    <3>2. {} \in SUBSET Traces /\ (\A t \in {} : acts[t] < MaxActivations)
          /\ \A t \in {} \cup {} : ServiceOf[t] = s
      OBVIOUS
    <3>3. {} = {} /\ Send(LongPoll(s))
      BY <2>2 DEF CloudFails
    <3> QED
      BY <3>1, <3>2, <3>3, Zenon
  <2> QED
    BY <2>1, <2>2
<1>2. PICK e \in Event : /\ Send(e) /\ e.svc = s
                         /\ \/ e.type = "changed" /\ e.act = A /\ e.deact = D
                            \/ e.type = "longPoll" /\ A = {}
  BY <1>1, NewEvents
<1>3. /\ queue' \in Seq(Event) /\ Len(queue') <= Capacity
      /\ \A type \in {"longPoll", "changed"}, r \in Services :
           /\ InQueue(type, r) \in Nat /\ InQueue(type, r)' \in Nat
           /\ InQueue(type, r)' = InQueue(type, r) + (IF e.type = type /\ e.svc = r THEN 1 ELSE 0)
      /\ \A x : Queued(x)' <=> Queued(x) \/ x = e
  BY <1>t, <1>2, SendFacts
<1>4. acts' \in [Traces -> 0..MaxActivations]
  BY <1>t, <1>1, DaemonAssumption DEF TypeOK, DaemonAssumption
<1>5. TypeOK'
  BY <1>t, <1>u, <1>3, <1>4 DEF TypeOK
<1>6. QueueInv'
  <2>1. /\ \A k \in Requests : e # Events(k)
        /\ \A k \in Requests : Queued(Events(k)) => req'[k].pc = "queued"
    BY <1>t, <1>u, <1>2, NewEvents DEF QueueInv, Queued
  <2>2. e.type = "changed" => \A t \in e.act \cup e.deact : ServiceOf[t] = e.svc
    BY <1>1, <1>2
  <2> QED
    BY <2>1, <2>2, <1>t, <1>2, SendKeepsQueue
<1>7. OnlyUsefulTraces' /\ TraceInv'
  BY <1>t, <1>u, TablesFrame
<1>8. ParkedClientIsCurrent'
  BY <1>t, <1>u, ParkedFrame
<1>9. OnePollerPerService'
  <2> SUFFICES ASSUME NEW r \in Services
               PROVE  InQueue("longPoll", r)' + InQueue("changed", r)'
                        + (IF r \in polling' THEN 1 ELSE 0)
                        + (IF main'.pc = "sending" /\ main'.svc = r THEN 1 ELSE 0)
                      = (IF r \in registered' THEN 1 ELSE 0)
    BY DEF OnePollerPerService
  <2>1. InQueue("longPoll", r) + InQueue("changed", r)
          + (IF r \in polling THEN 1 ELSE 0)
          + (IF main.pc = "sending" /\ main.svc = r THEN 1 ELSE 0)
        = (IF r \in registered THEN 1 ELSE 0)
    BY <1>t DEF OnePollerPerService
  <2>2. /\ InQueue("longPoll", r) \in Nat /\ InQueue("changed", r) \in Nat
        /\ r # s => /\ InQueue("longPoll", r)' = InQueue("longPoll", r)
                    /\ InQueue("changed", r)' = InQueue("changed", r)
        /\ r = s => \/ /\ InQueue("longPoll", r)' = InQueue("longPoll", r) + 1
                       /\ InQueue("changed", r)' = InQueue("changed", r)
                    \/ /\ InQueue("longPoll", r)' = InQueue("longPoll", r)
                       /\ InQueue("changed", r)' = InQueue("changed", r) + 1
    BY <1>2, <1>3
  <2> QED
    BY <1>u, <2>1, <2>2
<1>10. LastInv'
  <2>1. \A c \in Clients, t \in Traces : Leaves(c, t)' => Leaves(c, t)
    BY <1>u, <1>2, <1>3, NewEvents DEF Leaves
  <2>2. \A c \in Clients, t \in Traces : IsClient(c, t) =>
          IsClient(c, t)' /\ Len(chans'[t]) = Len(chans[t])
    BY <1>u DEF IsClient
  <2> QED
    BY <1>t, <1>u, <2>1, <2>2, LastFrame
<1> QED
  BY <1>5, <1>6, <1>7, <1>8, <1>9, <1>10 DEF IInv

LEMMA ChannelType ==
  ASSUME TypeOK, NEW t \in Traces, NEW g \in Incarnations(t)
  PROVE  chans[t][g] \in [buf : 0..TraceBuffer, closed : BOOLEAN, done : BOOLEAN]
<1> DEFINE C == [buf : 0..TraceBuffer, closed : BOOLEAN, done : BOOLEAN]
<1>1. chans[t] \in Seq(C)
  BY DEF TypeOK
<1> HIDE DEF C
<1>2. chans[t][g] \in C
  BY <1>1 DEF Incarnations
<1> QED
  BY <1>2 DEF C

(* A change to one channel that neither opens nor closes it. *)
LEMMA ChannelStep ==
  ASSUME TypeOK, NEW t \in Traces, NEW g \in Incarnations(t),
         NEW ch \in [buf : 0..TraceBuffer, closed : BOOLEAN, done : BOOLEAN],
         ch.closed = chans[t][g].closed,
         chans' = [chans EXCEPT ![t] = [chans[t] EXCEPT ![g] = ch]]
  PROVE  /\ chans' \in [Traces -> Seq([buf : 0..TraceBuffer, closed : BOOLEAN, done : BOOLEAN])]
         /\ \A u \in Traces : /\ Len(chans'[u]) = Len(chans[u])
                              /\ \A i \in 1..Len(chans[u]) : chans'[u][i].closed = chans[u][i].closed
<1> DEFINE C == [buf : 0..TraceBuffer, closed : BOOLEAN, done : BOOLEAN]
           q == [chans[t] EXCEPT ![g] = ch]
<1>1. chans \in [Traces -> Seq(C)] /\ chans[t] \in Seq(C) /\ g \in 1..Len(chans[t])
  BY DEF TypeOK, Incarnations
<1>2. q \in Seq(C) /\ Len(q) = Len(chans[t]) /\ q[g] = ch
      /\ \A i \in 1..Len(chans[t]) : i # g => q[i] = chans[t][i]
  <2> HIDE DEF C
  <2>1. ch \in C
    BY DEF C
  <2> QED
    BY <1>1, <2>1
<1> HIDE DEF C, q
<1>3. chans' = [chans EXCEPT ![t] = q]
  BY DEF q
<1>4. chans' \in [Traces -> Seq(C)] /\ chans'[t] = q /\ \A u \in Traces : u # t => chans'[u] = chans[u]
  BY <1>1, <1>2, <1>3
<1>5. ASSUME NEW u \in Traces
      PROVE  /\ Len(chans'[u]) = Len(chans[u])
             /\ \A i \in 1..Len(chans[u]) : chans'[u][i].closed = chans[u][i].closed
  BY <1>2, <1>4
<1> QED
  BY <1>4, <1>5 DEF C

LEMMA TablesSame ==
  ASSUME OnlyUsefulTraces, TraceInv, UNCHANGED <<info, registered>>,
         \A u \in Traces : /\ Len(chans'[u]) = Len(chans[u])
                           /\ \A i \in 1..Len(chans[u]) : chans'[u][i].closed = chans[u][i].closed,
         \A r \in Requests : req'[r].pc = "uploading" =>
           req[r].pc = "uploading" /\ req'[r].chan = req[r].chan /\ req'[r].trace = req[r].trace,
         \A r \in Requests : req[r].trace \in Traces
  PROVE  OnlyUsefulTraces' /\ TraceInv'
<1>1. OnlyUsefulTraces'
  BY DEF OnlyUsefulTraces, Incarnations
<1>2. \A t \in Traces : (IF info[t].known THEN Len(chans[t]) > 0 ELSE info[t] = NoInfo)'
  BY DEF TraceInv
<1>3. \A r \in Requests : req'[r].pc = "uploading" => req'[r].chan \in 1..Len(chans'[req'[r].trace])
  BY DEF TraceInv, Incarnations
<1> QED
  BY <1>1, <1>2, <1>3 DEF TraceInv, Incarnations

LEMMA UploadStep ==
  ASSUME IInv, NEW r \in Requests, UploadEvent(r)
  PROVE  IInv'
<1>t. TypeOK /\ QueueInv /\ OnlyUsefulTraces /\ TraceInv /\ LastInv /\ ParkedClientIsCurrent
      /\ OnePollerPerService
  BY DEF IInv
<1>u. UNCHANGED <<queue, main, away, registered, info, polling, poll, unreg, told, streams, finished, acts, restarts>>
  BY DEF UploadEvent
<1>0. /\ req[r].pc = "uploading" /\ req[r].n > 0
      /\ req \in [Requests -> [pc : {"idle", "queued", "uploading"}, client : Clients, trace : Traces,
                              n : 0..MaxEvents, last : BOOLEAN, chan : Nat]]
      /\ req' = [req EXCEPT ![r].n = @ - 1]
      /\ req[r].chan \in Incarnations(req[r].trace)
  BY <1>t DEF UploadEvent, TypeOK, TraceInv
<1>1. /\ req' \in [Requests -> [pc : {"idle", "queued", "uploading"}, client : Clients, trace : Traces,
                              n : 0..MaxEvents, last : BOOLEAN, chan : Nat]]
      /\ \A d \in Requests : /\ req'[d].pc = req[d].pc /\ req'[d].trace = req[d].trace
                             /\ req'[d].chan = req[d].chan /\ req'[d].last = req[d].last
                             /\ req'[d].client = req[d].client
  <2>1. req[r].n - 1 \in 0..MaxEvents
    BY <1>0, DaemonAssumption DEF DaemonAssumption
  <2> QED
    BY <1>0, <2>1
<1>2. /\ chans' \in [Traces -> Seq([buf : 0..TraceBuffer, closed : BOOLEAN, done : BOOLEAN])]
      /\ \A u \in Traces : /\ Len(chans'[u]) = Len(chans[u])
                           /\ \A i \in 1..Len(chans[u]) : chans'[u][i].closed = chans[u][i].closed
  <2> DEFINE C == [buf : 0..TraceBuffer, closed : BOOLEAN, done : BOOLEAN]
  <2>1. CASE ~ (Channel(r).buf < TraceBuffer)
    BY <1>t, <2>1 DEF UploadEvent, TypeOK
  <2>2. CASE Channel(r).buf < TraceBuffer
    <3>0. PICK t \in Traces : t = req[r].trace
      BY <1>0
    <3>1. PICK g \in Incarnations(t) : g = req[r].chan /\ t = req[r].trace
      BY <1>0, <3>0
    <3>2. chans[t][g] \in C /\ Channel(r) = chans[t][g]
      BY <1>t, <3>1, ChannelType DEF Channel
    <3>3. PICK ch \in C : ch = [chans[t][g] EXCEPT !.buf = @ + 1] /\ ch.closed = chans[t][g].closed
      <4>1. chans[t][g].buf + 1 \in 0..TraceBuffer
        BY <3>2, <2>2, DaemonAssumption DEF DaemonAssumption
      <4>2. [chans[t][g] EXCEPT !.buf = chans[t][g].buf + 1] \in C
        BY <3>2, <4>1
      <4>3. [chans[t][g] EXCEPT !.buf = chans[t][g].buf + 1].closed = chans[t][g].closed
        BY <3>2
      <4> QED
        BY <4>2, <4>3
    <3>4. chans' = [chans EXCEPT ![t] = [chans[t] EXCEPT ![g] = ch]]
      BY <2>2, <3>1, <3>3 DEF UploadEvent
    <3> QED
      BY <1>t, <3>3, <3>4, ChannelStep
  <2> QED
    BY <2>1, <2>2
<1>3. TypeOK'
  BY <1>t, <1>u, <1>1, <1>2 DEF TypeOK
<1>4. QueueInv'
  BY <1>t, <1>u, <1>1 DEF QueueInv
<1>5. OnlyUsefulTraces' /\ TraceInv'
  BY <1>t, <1>u, <1>0, <1>1, <1>2, TablesSame
<1>6. ParkedClientIsCurrent'
  BY <1>t, <1>u, ParkedFrame
<1>7. OnePollerPerService'
  BY <1>t, <1>u DEF OnePollerPerService, InQueue
<1>8. LastInv'
  <2>1. \A d \in Clients, u \in Traces : Leaves(d, u)' => u \in finished'[d]
    <3>1. \A d \in Clients, u \in Traces : Leaves(d, u)' => Leaves(d, u)
      BY <1>u DEF Leaves, Queued
    <3> QED
      BY <1>t, <1>u, <3>1 DEF LastInv
  <2>2. ASSUME NEW k \in Requests
        PROVE  /\ req'[k].pc # "idle" /\ req'[k].last => req'[k].trace \in finished'[req'[k].client]
               /\ req'[k].pc = "uploading" =>
                    \/ /\ info'[req'[k].trace].known /\ req'[k].client \in info'[req'[k].trace].clients
                       /\ req'[k].chan = Len(chans'[req'[k].trace])
                    \/ req'[k].trace \in finished'[req'[k].client]
    <3>1. /\ req[k].pc # "idle" /\ req[k].last => req[k].trace \in finished[req[k].client]
          /\ req[k].pc = "uploading" =>
               \/ /\ info[req[k].trace].known /\ req[k].client \in info[req[k].trace].clients
                  /\ req[k].chan = Len(chans[req[k].trace])
               \/ req[k].trace \in finished[req[k].client]
      BY <1>t DEF LastInv, IsClient
    <3>2. req[k].trace \in Traces
      BY <1>0
    <3>3. Len(chans'[req[k].trace]) = Len(chans[req[k].trace])
      BY <1>2, <3>2
    <3> QED
      BY <1>u, <1>1, <3>1, <3>3
  <2> QED
    BY <2>1, <2>2 DEF LastInv, IsClient
<1> QED
  BY <1>3, <1>4, <1>5, <1>6, <1>7, <1>8 DEF IInv

(* collectTraces takes an event or ends. *)
LEMMA CollectStep ==
  ASSUME IInv, NEW t \in Traces, NEW g \in Incarnations(t), CollectTraces(t, g)
  PROVE  IInv'
<1> USE DEF clientVars
<1> DEFINE C == [buf : 0..TraceBuffer, closed : BOOLEAN, done : BOOLEAN]
<1>t. TypeOK /\ QueueInv /\ OnlyUsefulTraces /\ TraceInv /\ LastInv /\ ParkedClientIsCurrent
      /\ OnePollerPerService
  BY DEF IInv
<1>u. UNCHANGED <<queue, main, away, registered, info, polling, poll, req, unreg, told, streams, finished, acts, restarts>>
  BY DEF CollectTraces
<1>1. chans[t][g] \in C
  BY <1>t, ChannelType
<1>2. PICK ch \in C : /\ ch.closed = chans[t][g].closed
                      /\ chans' = [chans EXCEPT ![t] = [chans[t] EXCEPT ![g] = ch]]
  <2>1. CASE chans[t][g].buf > 0 /\ chans' = [chans EXCEPT ![t][g].buf = @ - 1]
    <3>1. chans[t][g].buf - 1 \in 0..TraceBuffer
      BY <1>1, <2>1, DaemonAssumption DEF DaemonAssumption
    <3>2. [chans[t][g] EXCEPT !.buf = chans[t][g].buf - 1] \in C
      BY <1>1, <3>1
    <3>3. [chans[t][g] EXCEPT !.buf = chans[t][g].buf - 1].closed = chans[t][g].closed
      BY <1>1
    <3> QED
      BY <2>1, <3>2, <3>3
  <2>2. CASE chans' = [chans EXCEPT ![t][g].done = TRUE]
    <3>1. [chans[t][g] EXCEPT !.done = TRUE] \in C
      BY <1>1
    <3>2. [chans[t][g] EXCEPT !.done = TRUE].closed = chans[t][g].closed
      BY <1>1
    <3> QED
      BY <2>2, <3>1, <3>2
  <2> QED
    BY <2>1, <2>2 DEF CollectTraces
<1>3. /\ chans' \in [Traces -> Seq(C)]
      /\ \A u \in Traces : /\ Len(chans'[u]) = Len(chans[u])
                           /\ \A i \in 1..Len(chans[u]) : chans'[u][i].closed = chans[u][i].closed
  BY <1>t, <1>2, ChannelStep
<1>4. TypeOK'
  BY <1>t, <1>u, <1>3 DEF TypeOK
<1>5. QueueInv' /\ OnePollerPerService'
  BY <1>t, <1>u DEF QueueInv, OnePollerPerService, InQueue
<1>6. OnlyUsefulTraces' /\ TraceInv'
  <2>1. \A r \in Requests : req[r].trace \in Traces
    BY <1>t DEF TypeOK
  <2> QED
    BY <1>t, <1>u, <1>3, <2>1, TablesSame
<1>7. ParkedClientIsCurrent'
  BY <1>t, <1>u, ParkedFrame
<1>8. LastInv'
  <2>1. \A c \in Clients, v \in Traces : Leaves(c, v)' => Leaves(c, v)
    BY <1>u DEF Leaves, Queued
  <2>2. \A c \in Clients, v \in Traces : IsClient(c, v) =>
          IsClient(c, v)' /\ Len(chans'[v]) = Len(chans[v])
    BY <1>u, <1>3 DEF IsClient
  <2> QED
    BY <1>t, <1>u, <2>1, <2>2, LastFrame
<1> QED
  BY <1>4, <1>5, <1>6, <1>7, <1>8 DEF IInv

LEMMA NoReqType ==
  /\ NoReq \in [pc : {"idle", "queued", "uploading"}, client : Clients, trace : Traces,
                n : 0..MaxEvents, last : BOOLEAN, chan : Nat]
  /\ NoReq.pc = "idle"
<1>1. (CHOOSE t \in Traces : TRUE) \in Traces /\ (CHOOSE c \in Clients : TRUE) \in Clients
  BY DaemonAssumption, Zenon DEF DaemonAssumption
<1> QED
  BY <1>1, DaemonAssumption DEF NoReq, DaemonAssumption

(* The reply to a trace-event request. *)
LEMMA ReplyStep ==
  ASSUME IInv, NEW r \in Requests, UploadReplies(r)
  PROVE  IInv'
<1> USE DEF daemonVars
<1> DEFINE R == [pc : {"idle", "queued", "uploading"}, client : Clients, trace : Traces,
                 n : 0..MaxEvents, last : BOOLEAN, chan : Nat]
<1>t. TypeOK /\ QueueInv /\ OnlyUsefulTraces /\ TraceInv /\ LastInv /\ ParkedClientIsCurrent
      /\ OnePollerPerService
  BY DEF IInv
<1>u. UNCHANGED <<queue, main, registered, info, chans, away, polling, poll, told, streams, finished, acts, restarts>>
  BY DEF UploadReplies
<1>0. PICK c \in Clients, t \in Traces : c = req[r].client /\ t = req[r].trace
  BY <1>t DEF TypeOK
<1>1. /\ req[r].pc = "uploading" /\ req \in [Requests -> R]
      /\ req' \in [Requests -> R] /\ req'[r].pc = "idle"
      /\ \A d \in Requests : d # r => req'[d] = req[d]
  <2>1. req' = [req EXCEPT ![r] = NoReq] /\ req \in [Requests -> R] /\ req[r].pc = "uploading"
    BY <1>t DEF UploadReplies, TypeOK
  <2> QED
    BY <1>0, <2>1, NoReqType
<1>2. /\ unreg' \in [Clients -> [Traces -> Nat]]
      /\ \A d \in Clients, u \in Traces : unreg'[d][u] > 0 =>
           unreg[d][u] > 0 \/ (d = c /\ u = t /\ req[r].last)
  <2>1. unreg \in [Clients -> [Traces -> Nat]]
    BY <1>t DEF TypeOK
  <2>2. CASE req[r].last
    <3>1. unreg' = [unreg EXCEPT ![c][t] = @ + 1]
      BY <2>2, <1>0 DEF UploadReplies
    <3> QED
      BY <2>1, <2>2, <3>1
  <2>3. CASE ~ req[r].last
    BY <2>1, <2>3 DEF UploadReplies
  <2> QED
    BY <2>2, <2>3
<1>3. TypeOK'
  BY <1>t, <1>u, <1>1, <1>2 DEF TypeOK
<1>4. QueueInv'
  <2>1. \A d \in Requests : req[d].pc = "queued" => req'[d].pc = "queued"
    BY <1>1
  <2> QED
    BY <1>t, <1>u, <2>1 DEF QueueInv
<1>5. OnlyUsefulTraces' /\ TraceInv'
  BY <1>t, <1>u, <1>1, TablesSame
<1>6. ParkedClientIsCurrent'
  BY <1>t, <1>u, ParkedFrame
<1>7. OnePollerPerService'
  BY <1>t, <1>u DEF OnePollerPerService, InQueue
<1>8. LastInv'
  <2>1. \A d \in Clients, u \in Traces : Leaves(d, u)' => Leaves(d, u) \/ (d = c /\ u = t /\ req[r].last)
    BY <1>u, <1>2 DEF Leaves, Queued
  <2>2. req[r].last => t \in finished[c]
    BY <1>t, <1>0, <1>1 DEF LastInv
  <2>3. \A d \in Clients, u \in Traces : Leaves(d, u)' => u \in finished'[d]
    BY <1>t, <1>u, <2>1, <2>2 DEF LastInv
  <2>4. ASSUME NEW k \in Requests
        PROVE  /\ req'[k].pc # "idle" /\ req'[k].last => req'[k].trace \in finished'[req'[k].client]
               /\ req'[k].pc = "uploading" =>
                    \/ /\ info'[req'[k].trace].known /\ req'[k].client \in info'[req'[k].trace].clients
                       /\ req'[k].chan = Len(chans'[req'[k].trace])
                    \/ req'[k].trace \in finished'[req'[k].client]
    BY <1>t, <1>u, <1>1 DEF LastInv, IsClient
  <2> QED
    BY <2>3, <2>4 DEF LastInv, IsClient
<1> QED
  BY <1>3, <1>4, <1>5, <1>6, <1>7, <1>8 DEF IInv

-----------------------------------------------------------------------------
LEMMA IdleType ==
  /\ Idle \in [pc : {"idle", "sending"}, svc : Services, client : Clients \cup {NoClient}]
  /\ Idle.pc = "idle"
<1>1. (CHOOSE s \in Services : TRUE) \in Services
  BY DaemonAssumption, Zenon DEF DaemonAssumption
<1> QED
  BY <1>1 DEF Idle

(* The arithmetic of one service's long polls when an event e is received. *)
LEMMA PollersAfterReceive ==
  ASSUME OnePollerPerService, NEW e, NEW s \in Services,
         \A type \in {"longPoll", "changed"}, r \in Services :
           /\ InQueue(type, r) \in Nat /\ InQueue(type, r)' \in Nat
           /\ InQueue(type, r) = InQueue(type, r)' + (IF e.type = type /\ e.svc = r THEN 1 ELSE 0)
  PROVE  /\ InQueue("longPoll", s)' \in Nat /\ InQueue("changed", s)' \in Nat
         /\ InQueue("longPoll", s)' + InQueue("changed", s)'
              + (IF e.type \in {"longPoll", "changed"} /\ e.svc = s THEN 1 ELSE 0)
              + (IF s \in polling THEN 1 ELSE 0)
              + (IF main.pc = "sending" /\ main.svc = s THEN 1 ELSE 0)
            = (IF s \in registered THEN 1 ELSE 0)
<1>1. /\ InQueue("longPoll", s) \in Nat /\ InQueue("longPoll", s)' \in Nat
      /\ InQueue("longPoll", s) = InQueue("longPoll", s)' + (IF e.type = "longPoll" /\ e.svc = s THEN 1 ELSE 0)
  OBVIOUS
<1>2. /\ InQueue("changed", s) \in Nat /\ InQueue("changed", s)' \in Nat
      /\ InQueue("changed", s) = InQueue("changed", s)' + (IF e.type = "changed" /\ e.svc = s THEN 1 ELSE 0)
  OBVIOUS
<1>3. InQueue("longPoll", s) + InQueue("changed", s)
        + (IF s \in polling THEN 1 ELSE 0)
        + (IF main.pc = "sending" /\ main.svc = s THEN 1 ELSE 0)
      = (IF s \in registered THEN 1 ELSE 0)
  BY DEF OnePollerPerService
<1>4. CASE e.type = "longPoll" /\ e.svc = s
  BY <1>1, <1>2, <1>3, <1>4
<1>5. CASE e.type = "changed" /\ e.svc = s
  BY <1>1, <1>2, <1>3, <1>5
<1>6. CASE ~ (e.type \in {"longPoll", "changed"} /\ e.svc = s)
  BY <1>1, <1>2, <1>3, <1>6
<1> QED
  BY <1>4, <1>5, <1>6

(* What every handler starts from: the received event and what its receipt *)
(* alone does.                                                             *)
LEMMA HandlerFacts ==
  ASSUME IInv, NEW type, Receives(type), NEW e, e = Head(queue)
  PROVE  /\ main.pc = "idle" /\ queue # <<>> /\ queue' = Tail(queue)
         /\ e \in Event /\ e.type = type /\ e = queue[1] /\ Queued(e)
         /\ queue' \in Seq(Event) /\ Len(queue') <= Capacity
         /\ \A x : Queued(x)' => Queued(x)
         /\ \A r \in Services :
              /\ InQueue("longPoll", r)' \in Nat /\ InQueue("changed", r)' \in Nat
              /\ InQueue("longPoll", r)' + InQueue("changed", r)'
                   + (IF type \in {"longPoll", "changed"} /\ e.svc = r THEN 1 ELSE 0)
                   + (IF r \in polling THEN 1 ELSE 0)
                 = (IF r \in registered THEN 1 ELSE 0)
<1>1. main.pc = "idle" /\ queue # <<>> /\ queue' = Tail(queue) /\ e.type = type
  BY DEF Receives
<1>2. /\ e \in Event /\ e = queue[1] /\ Queued(e)
      /\ queue' \in Seq(Event) /\ Len(queue') <= Capacity
      /\ \A k \in {"longPoll", "changed"}, r \in Services :
           /\ InQueue(k, r) \in Nat /\ InQueue(k, r)' \in Nat
           /\ InQueue(k, r) = InQueue(k, r)' + (IF e.type = k /\ e.svc = r THEN 1 ELSE 0)
      /\ \A x : Queued(x)' => Queued(x)
  BY <1>1, ReceiveFacts DEF IInv
<1>3. ASSUME NEW r \in Services
      PROVE  /\ InQueue("longPoll", r)' \in Nat /\ InQueue("changed", r)' \in Nat
             /\ InQueue("longPoll", r)' + InQueue("changed", r)'
                  + (IF type \in {"longPoll", "changed"} /\ e.svc = r THEN 1 ELSE 0)
                  + (IF r \in polling THEN 1 ELSE 0)
                = (IF r \in registered THEN 1 ELSE 0)
  <2>1. /\ InQueue("longPoll", r)' \in Nat /\ InQueue("changed", r)' \in Nat
        /\ InQueue("longPoll", r)' + InQueue("changed", r)'
             + (IF e.type \in {"longPoll", "changed"} /\ e.svc = r THEN 1 ELSE 0)
             + (IF r \in polling THEN 1 ELSE 0)
             + (IF main.pc = "sending" /\ main.svc = r THEN 1 ELSE 0)
           = (IF r \in registered THEN 1 ELSE 0)
    BY <1>2, PollersAfterReceive DEF IInv
  <2> QED
    BY <1>1, <2>1
<1> QED
  BY <1>1, <1>2, <1>3

(* Handlers that leave the traces and the clients alone. *)
LEMMA QuietHandlers ==
  ASSUME IInv, HandleHeartbeat \/ HandleLongPoll \/ HandleFirstRegistration
  PROVE  IInv'
<1> USE DEF daemonVars, clientVars
<1>t. TypeOK /\ QueueInv /\ OnlyUsefulTraces /\ TraceInv /\ LastInv /\ ParkedClientIsCurrent
      /\ OnePollerPerService
  BY DEF IInv
<1>u. /\ UNCHANGED <<info, chans, poll, req, told, streams, finished, unreg, acts, restarts>>
      /\ registered \subseteq registered'
  BY DEF HandleHeartbeat, HandleLongPoll, HandleFirstRegistration
<1>0. PICK type \in {"heartbeat", "longPoll", "register"} : Receives(type)
  BY DEF HandleHeartbeat, HandleLongPoll, HandleFirstRegistration
<1>1. PICK e : e = Head(queue)
  OBVIOUS
<1>2. /\ main.pc = "idle" /\ queue # <<>> /\ queue' = Tail(queue)
      /\ e \in Event /\ e.type = type /\ e = queue[1] /\ Queued(e)
      /\ queue' \in Seq(Event) /\ Len(queue') <= Capacity
      /\ \A x : Queued(x)' => Queued(x)
      /\ \A r \in Services :
           /\ InQueue("longPoll", r)' \in Nat /\ InQueue("changed", r)' \in Nat
           /\ InQueue("longPoll", r)' + InQueue("changed", r)'
                + (IF type \in {"longPoll", "changed"} /\ e.svc = r THEN 1 ELSE 0)
                + (IF r \in polling THEN 1 ELSE 0)
              = (IF r \in registered THEN 1 ELSE 0)
  BY <1>0, <1>1, HandlerFacts
<1>3. QueueInv'
  BY <1>t, <1>u, <1>2, ReceiveKeepsQueue
<1>4. OnlyUsefulTraces' /\ TraceInv'
  BY <1>t, <1>u, TablesFrame
<1>5. LastInv'
  <2>1. \A c \in Clients, t \in Traces : Leaves(c, t)' => Leaves(c, t)
    BY <1>u, <1>2 DEF Leaves
  <2>2. \A c \in Clients, t \in Traces : IsClient(c, t) =>
          IsClient(c, t)' /\ Len(chans'[t]) = Len(chans[t])
    BY <1>u DEF IsClient
  <2> QED
    BY <1>t, <1>u, <2>1, <2>2, LastFrame
<1>6. ParkedClientIsCurrent'
  BY <1>t, <1>u, ParkedFrame
<1>7. TypeOK' /\ OnePollerPerService'
  <2>1. CASE HandleHeartbeat
    <3>1. UNCHANGED <<main, registered, polling>> /\ away' = TRUE /\ type = "heartbeat"
      BY <2>1, <1>0, <1>1, <1>2 DEF HandleHeartbeat, Receives
    <3>2. TypeOK'
      BY <1>t, <1>u, <1>2, <3>1 DEF TypeOK
    <3>3. OnePollerPerService'
      BY <1>2, <3>1 DEF OnePollerPerService
    <3> QED
      BY <3>2, <3>3
  <2>2. CASE HandleLongPoll
    <3>1. UNCHANGED <<main, registered, away>> /\ polling' = polling \cup {e.svc} /\ type = "longPoll"
          /\ e.svc \in Services
      BY <2>2, <1>0, <1>1, <1>2, EventKinds DEF HandleLongPoll, Receives
    <3>2. TypeOK'
      BY <1>t, <1>u, <1>2, <3>1 DEF TypeOK
    <3>3. OnePollerPerService'
      <4> SUFFICES ASSUME NEW r \in Services
                   PROVE  InQueue("longPoll", r)' + InQueue("changed", r)'
                            + (IF r \in polling' THEN 1 ELSE 0)
                            + (IF main'.pc = "sending" /\ main'.svc = r THEN 1 ELSE 0)
                          = (IF r \in registered' THEN 1 ELSE 0)
        BY DEF OnePollerPerService
      <4>1. /\ InQueue("longPoll", r)' \in Nat /\ InQueue("changed", r)' \in Nat
            /\ InQueue("longPoll", r)' + InQueue("changed", r)'
                 + (IF e.svc = r THEN 1 ELSE 0)
                 + (IF r \in polling THEN 1 ELSE 0)
               = (IF r \in registered THEN 1 ELSE 0)
        BY <1>2, <3>1
      <4> QED
        BY <1>2, <3>1, <4>1
    <3> QED
      BY <3>2, <3>3
  <2>3. CASE HandleFirstRegistration
    <3>1. PICK c \in Clients : c = e.client
      BY <2>3, <1>1, <1>2, EventKinds DEF HandleFirstRegistration, Receives
    <3>2. /\ ServiceOf[c] \notin registered /\ registered' = registered \cup {ServiceOf[c]}
          /\ main' = [pc |-> "sending", svc |-> ServiceOf[c], client |-> c]
          /\ UNCHANGED <<away, polling>> /\ type = "register"
      BY <2>3, <3>1, <1>1, <1>2 DEF HandleFirstRegistration, Receives
    <3>3. ServiceOf[c] \in Services
      BY DaemonAssumption DEF DaemonAssumption
    <3>4. TypeOK'
      BY <1>t, <1>u, <1>2, <3>2, <3>3 DEF TypeOK
    <3>5. OnePollerPerService'
      <4> SUFFICES ASSUME NEW r \in Services
                   PROVE  InQueue("longPoll", r)' + InQueue("changed", r)'
                            + (IF r \in polling' THEN 1 ELSE 0)
                            + (IF main'.pc = "sending" /\ main'.svc = r THEN 1 ELSE 0)
                          = (IF r \in registered' THEN 1 ELSE 0)
        BY DEF OnePollerPerService
      <4>1. /\ InQueue("longPoll", r)' \in Nat /\ InQueue("changed", r)' \in Nat
            /\ InQueue("longPoll", r)' + InQueue("changed", r)'
                 + (IF r \in polling THEN 1 ELSE 0)
               = (IF r \in registered THEN 1 ELSE 0)
        BY <1>2, <3>2
      <4> QED
        BY <3>2, <4>1
    <3> QED
      BY <3>4, <3>5
  <2> QED
    BY <2>1, <2>2, <2>3
<1> QED
  BY <1>3, <1>4, <1>5, <1>6, <1>7 DEF IInv

(* registrationRequest.handle: answered or parked, the client knows the    *)
(* active traces of its service, and only it and the lists of clients      *)
(* change.                                                                 *)
LEMMA FinishFacts ==
  ASSUME IInv, NEW c \in Clients, FinishRegistration(c)
  PROVE  /\ info' \in [Traces -> [known : BOOLEAN, active : BOOLEAN, clients : SUBSET Clients]]
         /\ \A t \in Traces : /\ info'[t].known = info[t].known /\ info'[t].active = info[t].active
                              /\ info[t].clients \subseteq info'[t].clients
                              /\ ~ info[t].known => info'[t] = info[t]
         /\ poll' \in [Clients -> {"idle", "queued", "waiting"}]
         /\ told' \in [Clients -> SUBSET Traces] /\ streams' \in [Clients -> SUBSET Traces]
         /\ told'[c] = Active(info, ServiceOf[c])
         /\ streams'[c] = streams[c] \cup (Active(info, ServiceOf[c]) \ told[c])
         /\ \A d \in Clients : d # c => poll'[d] = poll[d] /\ told'[d] = told[d] /\ streams'[d] = streams[d]
<1> DEFINE now == Active(info, ServiceOf[c])
           I == [known : BOOLEAN, active : BOOLEAN, clients : SUBSET Clients]
<1>t. /\ info \in [Traces -> I] /\ poll \in [Clients -> {"idle", "queued", "waiting"}]
      /\ told \in [Clients -> SUBSET Traces] /\ streams \in [Clients -> SUBSET Traces]
      /\ now \subseteq Traces
  BY DEF IInv, TypeOK, Active
<1>1. CASE now # told[c]
  <2>1. /\ Answer({c}, now \ told[c], told[c] \ now)
        /\ info' = AddClients(info, {c}, now \ told[c])
    BY <1>1 DEF FinishRegistration
  <2>2. /\ info' \in [Traces -> I]
        /\ \A t \in Traces : /\ info'[t].known = info[t].known /\ info'[t].active = info[t].active
                             /\ info[t].clients \subseteq info'[t].clients
                             /\ ~ info[t].known => info'[t] = info[t]
    BY <2>1, <1>t DEF AddClients
  <2>3. /\ poll' \in [Clients -> {"idle", "queued", "waiting"}]
        /\ told' \in [Clients -> SUBSET Traces] /\ streams' \in [Clients -> SUBSET Traces]
        /\ told'[c] = now
        /\ streams'[c] = streams[c] \cup (now \ told[c])
        /\ \A d \in Clients : d # c => poll'[d] = poll[d] /\ told'[d] = told[d] /\ streams'[d] = streams[d]
    <3> HIDE DEF now
    <3> QED
      BY <2>1, <1>t DEF Answer
  <2> QED
    BY <2>2, <2>3
<1>2. CASE now = told[c]
  <2>1. poll' = [poll EXCEPT ![c] = "waiting"] /\ UNCHANGED <<info, told, streams>>
    BY <1>2 DEF FinishRegistration
  <2> HIDE DEF now
  <2>2. /\ streams'[c] = streams[c] \cup (now \ told[c]) /\ told'[c] = now
    BY <1>2, <2>1
  <2> QED
    BY <1>t, <2>1, <2>2 DEF now
<1> QED
  BY <1>1, <1>2

(* What a registration does to the tables, once the queue has no more of   *)
(* unregistrations than before.                                            *)
LEMMA FinishKeeps ==
  ASSUME IInv, NEW c \in Clients, FinishRegistration(c),
         UNCHANGED <<registered, chans, req, unreg, finished, acts>>,
         \A d \in Clients, t \in Traces : Leaves(d, t)' => Leaves(d, t)
  PROVE  OnlyUsefulTraces' /\ TraceInv' /\ ParkedClientIsCurrent' /\ LastInv'
<1>t. TypeOK /\ OnlyUsefulTraces /\ TraceInv /\ LastInv /\ ParkedClientIsCurrent
  BY DEF IInv
<1>1. /\ info' \in [Traces -> [known : BOOLEAN, active : BOOLEAN, clients : SUBSET Clients]]
      /\ \A t \in Traces : /\ info'[t].known = info[t].known /\ info'[t].active = info[t].active
                           /\ info[t].clients \subseteq info'[t].clients
                           /\ ~ info[t].known => info'[t] = info[t]
      /\ poll' \in [Clients -> {"idle", "queued", "waiting"}]
      /\ told' \in [Clients -> SUBSET Traces] /\ streams' \in [Clients -> SUBSET Traces]
      /\ told'[c] = Active(info, ServiceOf[c])
      /\ streams'[c] = streams[c] \cup (Active(info, ServiceOf[c]) \ told[c])
      /\ \A d \in Clients : d # c => poll'[d] = poll[d] /\ told'[d] = told[d] /\ streams'[d] = streams[d]
  BY FinishFacts
<1>2. OnlyUsefulTraces'
  BY <1>t, <1>1 DEF OnlyUsefulTraces, Incarnations
<1>3. TraceInv'
  BY <1>t, <1>1 DEF TraceInv, Incarnations
<1>4. ParkedClientIsCurrent'
  <2>1. \A s \in Services : Active(info', s) = Active(info, s)
    BY <1>1 DEF Active
  <2>2. \A d \in Clients : ServiceOf[d] \in Services
    BY DaemonAssumption DEF DaemonAssumption
  <2> QED
    BY <1>t, <1>1, <2>1, <2>2 DEF ParkedClientIsCurrent
<1>5. LastInv'
  <2>1. \A d \in Clients, t \in Traces : IsClient(d, t) =>
          IsClient(d, t)' /\ Len(chans'[t]) = Len(chans[t])
    BY <1>1 DEF IsClient
  <2> QED
    BY <1>t, <2>1, LastFrame
<1> QED
  BY <1>2, <1>3, <1>4, <1>5

LEMMA RegistrationStep ==
  ASSUME IInv, HandleRegistration
  PROVE  IInv'
<1>t. TypeOK /\ QueueInv
  BY DEF IInv
<1>u. UNCHANGED <<main, away, registered, chans, polling, req, unreg, finished, acts, restarts>> /\ Receives("register")
  BY DEF HandleRegistration
<1>1. PICK e : e = Head(queue)
  OBVIOUS
<1>2. /\ main.pc = "idle" /\ queue # <<>> /\ queue' = Tail(queue)
      /\ e \in Event /\ e.type = "register" /\ e = queue[1] /\ Queued(e)
      /\ queue' \in Seq(Event) /\ Len(queue') <= Capacity
      /\ \A x : Queued(x)' => Queued(x)
      /\ \A r \in Services :
           /\ InQueue("longPoll", r)' \in Nat /\ InQueue("changed", r)' \in Nat
           /\ InQueue("longPoll", r)' + InQueue("changed", r)'
                + (IF "register" \in {"longPoll", "changed"} /\ e.svc = r THEN 1 ELSE 0)
                + (IF r \in polling THEN 1 ELSE 0)
              = (IF r \in registered THEN 1 ELSE 0)
  BY <1>u, <1>1, HandlerFacts
<1>3. PICK c \in Clients : FinishRegistration(c)
  BY <1>1, <1>2, EventKinds DEF HandleRegistration
<1>4. /\ info' \in [Traces -> [known : BOOLEAN, active : BOOLEAN, clients : SUBSET Clients]]
      /\ poll' \in [Clients -> {"idle", "queued", "waiting"}]
      /\ told' \in [Clients -> SUBSET Traces] /\ streams' \in [Clients -> SUBSET Traces]
  BY <1>3, FinishFacts
<1>5. TypeOK'
  BY <1>t, <1>u, <1>2, <1>4 DEF TypeOK
<1>6. QueueInv'
  BY <1>t, <1>u, <1>2, ReceiveKeepsQueue
<1>7. OnePollerPerService'
  BY <1>u, <1>2 DEF OnePollerPerService
<1>8. OnlyUsefulTraces' /\ TraceInv' /\ ParkedClientIsCurrent' /\ LastInv'
  <2>1. \A d \in Clients, t \in Traces : Leaves(d, t)' => Leaves(d, t)
    BY <1>u, <1>2 DEF Leaves
  <2> QED
    BY <1>u, <1>2, <1>3, <2>1, FinishKeeps
<1> QED
  BY <1>5, <1>6, <1>7, <1>8 DEF IInv

(* The main goroutine's send on its own channel. *)
LEMMA MainSendsStep ==
  ASSUME IInv, MainSends
  PROVE  IInv'
<1>t. TypeOK /\ QueueInv /\ OnlyUsefulTraces /\ TraceInv /\ LastInv /\ ParkedClientIsCurrent
      /\ OnePollerPerService
  BY DEF IInv
<1>u. /\ UNCHANGED <<away, registered, chans, polling, req, unreg, finished, acts, restarts>>
      /\ main' = Idle /\ main.pc = "sending"
  BY DEF MainSends
<1>1. PICK s \in Services : s = main.svc
  BY <1>t DEF TypeOK
<1>2. PICK e \in Event : Send(e) /\ e.type = "longPoll" /\ e.svc = s
  BY <1>1, NewEvents DEF MainSends
<1>3. /\ queue' \in Seq(Event) /\ Len(queue') <= Capacity
      /\ \A type \in {"longPoll", "changed"}, r \in Services :
           /\ InQueue(type, r) \in Nat /\ InQueue(type, r)' \in Nat
           /\ InQueue(type, r)' = InQueue(type, r) + (IF e.type = type /\ e.svc = r THEN 1 ELSE 0)
      /\ \A x : Queued(x)' <=> Queued(x) \/ x = e
  BY <1>t, <1>2, SendFacts
<1>4. \A d \in Clients, t \in Traces : Leaves(d, t)' => Leaves(d, t)
  BY <1>u, <1>2, <1>3, NewEvents DEF Leaves
<1>5. /\ info' \in [Traces -> [known : BOOLEAN, active : BOOLEAN, clients : SUBSET Clients]]
      /\ poll' \in [Clients -> {"idle", "queued", "waiting"}]
      /\ told' \in [Clients -> SUBSET Traces] /\ streams' \in [Clients -> SUBSET Traces]
      /\ OnlyUsefulTraces' /\ TraceInv' /\ ParkedClientIsCurrent' /\ LastInv'
  <2>1. CASE main.client = NoClient
    <3>1. UNCHANGED <<info, poll, told, streams>>
      BY <2>1 DEF MainSends
    <3>2. OnlyUsefulTraces' /\ TraceInv'
      BY <1>t, <1>u, <3>1, TablesFrame
    <3>3. ParkedClientIsCurrent'
      BY <1>t, <3>1, ParkedFrame
    <3>4. LastInv'
      <4>1. \A c \in Clients, t \in Traces : IsClient(c, t) =>
              IsClient(c, t)' /\ Len(chans'[t]) = Len(chans[t])
        BY <1>u, <3>1 DEF IsClient
      <4> QED
        BY <1>t, <1>u, <1>4, <4>1, LastFrame
    <3> QED
      BY <1>t, <3>1, <3>2, <3>3, <3>4 DEF TypeOK
  <2>2. CASE main.client # NoClient
    <3>1. PICK c \in Clients : FinishRegistration(c)
      BY <1>t, <2>2 DEF MainSends, TypeOK
    <3>2. OnlyUsefulTraces' /\ TraceInv' /\ ParkedClientIsCurrent' /\ LastInv'
      BY <1>u, <1>4, <3>1, FinishKeeps
    <3> QED
      BY <3>1, <3>2, FinishFacts
  <2> QED
    BY <2>1, <2>2
<1>6. TypeOK'
  BY <1>t, <1>u, <1>3, <1>5, IdleType DEF TypeOK
<1>7. QueueInv'
  <2>1. \A k \in Requests : e # Events(k)
    BY <1>2, NewEvents
  <2>2. \A k \in Requests : Queued(Events(k)) => req'[k].pc = "queued"
    BY <1>t, <1>u DEF QueueInv, Queued
  <2> QED
    BY <2>1, <2>2, <1>t, <1>2, SendKeepsQueue
<1>8. OnePollerPerService'
  <2> SUFFICES ASSUME NEW r \in Services
               PROVE  InQueue("longPoll", r)' + InQueue("changed", r)'
                        + (IF r \in polling' THEN 1 ELSE 0)
                        + (IF main'.pc = "sending" /\ main'.svc = r THEN 1 ELSE 0)
                      = (IF r \in registered' THEN 1 ELSE 0)
    BY DEF OnePollerPerService
  <2>1. InQueue("longPoll", r) + InQueue("changed", r)
          + (IF r \in polling THEN 1 ELSE 0)
          + (IF r = s THEN 1 ELSE 0)
        = (IF r \in registered THEN 1 ELSE 0)
    BY <1>t, <1>u, <1>1 DEF OnePollerPerService
  <2>2. /\ InQueue("longPoll", r) \in Nat /\ InQueue("changed", r) \in Nat
        /\ InQueue("longPoll", r)' = InQueue("longPoll", r) + (IF r = s THEN 1 ELSE 0)
        /\ InQueue("changed", r)' = InQueue("changed", r)
    BY <1>2, <1>3
  <2>3. main'.pc # "sending"
    BY <1>u, IdleType
  <2> QED
    BY <1>u, <2>1, <2>2, <2>3
<1> QED
  BY <1>5, <1>6, <1>7, <1>8 DEF IInv

(* traceEventRequest.handle: the request becomes an upload whose client is *)
(* registered and whose channel is the newest, or is refused.              *)
LEMMA EventsStep ==
  ASSUME IInv, HandleEvents
  PROVE  IInv'
<1>t. TypeOK /\ QueueInv /\ OnlyUsefulTraces /\ TraceInv /\ LastInv /\ ParkedClientIsCurrent
      /\ OnePollerPerService
  BY DEF IInv
<1>u. /\ UNCHANGED <<main, away, registered, chans, polling, poll, unreg, told, streams, finished, acts, restarts>>
      /\ Receives("events")
  BY DEF HandleEvents
<1>1. PICK e : e = Head(queue)
  OBVIOUS
<1>2. /\ main.pc = "idle" /\ queue # <<>> /\ queue' = Tail(queue)
      /\ e \in Event /\ e.type = "events" /\ e = queue[1] /\ Queued(e)
      /\ queue' \in Seq(Event) /\ Len(queue') <= Capacity
      /\ \A x : Queued(x)' => Queued(x)
      /\ \A r \in Services :
           /\ InQueue("longPoll", r)' \in Nat /\ InQueue("changed", r)' \in Nat
           /\ InQueue("longPoll", r)' + InQueue("changed", r)'
                + (IF "events" \in {"longPoll", "changed"} /\ e.svc = r THEN 1 ELSE 0)
                + (IF r \in polling THEN 1 ELSE 0)
              = (IF r \in registered THEN 1 ELSE 0)
  BY <1>u, <1>1, HandlerFacts
<1>3. PICK k \in Requests : k = e.req /\ e = Events(k)
  BY <1>2, EventKinds
<1>4. req[k].pc = "queued"
  BY <1>t, <1>2, <1>3 DEF QueueInv, Queued
<1>5. PICK c \in Clients, t \in Traces : c = req[k].client /\ t = req[k].trace
  BY <1>t DEF TypeOK
<1>6. IF info[t].known
      THEN /\ info' = [info EXCEPT ![t].clients = @ \cup {c}]
           /\ req' = [req EXCEPT ![k].pc = "uploading", ![k].chan = Len(chans[t])]
      ELSE /\ req' = [req EXCEPT ![k] = NoReq]
           /\ info' = info
  BY <1>1, <1>3, <1>5 DEF HandleEvents
<1>7. /\ info' \in [Traces -> [known : BOOLEAN, active : BOOLEAN, clients : SUBSET Clients]]
      /\ \A u \in Traces : /\ info'[u].known = info[u].known /\ info'[u].active = info[u].active
                           /\ info[u].clients \subseteq info'[u].clients
                           /\ ~ info[u].known => info'[u] = info[u]
      /\ info[t].known => c \in info'[t].clients
  <2>1. info \in [Traces -> [known : BOOLEAN, active : BOOLEAN, clients : SUBSET Clients]]
    BY <1>t DEF TypeOK
  <2>2. CASE info[t].known
    <3> DEFINE i == [info[t] EXCEPT !.clients = @ \cup {c}]
    <3>1. /\ i \in [known : BOOLEAN, active : BOOLEAN, clients : SUBSET Clients]
          /\ i.known = info[t].known /\ i.active = info[t].active
          /\ i.clients = info[t].clients \cup {c}
      BY <2>1
    <3>2. info' = [info EXCEPT ![t] = i]
      BY <1>6, <2>2
    <3> HIDE DEF i
    <3>3. info'[t] = i /\ \A u \in Traces : u # t => info'[u] = info[u]
      BY <2>1, <3>2
    <3>4. info' \in [Traces -> [known : BOOLEAN, active : BOOLEAN, clients : SUBSET Clients]]
      BY <2>1, <3>1, <3>2
    <3> QED
      BY <2>2, <3>1, <3>3, <3>4
  <2>3. CASE ~ info[t].known
    BY <2>1, <1>6, <2>3
  <2> QED
    BY <2>2, <2>3
<1>8. Len(chans[t]) \in Nat
  BY <1>t DEF TypeOK
<1>9. /\ req' \in [Requests -> [pc : {"idle", "queued", "uploading"}, client : Clients, trace : Traces,
                               n : 0..MaxEvents, last : BOOLEAN, chan : Nat]]
      /\ \A d \in Requests : d # k => req'[d] = req[d]
      /\ req'[k].pc # "idle" => /\ info[t].known /\ req'[k].pc = "uploading"
                                /\ req'[k].client = c /\ req'[k].trace = t /\ req'[k].last = req[k].last
                                /\ req'[k].chan = Len(chans[t])
  <2> DEFINE R == [pc : {"idle", "queued", "uploading"}, client : Clients, trace : Traces,
                   n : 0..MaxEvents, last : BOOLEAN, chan : Nat]
  <2>1. req \in [Requests -> R]
    BY <1>t DEF TypeOK
  <2>2. PICK r \in R : /\ req' = [req EXCEPT ![k] = r]
                       /\ r.pc # "idle" => /\ info[t].known /\ r.pc = "uploading"
                                           /\ r.client = c /\ r.trace = t /\ r.last = req[k].last
                                           /\ r.chan = Len(chans[t])
    <3>1. CASE info[t].known
      <4> DEFINE r == [req[k] EXCEPT !.pc = "uploading", !.chan = Len(chans[t])]
      <4>1. /\ r \in R /\ r.pc = "uploading" /\ r.client = c /\ r.trace = t /\ r.last = req[k].last
            /\ r.chan = Len(chans[t])
        BY <1>5, <1>8, <2>1
      <4>2. req' = [req EXCEPT ![k] = r]
        BY <1>6, <3>1
      <4> HIDE DEF r, R
      <4> QED
        BY <3>1, <4>1, <4>2
    <3>2. CASE ~ info[t].known
      BY <1>6, <3>2, NoReqType
    <3> QED
      BY <3>1, <3>2
  <2> HIDE DEF R
  <2>3. req' \in [Requests -> R] /\ req'[k] = r /\ \A d \in Requests : d # k => req'[d] = req[d]
    BY <2>1, <2>2
  <2> QED
    BY <2>2, <2>3 DEF R
<1>10. TypeOK'
  BY <1>t, <1>u, <1>2, <1>7, <1>9 DEF TypeOK
<1>11. QueueInv'
  BY <1>t, <1>1, <1>2, <1>3, <1>9, ReceiveKeepsQueue
<1>12. OnePollerPerService'
  BY <1>u, <1>2 DEF OnePollerPerService
<1>13. ParkedClientIsCurrent'
  BY <1>t, <1>u, <1>7, ParkedFrame
<1>14. OnlyUsefulTraces'
  BY <1>t, <1>u, <1>7 DEF OnlyUsefulTraces, Incarnations
<1>15. TraceInv'
  <2>1. \A u \in Traces : IF info'[u].known THEN Len(chans'[u]) > 0 ELSE info'[u] = NoInfo
    BY <1>t, <1>u, <1>7 DEF TraceInv
  <2>2. \A d \in Requests : d # k /\ req'[d].pc = "uploading" => req'[d].chan \in 1..Len(chans[req'[d].trace])
    BY <1>t, <1>9 DEF TraceInv, Incarnations
  <2>3. info[t].known => Len(chans[t]) > 0
    BY <1>t DEF TraceInv
  <2>4. req'[k].pc = "uploading" => req'[k].chan \in 1..Len(chans[req'[k].trace])
    BY <1>8, <1>9, <2>3
  <2> QED
    BY <1>u, <2>1, <2>2, <2>4 DEF TraceInv, Incarnations
<1>16. LastInv'
  <2>1. \A d \in Clients, u \in Traces : Leaves(d, u)' => u \in finished'[d]
    <3>1. \A d \in Clients, u \in Traces : Leaves(d, u)' => Leaves(d, u)
      BY <1>u, <1>2 DEF Leaves
    <3> QED
      BY <1>t, <1>u, <3>1 DEF LastInv
  <2>2. ASSUME NEW d \in Requests
        PROVE  /\ req'[d].pc # "idle" /\ req'[d].last => req'[d].trace \in finished'[req'[d].client]
               /\ req'[d].pc = "uploading" =>
                    \/ /\ info'[req'[d].trace].known /\ req'[d].client \in info'[req'[d].trace].clients
                       /\ req'[d].chan = Len(chans'[req'[d].trace])
                    \/ req'[d].trace \in finished'[req'[d].client]
    <3>1. /\ req[d].pc # "idle" /\ req[d].last => req[d].trace \in finished[req[d].client]
          /\ req[d].pc = "uploading" =>
               \/ /\ info[req[d].trace].known /\ req[d].client \in info[req[d].trace].clients
                  /\ req[d].chan = Len(chans[req[d].trace])
               \/ req[d].trace \in finished[req[d].client]
          /\ req[d].trace \in Traces
      BY <1>t DEF LastInv, IsClient, TypeOK
    <3>2. CASE d # k
      BY <1>u, <1>7, <1>9, <3>1, <3>2
    <3>3. CASE d = k
      BY <1>u, <1>4, <1>5, <1>7, <1>9, <3>1, <3>3
    <3> QED
      BY <3>2, <3>3
  <2> QED
    BY <2>1, <2>2 DEF LastInv, IsClient
<1> QED
  BY <1>10, <1>11, <1>12, <1>13, <1>14, <1>15, <1>16 DEF IInv

(* unregisterTrace closes the newest channel of each trace it forgets, and *)
(* no other.                                                               *)
LEMMA Closes ==
  ASSUME NEW ch \in [Traces -> Seq([buf : 0..TraceBuffer, closed : BOOLEAN, done : BOOLEAN])],
         NEW old, NEW new, NEW t \in Traces, old[t].known => Len(ch[t]) > 0
  PROVE  /\ CloseForgotten(old, new, ch)[t] \in Seq([buf : 0..TraceBuffer, closed : BOOLEAN, done : BOOLEAN])
         /\ Len(CloseForgotten(old, new, ch)[t]) = Len(ch[t]) /\ Len(ch[t]) \in Nat
         /\ \A i \in 1..Len(ch[t]) :
              CloseForgotten(old, new, ch)[t][i].closed
                <=> ch[t][i].closed \/ (old[t].known /\ ~ new[t].known /\ i = Len(ch[t]))
<1> DEFINE C == [buf : 0..TraceBuffer, closed : BOOLEAN, done : BOOLEAN]
<1>1. ch \in [Traces -> Seq(C)]
  OBVIOUS
<1> HIDE DEF C
<1>c. ch[t] \in Seq(C) /\ Len(ch[t]) \in Nat
  BY <1>1
<1>2. CASE old[t].known /\ ~ new[t].known
  <2>1. CloseForgotten(old, new, ch)[t] = [ch[t] EXCEPT ![Len(ch[t])].closed = TRUE]
    BY <1>2 DEF CloseForgotten
  <2>2. Len(ch[t]) \in 1..Len(ch[t])
    BY <1>c, <1>2
  <2>3. ch[t][Len(ch[t])] \in C
    BY <1>c, <2>2
  <2> DEFINE x == [ch[t][Len(ch[t])] EXCEPT !.closed = TRUE]
             q == [ch[t] EXCEPT ![Len(ch[t])] = x]
  <2>4. x \in C /\ x.closed = TRUE
    BY <2>3 DEF C
  <2>5. CloseForgotten(old, new, ch)[t] = q
    BY <2>1
  <2> HIDE DEF x
  <2>6. /\ q \in Seq(C) /\ Len(q) = Len(ch[t]) /\ q[Len(ch[t])] = x
        /\ \A i \in 1..Len(ch[t]) : i # Len(ch[t]) => q[i] = ch[t][i]
    BY <1>c, <2>2, <2>4
  <2> HIDE DEF q
  <2> QED
    BY <1>c, <1>2, <2>4, <2>5, <2>6 DEF C
<1>3. CASE ~ (old[t].known /\ ~ new[t].known)
  <2>1. CloseForgotten(old, new, ch)[t] = ch[t]
    BY <1>3 DEF CloseForgotten
  <2> QED
    BY <1>c, <1>3, <2>1 DEF C
<1> QED
  BY <1>2, <1>3

(* unregisterClientFromTrace.handle: the client is gone from the trace,    *)
(* which is forgotten only when it was inactive and had no other client.   *)
LEMMA UnregisterFacts ==
  ASSUME TypeOK, OnlyUsefulTraces, TraceInv, NEW c \in Clients, NEW t \in Traces,
         info' = IF info[t].known
                 THEN [info EXCEPT ![t] = UnregisterTrace([info[t] EXCEPT !.clients = @ \ {c}])]
                 ELSE info
  PROVE  /\ info' \in [Traces -> [known : BOOLEAN, active : BOOLEAN, clients : SUBSET Clients]]
         /\ \A u \in Traces :
              /\ info'[u].active = info[u].active
              /\ info'[u].known => info[u].known
              /\ ~ info'[u].known => info'[u] = NoInfo
              /\ info'[u].known /\ ~ info'[u].active => info'[u].clients # {}
              /\ \A d \in info[u].clients : d # c \/ u # t => d \in info'[u].clients
<1> DEFINE I == [known : BOOLEAN, active : BOOLEAN, clients : SUBSET Clients]
           j == [info[t] EXCEPT !.clients = @ \ {c}]
<1>1. info \in [Traces -> I]
  BY DEF TypeOK
<1>2. /\ j \in I /\ j.known = info[t].known /\ j.active = info[t].active
      /\ j.clients = info[t].clients \ {c}
  BY <1>1
<1>3. NoInfo \in I /\ NoInfo.known = FALSE /\ NoInfo.active = FALSE /\ NoInfo.clients = {}
  BY DEF NoInfo
<1>4. \A u \in Traces :
        /\ ~ info[u].known => info[u] = NoInfo
        /\ info[u].known /\ ~ info[u].active => info[u].clients # {}
  BY DEF OnlyUsefulTraces, TraceInv
<1>5. CASE info[t].known
  <2>1. info' = [info EXCEPT ![t] = UnregisterTrace(j)]
    BY <1>5
  <2> HIDE DEF j
  <2>2. /\ UnregisterTrace(j) \in I /\ UnregisterTrace(j).active = info[t].active
        /\ ~ UnregisterTrace(j).known => UnregisterTrace(j) = NoInfo
        /\ UnregisterTrace(j).known /\ ~ UnregisterTrace(j).active => UnregisterTrace(j).clients # {}
        /\ \A d \in info[t].clients : d # c => d \in UnregisterTrace(j).clients
    <3>1. CASE ~ j.active /\ j.clients = {}
      <4>1. UnregisterTrace(j) = NoInfo
        BY <3>1 DEF UnregisterTrace
      <4> QED
        BY <1>2, <1>3, <3>1, <4>1
    <3>2. CASE ~ (~ j.active /\ j.clients = {})
      <4>1. UnregisterTrace(j) = j
        BY <3>2 DEF UnregisterTrace
      <4> QED
        BY <1>2, <1>5, <3>2, <4>1
    <3> QED
      BY <3>1, <3>2
  <2> HIDE DEF I
  <2>3. /\ info' \in [Traces -> I] /\ info'[t] = UnregisterTrace(j)
        /\ \A u \in Traces : u # t => info'[u] = info[u]
    BY <1>1, <2>1, <2>2
  <2>4. ASSUME NEW u \in Traces
        PROVE  /\ info'[u].active = info[u].active
               /\ info'[u].known => info[u].known
               /\ ~ info'[u].known => info'[u] = NoInfo
               /\ info'[u].known /\ ~ info'[u].active => info'[u].clients # {}
               /\ \A d \in info[u].clients : d # c \/ u # t => d \in info'[u].clients
    BY <1>4, <1>5, <2>2, <2>3
  <2> QED
    BY <2>3, <2>4 DEF I
<1>6. CASE ~ info[t].known
  <2>1. info' = info
    BY <1>6
  <2> QED
    BY <1>1, <1>4, <2>1
<1> QED
  BY <1>5, <1>6

LEMMA UnregisterStep ==
  ASSUME IInv, HandleUnregister
  PROVE  IInv'
<1> USE DEF clientVars
<1>t. TypeOK /\ QueueInv /\ OnlyUsefulTraces /\ TraceInv /\ LastInv /\ ParkedClientIsCurrent
      /\ OnePollerPerService
  BY DEF IInv
<1>u. /\ UNCHANGED <<main, away, registered, polling, poll, req, told, streams, finished, unreg, acts, restarts>>
      /\ Receives("unregister")
  BY DEF HandleUnregister
<1>1. PICK e : e = Head(queue)
  OBVIOUS
<1>2. /\ main.pc = "idle" /\ queue # <<>> /\ queue' = Tail(queue)
      /\ e \in Event /\ e.type = "unregister" /\ e = queue[1] /\ Queued(e)
      /\ queue' \in Seq(Event) /\ Len(queue') <= Capacity
      /\ \A x : Queued(x)' => Queued(x)
      /\ \A r \in Services :
           /\ InQueue("longPoll", r)' \in Nat /\ InQueue("changed", r)' \in Nat
           /\ InQueue("longPoll", r)' + InQueue("changed", r)'
                + (IF "unregister" \in {"longPoll", "changed"} /\ e.svc = r THEN 1 ELSE 0)
                + (IF r \in polling THEN 1 ELSE 0)
              = (IF r \in registered THEN 1 ELSE 0)
  BY <1>u, <1>1, HandlerFacts
<1>3. /\ e.client \in Clients /\ e.trace \in Traces /\ e = Unregister(e.client, e.trace)
  BY <1>2, EventKinds
<1>4. PICK c \in Clients : c = e.client
  BY <1>3
<1>5. PICK t \in Traces : t = e.trace
  BY <1>3
<1>6. /\ info' \in [Traces -> [known : BOOLEAN, active : BOOLEAN, clients : SUBSET Clients]]
      /\ \A u \in Traces :
           /\ info'[u].active = info[u].active
           /\ info'[u].known => info[u].known
           /\ ~ info'[u].known => info'[u] = NoInfo
           /\ info'[u].known /\ ~ info'[u].active => info'[u].clients # {}
           /\ \A d \in info[u].clients : d # c \/ u # t => d \in info'[u].clients
  <2>1. info' = IF info[t].known
                THEN [info EXCEPT ![t] = UnregisterTrace([info[t] EXCEPT !.clients = @ \ {c}])]
                ELSE info
    BY <1>1, <1>4, <1>5 DEF HandleUnregister
  <2> QED
    BY <1>t, <2>1, UnregisterFacts
<1> DEFINE C == [buf : 0..TraceBuffer, closed : BOOLEAN, done : BOOLEAN]
<1>7. /\ chans' \in [Traces -> Seq(C)]
      /\ \A u \in Traces :
           /\ Len(chans'[u]) = Len(chans[u]) /\ Len(chans[u]) \in Nat
           /\ \A i \in 1..Len(chans[u]) :
                chans'[u][i].closed
                  <=> chans[u][i].closed \/ (info[u].known /\ ~ info'[u].known /\ i = Len(chans[u]))
  <2>1. chans' = CloseForgotten(info, info', chans) /\ chans \in [Traces -> Seq(C)]
    BY <1>t DEF HandleUnregister, TypeOK
  <2> HIDE DEF C
  <2>2. ASSUME NEW u \in Traces
        PROVE  /\ chans'[u] \in Seq(C)
               /\ Len(chans'[u]) = Len(chans[u]) /\ Len(chans[u]) \in Nat
               /\ \A i \in 1..Len(chans[u]) :
                    chans'[u][i].closed
                      <=> chans[u][i].closed \/ (info[u].known /\ ~ info'[u].known /\ i = Len(chans[u]))
    <3>1. info[u].known => Len(chans[u]) > 0
      BY <1>t DEF TraceInv
    <3>2. /\ CloseForgotten(info, info', chans)[u] \in Seq(C)
          /\ Len(CloseForgotten(info, info', chans)[u]) = Len(chans[u]) /\ Len(chans[u]) \in Nat
          /\ \A i \in 1..Len(chans[u]) :
               CloseForgotten(info, info', chans)[u][i].closed
                 <=> chans[u][i].closed \/ (info[u].known /\ ~ info'[u].known /\ i = Len(chans[u]))
      BY <2>1, <3>1, Closes, Zenon DEF C
    <3> QED
      BY <2>1, <3>2
  <2>3. chans' = [u \in Traces |-> chans'[u]]
    BY <2>1 DEF CloseForgotten
  <2>4. chans' \in [Traces -> Seq(C)]
    BY <2>2, <2>3
  <2> QED
    BY <2>2, <2>4
<1>8. TypeOK'
  BY <1>t, <1>u, <1>2, <1>6, <1>7 DEF TypeOK
<1>9. QueueInv'
  BY <1>t, <1>u, <1>2, ReceiveKeepsQueue
<1>10. OnePollerPerService'
  BY <1>u, <1>2 DEF OnePollerPerService
<1>11. ParkedClientIsCurrent'
  BY <1>t, <1>u, <1>6, ParkedFrame
<1>12. OnlyUsefulTraces'
  <2>1. ASSUME NEW u \in Traces, NEW g \in 1..Len(chans'[u])
        PROVE  chans'[u][g].closed = ~ (info'[u].known /\ g = Len(chans'[u]))
    <3>1. g \in 1..Len(chans[u]) /\ Len(chans'[u]) = Len(chans[u])
      BY <1>7, <2>1
    <3>2. chans[u][g].closed = ~ (info[u].known /\ g = Len(chans[u]))
      BY <1>t, <3>1 DEF OnlyUsefulTraces, Incarnations
    <3>3. chans'[u][g].closed <=> chans[u][g].closed \/ (info[u].known /\ ~ info'[u].known /\ g = Len(chans[u]))
      BY <1>7, <3>1
    <3>4. chans'[u][g] \in C
      <4> HIDE DEF C
      <4> QED
        BY <1>7, <2>1
    <3>5. chans'[u][g].closed \in BOOLEAN
      BY <3>4
    <3>6. chans'[u][g].closed <=> ~ (info'[u].known /\ g = Len(chans'[u]))
      BY <1>6, <3>1, <3>2, <3>3
    <3> QED
      BY <3>5, <3>6
  <2>2. \A u \in Traces : /\ info'[u].known /\ ~ info'[u].active => info'[u].clients # {}
                          /\ info'[u].known => ServiceOf[u] \in registered'
    BY <1>t, <1>u, <1>6 DEF OnlyUsefulTraces
  <2> QED
    BY <2>1, <2>2 DEF OnlyUsefulTraces, Incarnations
<1>13. TraceInv'
  <2>1. \A u \in Traces : IF info'[u].known THEN Len(chans'[u]) > 0 ELSE info'[u] = NoInfo
    BY <1>t, <1>6, <1>7 DEF TraceInv
  <2>2. \A d \in Requests : req[d].trace \in Traces
    BY <1>t DEF TypeOK
  <2>3. \A d \in Requests : req'[d].pc = "uploading" => req'[d].chan \in 1..Len(chans'[req'[d].trace])
    BY <1>t, <1>u, <1>7, <2>2 DEF TraceInv, Incarnations
  <2> QED
    BY <2>1, <2>3 DEF TraceInv, Incarnations
<1>14. LastInv'
  <2>1. \A d \in Clients, u \in Traces : Leaves(d, u)' => Leaves(d, u)
    BY <1>u, <1>2 DEF Leaves
  <2>2. t \in finished[c]
    BY <1>t, <1>2, <1>3, <1>4, <1>5 DEF LastInv, Leaves
  <2>3. ASSUME NEW d \in Clients, NEW u \in Traces, IsClient(d, u), u \notin finished[d]
        PROVE  IsClient(d, u)' /\ Len(chans'[u]) = Len(chans[u])
    <3>1. d # c \/ u # t
      BY <2>2, <2>3
    <3>2. d \in info'[u].clients
      BY <1>6, <2>3, <3>1 DEF IsClient
    <3>3. info'[u].known
      BY <1>6, <3>2 DEF NoInfo
    <3> QED
      BY <1>7, <3>2, <3>3 DEF IsClient
  <2> QED
    BY <1>t, <1>u, <2>1, <2>3, LastFrame
<1> QED
  BY <1>8, <1>9, <1>10, <1>11, <1>12, <1>13, <1>14 DEF IInv

(* changedActiveTracesEvent.handle, one trace: after a diff it is active   *)
(* when it was and is not stopped, or is started; it stays while somebody  *)
(* is registered; and it is known throughout or not at all.                *)
LEMMA DiffOfTrace ==
  ASSUME TypeOK, OnlyUsefulTraces, TraceInv, NEW t \in Traces,
         NEW A \in SUBSET Traces, NEW D \in SUBSET Traces, NEW C \in SUBSET Clients,
         NEW st, st = Activate(A)[t],
         NEW l, l = Deactivate(Activate(A), D)[t],
         NEW i, i = AddClients(Deactivate(Activate(A), D), C, A)[t]
  PROVE  /\ i \in [known : BOOLEAN, active : BOOLEAN, clients : SUBSET Clients]
         /\ st.known <=> info[t].known \/ t \in A
         /\ l.known => st.known
         /\ i.known <=> l.known
         /\ i.active <=> (info[t].active \/ t \in A) /\ t \notin D
         /\ ~ i.known => i = NoInfo
         /\ i.known /\ ~ i.active => i.clients # {}
         /\ info[t].clients \subseteq i.clients
<1> DEFINE I == [known : BOOLEAN, active : BOOLEAN, clients : SUBSET Clients]
<1>1. /\ info[t] \in I
      /\ ~ info[t].known => info[t] = NoInfo
      /\ info[t].known /\ ~ info[t].active => info[t].clients # {}
  BY DEF TypeOK, OnlyUsefulTraces, TraceInv
<1>2. NoInfo \in I /\ NoInfo.known = FALSE /\ NoInfo.active = FALSE /\ NoInfo.clients = {}
  BY DEF NoInfo
<1>3. NewInfo \in I /\ NewInfo.known = TRUE /\ NewInfo.active = TRUE /\ NewInfo.clients = {}
  BY DEF NewInfo
<1>4. /\ st \in I
      /\ st.known <=> info[t].known \/ t \in A
      /\ st.active <=> info[t].active \/ t \in A
      /\ st.clients = info[t].clients
      /\ ~ st.known => st = NoInfo
      /\ st.known /\ ~ st.active => st.clients # {}
  <2>1. CASE t \in A /\ info[t].known
    <3> DEFINE x == [info[t] EXCEPT !.active = TRUE]
    <3>1. st = x
      BY <2>1 DEF Activate, Start
    <3>2. x \in I /\ x.known = info[t].known /\ x.active = TRUE /\ x.clients = info[t].clients
      BY <1>1
    <3> QED
      BY <2>1, <3>1, <3>2
  <2>2. CASE t \in A /\ ~ info[t].known
    <3>1. st = NewInfo
      BY <2>2 DEF Activate, Start
    <3> QED
      BY <1>1, <1>2, <1>3, <2>2, <3>1
  <2>3. CASE t \notin A
    <3>1. st = info[t]
      BY <2>3 DEF Activate
    <3> QED
      BY <1>1, <2>3, <3>1
  <2> QED
    BY <2>1, <2>2, <2>3
<1>5. /\ l \in I
      /\ l.known => st.known
      /\ l.active <=> st.active /\ t \notin D
      /\ l.clients = st.clients
      /\ ~ l.known => l = NoInfo
      /\ l.known /\ ~ l.active => l.clients # {}
  <2>1. CASE t \in D /\ st.known
    <3> DEFINE x == [st EXCEPT !.active = FALSE]
    <3>1. l = UnregisterTrace(x)
      BY <2>1 DEF Deactivate
    <3>2. x \in I /\ x.known = st.known /\ x.active = FALSE /\ x.clients = st.clients
      BY <1>4
    <3> HIDE DEF x
    <3>3. l = IF x.clients = {} THEN NoInfo ELSE x
      BY <3>1, <3>2 DEF UnregisterTrace
    <3>4. CASE x.clients = {}
      BY <1>2, <2>1, <3>2, <3>3, <3>4
    <3>5. CASE x.clients # {}
      BY <2>1, <3>2, <3>3, <3>5
    <3> QED
      BY <3>4, <3>5
  <2>2. CASE ~ (t \in D /\ st.known)
    <3>1. l = st
      BY <2>2 DEF Deactivate
    <3>2. ~ st.known => ~ st.active
      BY <1>2, <1>4
    <3> QED
      BY <1>4, <2>2, <3>1, <3>2
  <2> QED
    BY <2>1, <2>2
<1>6. /\ i \in I /\ (i.known <=> l.known) /\ (i.active <=> l.active)
      /\ l.clients \subseteq i.clients
      /\ ~ l.known => i = l
  <2>1. CASE t \in A /\ l.known
    <3> DEFINE x == [l EXCEPT !.clients = @ \cup C]
    <3>1. i = x
      BY <2>1 DEF AddClients
    <3>2. x \in I /\ x.known = l.known /\ x.active = l.active /\ x.clients = l.clients \cup C
      BY <1>5
    <3> QED
      BY <2>1, <3>1, <3>2
  <2>2. CASE ~ (t \in A /\ l.known)
    <3>1. i = l
      BY <2>2 DEF AddClients
    <3> QED
      BY <1>5, <3>1
  <2> QED
    BY <2>1, <2>2
<1> HIDE DEF I
<1>7. i.known /\ ~ i.active => i.clients # {}
  BY <1>5, <1>6
<1> QED
  BY <1>4, <1>5, <1>6, <1>7 DEF I

(* The channels of t are now q: a new one was opened if the trace was      *)
(* "started" and not known, and the newest is open exactly when it is      *)
(* known now.                                                              *)
Rearranged(q, t, started, known) ==
  /\ q \in Seq([buf : 0..TraceBuffer, closed : BOOLEAN, done : BOOLEAN])
  /\ Len(chans[t]) \in Nat
  /\ started /\ ~ info[t].known => Len(q) = Len(chans[t]) + 1
  /\ ~ (started /\ ~ info[t].known) => Len(q) = Len(chans[t])
  /\ known => Len(q) > 0
  /\ \A g \in 1..Len(q) : q[g].closed <=> ~ (known /\ g = Len(q))

(* The channels of one trace when a diff is applied: a new one is opened   *)
(* exactly for a trace that is started and was not known, and the newest   *)
(* is open afterwards exactly when the trace is known.                     *)
LEMMA DiffOfChannels ==
  ASSUME TypeOK, OnlyUsefulTraces, TraceInv, NEW t \in Traces,
         NEW A \in SUBSET Traces, NEW D \in SUBSET Traces, NEW q,
         q = CloseForgotten(Activate(A), Deactivate(Activate(A), D), OpenChannels(A))[t]
  PROVE  Rearranged(q, t, t \in A, Deactivate(Activate(A), D)[t].known)
<1>a. PICK old, new : old = Activate(A) /\ new = Deactivate(Activate(A), D)
  OBVIOUS
<1>b. q = CloseForgotten(old, new, OpenChannels(A))[t]
  BY <1>a
<1>0. (old[t].known <=> info[t].known \/ t \in A) /\ (new[t].known => old[t].known)
  <2>1. PICK st, l, i : /\ st = Activate(A)[t] /\ l = Deactivate(Activate(A), D)[t]
                        /\ i = AddClients(Deactivate(Activate(A), D), {}, A)[t]
    OBVIOUS
  <2>2. (st.known <=> info[t].known \/ t \in A) /\ (l.known => st.known)
    BY <2>1, DiffOfTrace
  <2> QED
    BY <1>a, <2>1, <2>2
<1> DEFINE K == [buf : 0..TraceBuffer, closed : BOOLEAN, done : BOOLEAN]
           new1 == [buf |-> 0, closed |-> FALSE, done |-> FALSE]
<1>1. chans \in [Traces -> Seq(K)]
  BY DEF TypeOK
<1>2. new1 \in K /\ new1.closed = FALSE
  BY DaemonAssumption DEF DaemonAssumption
<1>3. OpenChannels(A) = [u \in Traces |-> IF u \in A /\ ~ info[u].known
                                          THEN Append(chans[u], new1) ELSE chans[u]]
  BY DEF OpenChannels
<1>4. /\ \A g \in 1..Len(chans[t]) : chans[t][g].closed <=> ~ (info[t].known /\ g = Len(chans[t]))
      /\ info[t].known => Len(chans[t]) > 0
  BY DEF OnlyUsefulTraces, TraceInv, Incarnations
<1> HIDE DEF K, new1
<1>5. chans[t] \in Seq(K) /\ Len(chans[t]) \in Nat
  BY <1>1
<1>6. \A u \in Traces : chans[u] \in Seq(K) /\ Append(chans[u], new1) \in Seq(K)
  BY <1>1, <1>2
<1> DEFINE ch == OpenChannels(A)
<1>7. ch \in [Traces -> Seq(K)] /\ ch[t] = IF t \in A /\ ~ info[t].known THEN Append(chans[t], new1) ELSE chans[t]
  BY <1>3, <1>6
<1> HIDE DEF ch
<1>8. /\ t \in A /\ ~ info[t].known => Len(ch[t]) = Len(chans[t]) + 1
      /\ ~ (t \in A /\ ~ info[t].known) => Len(ch[t]) = Len(chans[t])
      /\ Len(ch[t]) \in Nat
      /\ old[t].known => Len(ch[t]) > 0
      /\ \A g \in 1..Len(ch[t]) : ch[t][g].closed <=> ~ (old[t].known /\ g = Len(ch[t]))
  <2>1. CASE t \in A /\ ~ info[t].known
    <3>1. ch[t] = Append(chans[t], new1)
      BY <1>7, <2>1
    <3>2. /\ Len(ch[t]) = Len(chans[t]) + 1
          /\ 1..Len(ch[t]) = 1..Len(chans[t]) \cup {Len(chans[t]) + 1}
          /\ Len(chans[t]) + 1 \notin 1..Len(chans[t])
          /\ \A g \in 1..Len(chans[t]) : ch[t][g] = chans[t][g]
          /\ ch[t][Len(chans[t]) + 1] = new1
      BY <1>2, <1>5, <3>1, AfterSend
    <3>3. \A g \in 1..Len(chans[t]) : ch[t][g].closed /\ g # Len(ch[t])
      BY <1>4, <1>5, <2>1, <3>2
    <3>4. ~ ch[t][Len(ch[t])].closed
      BY <1>2, <3>2
    <3>5. \A g \in 1..Len(ch[t]) : ch[t][g].closed <=> ~ (old[t].known /\ g = Len(ch[t]))
      BY <1>0, <2>1, <3>2, <3>3, <3>4
    <3> QED
      BY <1>5, <2>1, <3>2, <3>5
  <2>2. CASE ~ (t \in A /\ ~ info[t].known)
    <3>1. ch[t] = chans[t] /\ (old[t].known <=> info[t].known)
      BY <1>0, <1>7, <2>2
    <3>2. /\ Len(ch[t]) \in Nat /\ (old[t].known => Len(ch[t]) > 0)
          /\ \A g \in 1..Len(ch[t]) : ch[t][g].closed <=> ~ (old[t].known /\ g = Len(ch[t]))
      BY <1>4, <1>5, <3>1
    <3>3. Len(ch[t]) = Len(chans[t])
      BY <3>1
    <3> QED
      BY <2>2, <3>2, <3>3
  <2> QED
    BY <2>1, <2>2
<1>9. /\ q \in Seq(K) /\ Len(q) = Len(ch[t])
      /\ \A g \in 1..Len(ch[t]) :
           q[g].closed <=> ch[t][g].closed \/ (old[t].known /\ ~ new[t].known /\ g = Len(ch[t]))
  <2>1. q = CloseForgotten(old, new, ch)[t]
    BY <1>b DEF ch
  <2>2. /\ CloseForgotten(old, new, ch)[t] \in Seq(K)
        /\ Len(CloseForgotten(old, new, ch)[t]) = Len(ch[t])
        /\ \A g \in 1..Len(ch[t]) :
             CloseForgotten(old, new, ch)[t][g].closed
               <=> ch[t][g].closed \/ (old[t].known /\ ~ new[t].known /\ g = Len(ch[t]))
    <3>1. ch \in [Traces -> Seq([buf : 0..TraceBuffer, closed : BOOLEAN, done : BOOLEAN])]
      BY <1>7 DEF K
    <3>2. old[t].known => Len(ch[t]) > 0
      BY <1>8
    <3> QED
      BY <3>1, <3>2, Closes, Zenon DEF K
  <2> QED
    BY <2>1, <2>2
<1>10. \A g \in 1..Len(q) : q[g].closed <=> ~ (new[t].known /\ g = Len(q))
  BY <1>0, <1>8, <1>9
<1>11. /\ q \in Seq([buf : 0..TraceBuffer, closed : BOOLEAN, done : BOOLEAN])
       /\ t \in A /\ ~ info[t].known => Len(q) = Len(chans[t]) + 1
       /\ ~ (t \in A /\ ~ info[t].known) => Len(q) = Len(chans[t])
       /\ new[t].known => Len(q) > 0
  BY <1>0, <1>5, <1>8, <1>9 DEF K
<1> QED
  BY <1>a, <1>5, <1>10, <1>11 DEF Rearranged

(* The whole handler: what it receives and what it leaves behind. *)
LEMMA ChangedFacts ==
  ASSUME IInv, HandleChanged
  PROVE  \E s \in Services, A \in SUBSET Traces, D \in SUBSET Traces :
           /\ s \in registered /\ \A t \in A \cup D : ServiceOf[t] = s
           /\ info' = AddClients(Deactivate(Activate(A), D), Responders(s), A)
           /\ chans' = CloseForgotten(Activate(A), Deactivate(Activate(A), D), OpenChannels(A))
           /\ Answer(Responders(s), A, D)
           /\ QueueInv' /\ queue' \in Seq(Event) /\ Len(queue') <= Capacity
           /\ main' = [pc |-> "sending", svc |-> s, client |-> NoClient]
           /\ OnePollerPerService'
           /\ \A x : Queued(x)' => Queued(x)
<1>t. TypeOK /\ QueueInv
  BY DEF IInv
<1>u. /\ UNCHANGED <<away, registered, polling, req, unreg, finished, acts, restarts>>
      /\ Receives("changed")
  BY DEF HandleChanged
<1>1. PICK e : e = Head(queue)
  OBVIOUS
<1>2. /\ main.pc = "idle" /\ queue # <<>> /\ queue' = Tail(queue)
      /\ e \in Event /\ e.type = "changed" /\ e = queue[1] /\ Queued(e)
      /\ queue' \in Seq(Event) /\ Len(queue') <= Capacity
      /\ \A x : Queued(x)' => Queued(x)
      /\ \A r \in Services :
           /\ InQueue("longPoll", r)' \in Nat /\ InQueue("changed", r)' \in Nat
           /\ InQueue("longPoll", r)' + InQueue("changed", r)'
                + (IF "changed" \in {"longPoll", "changed"} /\ e.svc = r THEN 1 ELSE 0)
                + (IF r \in polling THEN 1 ELSE 0)
              = (IF r \in registered THEN 1 ELSE 0)
  BY <1>u, <1>1, HandlerFacts
<1>3. PICK s \in Services : s = e.svc
  BY <1>2, EventKinds
<1>4. PICK A \in SUBSET Traces : A = e.act
  BY <1>2, EventKinds
<1>5. PICK D \in SUBSET Traces : D = e.deact
  BY <1>2, EventKinds
<1>6. /\ info' = AddClients(Deactivate(Activate(A), D), Responders(s), A)
      /\ chans' = CloseForgotten(Activate(A), Deactivate(Activate(A), D), OpenChannels(A))
      /\ Answer(Responders(s), A, D)
      /\ main' = [pc |-> "sending", svc |-> s, client |-> NoClient]
  BY <1>1, <1>3, <1>4, <1>5 DEF HandleChanged
<1>7. QueueInv'
  BY <1>t, <1>u, <1>2, ReceiveKeepsQueue
<1>8. \A t \in A \cup D : ServiceOf[t] = s
  <2>1. 1 \in 1..Len(queue)
    BY <1>t, <1>2 DEF TypeOK
  <2> QED
    BY <1>t, <1>2, <1>3, <1>4, <1>5, <2>1 DEF QueueInv
<1>9. /\ InQueue("longPoll", s)' \in Nat /\ InQueue("changed", s)' \in Nat
      /\ InQueue("longPoll", s)' + InQueue("changed", s)' + 1
           + (IF s \in polling THEN 1 ELSE 0)
         = (IF s \in registered THEN 1 ELSE 0)
  BY <1>2, <1>3
<1>10. s \in registered
  BY <1>9
<1>11. OnePollerPerService'
  <2> SUFFICES ASSUME NEW r \in Services
               PROVE  InQueue("longPoll", r)' + InQueue("changed", r)'
                        + (IF r \in polling' THEN 1 ELSE 0)
                        + (IF main'.pc = "sending" /\ main'.svc = r THEN 1 ELSE 0)
                      = (IF r \in registered' THEN 1 ELSE 0)
    BY DEF OnePollerPerService
  <2>1. /\ InQueue("longPoll", r)' \in Nat /\ InQueue("changed", r)' \in Nat
        /\ InQueue("longPoll", r)' + InQueue("changed", r)'
             + (IF s = r THEN 1 ELSE 0)
             + (IF r \in polling THEN 1 ELSE 0)
           = (IF r \in registered THEN 1 ELSE 0)
    BY <1>2, <1>3
  <2>2. main'.pc = "sending" /\ main'.svc = s
    BY <1>6
  <2> QED
    BY <1>u, <2>1, <2>2
<1> QED
  BY <1>2, <1>6, <1>7, <1>8, <1>10, <1>11

LEMMA ChangedStep ==
  ASSUME IInv, HandleChanged
  PROVE  /\ IInv'
         /\ \A c \in Clients : poll[c] # "idle" /\ poll'[c] = "idle"
                                 => told'[c] = Active(info', ServiceOf[c])
<1>t. TypeOK /\ QueueInv /\ OnlyUsefulTraces /\ TraceInv /\ LastInv /\ ParkedClientIsCurrent
  BY DEF IInv
<1>u. UNCHANGED <<away, registered, polling, req, unreg, finished, acts, restarts>>
  BY DEF HandleChanged
<1>1. PICK s \in Services, A \in SUBSET Traces, D \in SUBSET Traces :
        /\ s \in registered /\ \A t \in A \cup D : ServiceOf[t] = s
        /\ info' = AddClients(Deactivate(Activate(A), D), Responders(s), A)
        /\ chans' = CloseForgotten(Activate(A), Deactivate(Activate(A), D), OpenChannels(A))
        /\ Answer(Responders(s), A, D)
        /\ QueueInv' /\ queue' \in Seq(Event) /\ Len(queue') <= Capacity
        /\ main' = [pc |-> "sending", svc |-> s, client |-> NoClient]
        /\ OnePollerPerService'
        /\ \A x : Queued(x)' => Queued(x)
  BY ChangedFacts
<1>2. PICK C \in SUBSET Clients : C = Responders(s)
  BY DEF Responders
<1>3. \A c \in Clients : c \in C <=> ServiceOf[c] = s /\ poll[c] = "waiting"
  BY <1>2 DEF Responders
<1>4. ASSUME NEW t \in Traces
      PROVE  /\ info'[t] \in [known : BOOLEAN, active : BOOLEAN, clients : SUBSET Clients]
             /\ info'[t].known => info[t].known \/ t \in A
             /\ info'[t].active <=> (info[t].active \/ t \in A) /\ t \notin D
             /\ ~ info'[t].known => info'[t] = NoInfo
             /\ info'[t].known /\ ~ info'[t].active => info'[t].clients # {}
             /\ info[t].clients \subseteq info'[t].clients
             /\ chans'[t] \in Seq([buf : 0..TraceBuffer, closed : BOOLEAN, done : BOOLEAN])
             /\ Len(chans[t]) \in Nat
             /\ t \in A /\ ~ info[t].known => Len(chans'[t]) = Len(chans[t]) + 1
             /\ ~ (t \in A /\ ~ info[t].known) => Len(chans'[t]) = Len(chans[t])
             /\ info'[t].known => Len(chans'[t]) > 0
             /\ \A g \in 1..Len(chans'[t]) : chans'[t][g].closed <=> ~ (info'[t].known /\ g = Len(chans'[t]))
  <2>1. PICK st, l : st = Activate(A) /\ l = Deactivate(Activate(A), D)
    OBVIOUS
  <2>2. info' = AddClients(l, C, A) /\ chans' = CloseForgotten(st, l, OpenChannels(A))
    BY <1>1, <1>2, <2>1
  <2>3. /\ info'[t] \in [known : BOOLEAN, active : BOOLEAN, clients : SUBSET Clients]
        /\ st[t].known <=> info[t].known \/ t \in A
        /\ l[t].known => st[t].known
        /\ info'[t].known <=> l[t].known
        /\ info'[t].active <=> (info[t].active \/ t \in A) /\ t \notin D
        /\ ~ info'[t].known => info'[t] = NoInfo
        /\ info'[t].known /\ ~ info'[t].active => info'[t].clients # {}
        /\ info[t].clients \subseteq info'[t].clients
    BY <1>t, <2>1, <2>2, DiffOfTrace
  <2>4. /\ chans'[t] \in Seq([buf : 0..TraceBuffer, closed : BOOLEAN, done : BOOLEAN])
        /\ Len(chans[t]) \in Nat
        /\ t \in A /\ ~ info[t].known => Len(chans'[t]) = Len(chans[t]) + 1
        /\ ~ (t \in A /\ ~ info[t].known) => Len(chans'[t]) = Len(chans[t])
        /\ l[t].known => Len(chans'[t]) > 0
        /\ \A g \in 1..Len(chans'[t]) : chans'[t][g].closed <=> ~ (l[t].known /\ g = Len(chans'[t]))
    <3>1. PICK q : q = CloseForgotten(Activate(A), Deactivate(Activate(A), D), OpenChannels(A))[t]
      OBVIOUS
    <3>2. Rearranged(q, t, t \in A, Deactivate(Activate(A), D)[t].known)
      BY <1>t, <3>1, DiffOfChannels, Zenon
    <3>3. chans'[t] = q /\ l[t] = Deactivate(Activate(A), D)[t]
      BY <1>1, <2>1, <3>1
    <3> QED
      BY <3>2, <3>3 DEF Rearranged
  <2> QED
    BY <2>3, <2>4
<1>i. ASSUME NEW t \in Traces
      PROVE  /\ info'[t].known => info[t].known \/ t \in A
             /\ info'[t].active <=> (info[t].active \/ t \in A) /\ t \notin D
             /\ info[t].clients \subseteq info'[t].clients
             /\ info'[t].clients # {} => info'[t].known
  <2>1. ~ info'[t].known => info'[t] = NoInfo
    BY <1>4
  <2>2. info'[t].clients # {} => info'[t].known
    BY <2>1 DEF NoInfo
  <2> QED
    BY <1>4, <2>2
<1>l. ASSUME NEW t \in Traces
      PROVE  /\ Len(chans[t]) \in Nat
             /\ Len(chans'[t]) = Len(chans[t]) \/ Len(chans'[t]) = Len(chans[t]) + 1
             /\ t \notin A => Len(chans'[t]) = Len(chans[t])
  BY <1>4
<1>5. /\ info' \in [Traces -> [known : BOOLEAN, active : BOOLEAN, clients : SUBSET Clients]]
      /\ chans' \in [Traces -> Seq([buf : 0..TraceBuffer, closed : BOOLEAN, done : BOOLEAN])]
  <2>1. info' = [t \in Traces |-> info'[t]]
    BY <1>1 DEF AddClients
  <2>2. chans' = [t \in Traces |-> chans'[t]]
    BY <1>1 DEF CloseForgotten
  <2>3. info' \in [Traces -> [known : BOOLEAN, active : BOOLEAN, clients : SUBSET Clients]]
    BY <1>4, <2>1
  <2>4. chans' \in [Traces -> Seq([buf : 0..TraceBuffer, closed : BOOLEAN, done : BOOLEAN])]
    BY <1>4, <2>2
  <2> QED
    BY <2>3, <2>4
<1>6. /\ poll' \in [Clients -> {"idle", "queued", "waiting"}]
      /\ told' \in [Clients -> SUBSET Traces] /\ streams' \in [Clients -> SUBSET Traces]
      /\ \A c \in Clients : poll'[c] = IF c \in C THEN "idle" ELSE poll[c]
      /\ \A c \in Clients : told'[c] = IF c \in C THEN (told[c] \cup A) \ D ELSE told[c]
      /\ \A c \in Clients : streams'[c] = IF c \in C THEN streams[c] \cup A ELSE streams[c]
  <2>1. Answer(C, A, D)
    BY <1>1, <1>2
  <2> QED
    BY <1>t, <2>1 DEF Answer, TypeOK
<1>7. TypeOK'
  <2>1. main' \in [pc : {"idle", "sending"}, svc : Services, client : Clients \cup {NoClient}]
    BY <1>1
  <2> QED
    BY <1>t, <1>u, <1>1, <1>5, <1>6, <2>1 DEF TypeOK
<1>8. ParkedClientIsCurrent'
  <2> SUFFICES ASSUME NEW c \in Clients, poll'[c] = "waiting"
               PROVE  told'[c] = Active(info', ServiceOf[c])
    BY DEF ParkedClientIsCurrent
  <2>1. ServiceOf[c] # s /\ told'[c] = told[c] /\ poll[c] = "waiting"
    BY <1>3, <1>6
  <2>2. \A t \in Traces : ServiceOf[t] = ServiceOf[c] => t \notin A /\ t \notin D
    BY <1>1, <2>1
  <2>3. \A t \in Traces : ServiceOf[t] = ServiceOf[c] => (info'[t].active <=> info[t].active)
    BY <1>4, <2>2
  <2>4. Active(info', ServiceOf[c]) = Active(info, ServiceOf[c])
    BY <2>3 DEF Active
  <2> QED
    BY <1>t, <2>1, <2>4 DEF ParkedClientIsCurrent
<1>9. OnlyUsefulTraces'
  <2>1. ASSUME NEW t \in Traces, NEW g \in 1..Len(chans'[t])
        PROVE  chans'[t][g].closed = ~ (info'[t].known /\ g = Len(chans'[t]))
    <3> DEFINE K == [buf : 0..TraceBuffer, closed : BOOLEAN, done : BOOLEAN]
    <3>1. chans'[t] \in Seq(K)
      BY <1>4
    <3>2. chans'[t][g] \in K
      <4> HIDE DEF K
      <4> QED
        BY <2>1, <3>1
    <3>3. chans'[t][g].closed \in BOOLEAN
      BY <3>2
    <3> QED
      BY <1>4, <2>1, <3>3
  <2>2. \A t \in Traces : info'[t].known => ServiceOf[t] \in registered'
    BY <1>t, <1>u, <1>1, <1>i DEF OnlyUsefulTraces
  <2> QED
    BY <1>4, <2>1, <2>2 DEF OnlyUsefulTraces, Incarnations
<1>10. TraceInv'
  <2>1. \A t \in Traces : IF info'[t].known THEN Len(chans'[t]) > 0 ELSE info'[t] = NoInfo
    BY <1>4
  <2>2. \A k \in Requests : req[k].trace \in Traces
    BY <1>t DEF TypeOK
  <2>3. \A t \in Traces : 1..Len(chans[t]) \subseteq 1..Len(chans'[t])
    BY <1>l
  <2>4. \A k \in Requests : req'[k].pc = "uploading" => req'[k].chan \in 1..Len(chans'[req'[k].trace])
    BY <1>t, <1>u, <2>2, <2>3 DEF TraceInv, Incarnations
  <2> QED
    BY <2>1, <2>4 DEF TraceInv, Incarnations
<1>11. LastInv'
  <2>1. \A d \in Clients, u \in Traces : Leaves(d, u)' => Leaves(d, u)
    BY <1>u, <1>1 DEF Leaves
  <2>2. ASSUME NEW d \in Clients, NEW u \in Traces, IsClient(d, u)
        PROVE  IsClient(d, u)' /\ Len(chans'[u]) = Len(chans[u])
    <3>1. info[u].known /\ d \in info[u].clients
      BY <2>2 DEF IsClient
    <3>2. d \in info'[u].clients /\ info'[u].known
      BY <1>i, <3>1
    <3>3. Len(chans'[u]) = Len(chans[u])
      BY <1>4, <3>1
    <3> QED
      BY <3>2, <3>3 DEF IsClient
  <2> QED
    BY <1>t, <1>u, <2>1, <2>2, LastFrame
<1>12. ASSUME NEW c \in Clients, poll[c] # "idle", poll'[c] = "idle"
       PROVE  told'[c] = Active(info', ServiceOf[c])
  <2>1. c \in C
    BY <1>6, <1>12
  <2>2. ServiceOf[c] = s /\ told[c] = Active(info, s) /\ told'[c] = (told[c] \cup A) \ D
    BY <1>t, <1>3, <1>6, <2>1 DEF ParkedClientIsCurrent
  <2>3. \A t \in Traces : t \in told'[c] <=> ServiceOf[t] = s /\ info'[t].active
    BY <1>1, <1>i, <2>2 DEF Active
  <2>4. told'[c] \subseteq Traces
    BY <1>6
  <2> QED
    BY <2>2, <2>3, <2>4 DEF Active
<1> QED
  BY <1>1, <1>7, <1>8, <1>9, <1>10, <1>11, <1>12 DEF IInv

-----------------------------------------------------------------------------
(* A fresh process. *)
LEMMA FreshQueue ==
  ASSUME NEW q, q = <<Heartbeat>>
  PROVE  /\ q \in Seq(Event) /\ Len(q) = 1 /\ Len(q) <= Capacity
         /\ \A i \in 1..Len(q) : q[i].type = "heartbeat"
         /\ \A type \in {"longPoll", "changed"}, s \in Services : Count(q, type, s) = 0
<1>1. q \in Seq(Event) /\ Len(q) = 1 /\ q[1].type = "heartbeat"
  BY NewEvents
<1>2. \A i \in 1..Len(q) : q[i].type = "heartbeat"
  BY <1>1
<1>3. Len(q) <= Capacity
  BY <1>1, DaemonAssumption DEF DaemonAssumption
<1>4. ASSUME NEW type \in {"longPoll", "changed"}, NEW s \in Services
      PROVE  Count(q, type, s) = 0
  <2>1. \A i \in 1..Len(q) : ~ (q[i].type = type /\ q[i].svc = s)
    BY <1>2
  <2> QED
    BY <1>1, <2>1, CountIsNat
<1> QED
  BY <1>1, <1>2, <1>3, <1>4

LEMMA DaemonStarts == Init => IInv
<1> SUFFICES ASSUME Init PROVE IInv
  OBVIOUS
<1>1. /\ queue = <<Heartbeat>> /\ main = Idle /\ away = FALSE /\ registered = {} /\ polling = {}
      /\ info = [t \in Traces |-> NoInfo] /\ chans = [t \in Traces |-> <<>>]
      /\ unreg = [c \in Clients |-> [t \in Traces |-> 0]]
      /\ poll = [c \in Clients |-> "idle"] /\ req = [r \in Requests |-> NoReq]
      /\ told = [c \in Clients |-> {}] /\ streams = [c \in Clients |-> {}]
      /\ finished = [c \in Clients |-> {}]
      /\ acts = [t \in Traces |-> 0] /\ restarts = 0
  BY DEF Init, Fresh
<1>2. /\ queue \in Seq(Event) /\ Len(queue) = 1 /\ Len(queue) <= Capacity
      /\ \A i \in 1..Len(queue) : queue[i].type = "heartbeat"
      /\ \A type \in {"longPoll", "changed"}, s \in Services : Count(queue, type, s) = 0
  BY <1>1, FreshQueue
<1>3. NoInfo \in [known : BOOLEAN, active : BOOLEAN, clients : SUBSET Clients]
      /\ NoInfo.known = FALSE /\ NoInfo.active = FALSE
  BY DEF NoInfo
<1>4. \A t \in Traces : chans[t] = <<>> /\ Len(chans[t]) = 0 /\ info[t] = NoInfo
  BY <1>1
<1>5. TypeOK
  <2>c. chans \in [Traces -> Seq([buf : 0..TraceBuffer, closed : BOOLEAN, done : BOOLEAN])]
    <3> DEFINE K == [buf : 0..TraceBuffer, closed : BOOLEAN, done : BOOLEAN]
    <3> HIDE DEF K
    <3>1. chans \in [Traces -> Seq(K)]
      BY <1>1
    <3> QED
      BY <3>1 DEF K
  <2>r. req \in [Requests -> [pc : {"idle", "queued", "uploading"}, client : Clients, trace : Traces,
                             n : 0..MaxEvents, last : BOOLEAN, chan : Nat]]
    BY <1>1, NoReqType
  <2>i. info \in [Traces -> [known : BOOLEAN, active : BOOLEAN, clients : SUBSET Clients]]
    BY <1>1, <1>3
  <2>m. main \in [pc : {"idle", "sending"}, svc : Services, client : Clients \cup {NoClient}]
    BY <1>1, IdleType
  <2>a. acts \in [Traces -> 0..MaxActivations] /\ restarts \in 0..MaxRestarts
    BY <1>1, DaemonAssumption DEF DaemonAssumption
  <2> QED
    BY <1>1, <1>2, <2>c, <2>r, <2>i, <2>m, <2>a DEF TypeOK
<1>6. OnePollerPerService
  <2>1. \A s \in Services : InQueue("longPoll", s) = 0 /\ InQueue("changed", s) = 0
    BY <1>2 DEF InQueue, Count
  <2> QED
    BY <1>1, <2>1, IdleType DEF OnePollerPerService
<1>7. (\A c \in Clients : poll[c] = "idle") /\ \A r \in Requests : req[r].pc = "idle"
  BY <1>1, NoReqType
<1>8. ParkedClientIsCurrent
  BY <1>7 DEF ParkedClientIsCurrent
<1>9. OnlyUsefulTraces
  BY <1>3, <1>4 DEF OnlyUsefulTraces, Incarnations
<1>10. QueueInv
  BY <1>2, NewEvents DEF QueueInv
<1>11. TraceInv
  BY <1>3, <1>4, <1>7 DEF TraceInv
<1>12. LastInv
  <2>1. \A c \in Clients, t \in Traces : unreg[c][t] = 0
    BY <1>1
  <2>2. \A c \in Clients, t \in Traces : ~ Queued(Unregister(c, t))
    BY <1>2, NewEvents DEF Queued
  <2>3. \A c \in Clients, t \in Traces : ~ Leaves(c, t)
    BY <2>1, <2>2 DEF Leaves
  <2> QED
    BY <1>7, <2>3 DEF LastInv
<1> QED
  BY <1>5, <1>6, <1>8, <1>9, <1>10, <1>11, <1>12 DEF IInv

(* A restart: what the clients believe survives it, and nothing that the   *)
(* process held.                                                           *)
LEMMA RestartStep ==
  ASSUME IInv, ProcessRestarts
  PROVE  IInv'
<1>t. TypeOK /\ LastInv
  BY DEF IInv
<1>1. /\ queue' = <<Heartbeat>> /\ main' = Idle /\ away' = FALSE /\ registered' = {} /\ polling' = {}
      /\ info' = [t \in Traces |-> NoInfo] /\ chans' = [t \in Traces |-> <<>>]
      /\ unreg' = [c \in Clients |-> [t \in Traces |-> 0]]
      /\ poll' = [c \in Clients |-> "idle"] /\ req' = [r \in Requests |-> NoReq]
      /\ UNCHANGED <<told, streams, finished, acts>>
      /\ restarts < MaxRestarts /\ restarts' = restarts + 1
  BY DEF ProcessRestarts, Fresh
<1>2. /\ queue' \in Seq(Event) /\ Len(queue') = 1 /\ Len(queue') <= Capacity
      /\ \A i \in 1..Len(queue') : queue'[i].type = "heartbeat"
      /\ \A type \in {"longPoll", "changed"}, s \in Services : Count(queue', type, s) = 0
  BY <1>1, FreshQueue
<1>3. NoInfo \in [known : BOOLEAN, active : BOOLEAN, clients : SUBSET Clients]
      /\ NoInfo.known = FALSE /\ NoInfo.active = FALSE
  BY DEF NoInfo
<1>4. \A t \in Traces : chans'[t] = <<>> /\ Len(chans'[t]) = 0 /\ info'[t] = NoInfo
  BY <1>1
<1>5. TypeOK'
  <2>1. restarts' \in 0..MaxRestarts
    BY <1>t, <1>1, DaemonAssumption DEF TypeOK, DaemonAssumption
  <2>c. chans' \in [Traces -> Seq([buf : 0..TraceBuffer, closed : BOOLEAN, done : BOOLEAN])]
    <3> DEFINE K == [buf : 0..TraceBuffer, closed : BOOLEAN, done : BOOLEAN]
    <3> HIDE DEF K
    <3>1. chans' \in [Traces -> Seq(K)]
      BY <1>1
    <3> QED
      BY <3>1 DEF K
  <2>r. req' \in [Requests -> [pc : {"idle", "queued", "uploading"}, client : Clients, trace : Traces,
                             n : 0..MaxEvents, last : BOOLEAN, chan : Nat]]
    BY <1>1, NoReqType
  <2>i. info' \in [Traces -> [known : BOOLEAN, active : BOOLEAN, clients : SUBSET Clients]]
    BY <1>1, <1>3
  <2>m. main' \in [pc : {"idle", "sending"}, svc : Services, client : Clients \cup {NoClient}]
    BY <1>1, IdleType
  <2> QED
    BY <1>t, <1>1, <1>2, <2>1, <2>c, <2>r, <2>i, <2>m DEF TypeOK
<1>6. OnePollerPerService'
  <2>1. \A s \in Services : InQueue("longPoll", s)' = 0 /\ InQueue("changed", s)' = 0
    BY <1>2 DEF InQueue, Count
  <2> QED
    BY <1>1, <2>1, IdleType DEF OnePollerPerService
<1>7. (\A c \in Clients : poll'[c] = "idle") /\ \A r \in Requests : req'[r].pc = "idle"
  BY <1>1, NoReqType
<1>8. ParkedClientIsCurrent'
  BY <1>7 DEF ParkedClientIsCurrent
<1>9. OnlyUsefulTraces'
  BY <1>3, <1>4 DEF OnlyUsefulTraces, Incarnations
<1>10. QueueInv'
  BY <1>2, NewEvents DEF QueueInv
<1>11. TraceInv'
  BY <1>3, <1>4, <1>7 DEF TraceInv
<1>12. LastInv'
  <2>1. \A c \in Clients, t \in Traces : unreg'[c][t] = 0
    BY <1>1
  <2>2. \A c \in Clients, t \in Traces : ~ Queued(Unregister(c, t))'
    BY <1>2, NewEvents DEF Queued
  <2>3. \A c \in Clients, t \in Traces : ~ Leaves(c, t)'
    BY <2>1, <2>2 DEF Leaves
  <2> QED
    BY <1>7, <2>3 DEF LastInv
<1> QED
  BY <1>5, <1>6, <1>8, <1>9, <1>10, <1>11, <1>12 DEF IInv

(* Every step keeps the invariant. *)
LEMMA DaemonSteps == IInv /\ [Next]_vars => IInv'
<1> SUFFICES ASSUME IInv, [Next]_vars PROVE IInv'
  OBVIOUS
<1>1. CASE Main
  BY <1>1, QuietHandlers, ChangedStep, RegistrationStep, MainSendsStep, EventsStep, UnregisterStep DEF Main
<1>2. ASSUME NEW c \in Clients, ClientPolls(c) \/ \E t \in Traces : SendUnregister(c, t) PROVE IInv'
  BY <1>2, QuietSends
<1>3. ASSUME NEW r \in Requests, ClientSends(r) PROVE IInv'
  BY <1>3, ClientSendsStep
<1>4. ASSUME NEW r \in Requests, UploadEvent(r) PROVE IInv'
  BY <1>4, UploadStep
<1>5. ASSUME NEW r \in Requests, UploadReplies(r) PROVE IInv'
  BY <1>5, ReplyStep
<1>6. ASSUME NEW r \in Requests, UploadPanics(r) PROVE IInv'
  BY <1>6, RestartStep DEF UploadPanics
<1>7. CASE HeartbeatReturns
  BY <1>7, QuietSends
<1>8. ASSUME NEW s \in Services, CloudAnswers(s) \/ CloudFails(s) PROVE IInv'
  BY <1>8, CloudStep
<1>9. ASSUME NEW t \in Traces, NEW g \in Incarnations(t), CollectTraces(t, g) PROVE IInv'
  BY <1>9, CollectStep
<1>10. CASE ProcessRestarts
  BY <1>10, RestartStep
<1>11. CASE UNCHANGED vars
  <2>t. TypeOK /\ QueueInv /\ OnlyUsefulTraces /\ TraceInv /\ LastInv /\ ParkedClientIsCurrent
        /\ OnePollerPerService
    BY DEF IInv
  <2>1. UNCHANGED <<queue, main, away, registered, info, chans, polling, poll, req, unreg,
                    told, streams, finished, acts, restarts>>
    BY <1>11 DEF vars
  <2>2. TypeOK' /\ QueueInv'
    <3>1. TypeOK'
      BY <2>t, <2>1 DEF TypeOK
    <3>2. QueueInv'
      BY <2>t, <2>1 DEF QueueInv
    <3> QED
      BY <3>1, <3>2
  <2>3. OnlyUsefulTraces' /\ TraceInv'
    BY <2>t, <2>1, TablesFrame
  <2>4. ParkedClientIsCurrent'
    BY <2>t, <2>1, ParkedFrame
  <2>5. OnePollerPerService'
    BY <2>t, <2>1, PollersFrame DEF InQueue
  <2>6. LastInv'
    <3>1. \A c \in Clients, t \in Traces : Leaves(c, t)' => Leaves(c, t)
      BY <2>1 DEF Leaves, Queued
    <3>2. \A c \in Clients, t \in Traces : IsClient(c, t) =>
            IsClient(c, t)' /\ Len(chans'[t]) = Len(chans[t])
      BY <2>1 DEF IsClient
    <3> QED
      BY <2>t, <2>1, <3>1, <3>2, LastFrame
  <2> QED
    BY <2>2, <2>3, <2>4, <2>5, <2>6 DEF IInv
<1> QED
  BY <1>1, <1>2, <1>3, <1>4, <1>5, <1>6, <1>7, <1>8, <1>9, <1>10, <1>11 DEF Next

-----------------------------------------------------------------------------
(* What the invariant says of the tables: the upload of a client that has  *)
(* not ended its stream has the newest channel of a known trace.           *)
LEMMA DaemonMeans == IInv => TableInv
<1> SUFFICES ASSUME IInv PROVE TableInv
  OBVIOUS
<1>1. ASSUME NEW r \in Requests, req[r].pc = "uploading", Channel(r).closed
      PROVE  req[r].trace \in finished[req[r].client]
  <2> SUFFICES ASSUME req[r].trace \notin finished[req[r].client] PROVE FALSE
    OBVIOUS
  <2>1. PICK t \in Traces : t = req[r].trace
    BY DEF IInv, TypeOK
  <2>2. info[t].known /\ req[r].chan = Len(chans[t])
    BY <1>1, <2>1 DEF IInv, LastInv, IsClient
  <2>3. req[r].chan \in Incarnations(t)
    BY <1>1, <2>1 DEF IInv, TraceInv
  <2>4. chans[t][req[r].chan].closed = FALSE
    BY <2>2, <2>3 DEF IInv, OnlyUsefulTraces
  <2> QED
    BY <1>1, <2>1, <2>4 DEF Channel
<1>2. ClosedOnlyBehindTheLast
  BY <1>1 DEF ClosedOnlyBehindTheLast
<1> QED
  BY <1>2 DEF TableInv, IInv

(* For any services, clients, traces and capacities, any number of         *)
(* trace-event requests in flight and through any number of restarts: the  *)
(* traces the main goroutine keeps are the useful ones, with their newest  *)
(* channel open and no other, and unregisterTrace closes a channel under   *)
(* an upload only when the upload's client has said no_more_events for the *)
(* trace in some request.  It does not say that no upload meets a closed   *)
(* channel: a request sent before the last one may still be on its way.    *)
THEOREM TableTheorem == Spec => [](IInv /\ TableInv)
<1>1. IInv => TableInv
  BY DaemonMeans
<1> QED
  BY <1>1, DaemonStarts, DaemonSteps, PTL DEF Spec

(* Every registered service has exactly one long poll: about to be sent,   *)
(* queued, at the cloud or answered (longPollServiceEvent,                 *)
(* changedActiveTracesEvent).  None is ever lost and none is doubled.      *)
THEOREM PollerTheorem == Spec => []OnePollerPerService
<1>1. IInv => OnePollerPerService
  BY DEF IInv
<1> QED
  BY <1>1, DaemonStarts, DaemonSteps, PTL DEF Spec

(* A client parked in responseChannels knows exactly the active traces of  *)
(* its service (registrationRequest.handle, changedActiveTracesEvent).     *)
THEOREM ParkedTheorem == Spec => []ParkedClientIsCurrent
<1>1. IInv => ParkedClientIsCurrent
  BY DEF IInv
<1> QED
  BY <1>1, DaemonStarts, DaemonSteps, PTL DEF Spec

(* One step answers a client: only the three that end a registration or    *)
(* apply a change do, and what they send brings the client up to date.     *)
LEMMA AnswerStep ==
  ASSUME IInv, [Next]_vars, NEW c \in Clients,
         poll[c] # "idle", poll'[c] = "idle", restarts' = restarts
  PROVE  told'[c] = Active(info', ServiceOf[c])
<1> USE DEF daemonVars, clientVars
<1>t. TypeOK
  BY DEF IInv
<1>1. poll' # poll
  OBVIOUS
<1>2. ASSUME NEW d \in Clients, FinishRegistration(d)
      PROVE  told'[c] = Active(info', ServiceOf[c])
  <2>1. /\ \A t \in Traces : info'[t].active = info[t].active
        /\ told'[d] = Active(info, ServiceOf[d])
        /\ \A k \in Clients : k # d => poll'[k] = poll[k]
    BY <1>2, FinishFacts
  <2>2. c = d
    BY <2>1
  <2>3. Active(info', ServiceOf[c]) = Active(info, ServiceOf[c])
    BY <2>1 DEF Active
  <2> QED
    BY <2>1, <2>2, <2>3
<1>3. CASE Main
  <2>1. CASE HandleChanged
    BY <2>1, ChangedStep
  <2>2. CASE HandleRegistration
    <3>1. PICK e : e = Head(queue)
      OBVIOUS
    <3>2. e \in Event /\ e.type = "register"
      BY <2>2, <3>1, HandlerFacts DEF HandleRegistration
    <3>3. PICK d \in Clients : FinishRegistration(d)
      BY <2>2, <3>1, <3>2, EventKinds DEF HandleRegistration
    <3> QED
      BY <1>2, <3>3
  <2>3. CASE MainSends
    <3>1. main.client # NoClient
      BY <1>1, <2>3 DEF MainSends
    <3>2. PICK d \in Clients : FinishRegistration(d)
      BY <1>t, <2>3, <3>1 DEF MainSends, TypeOK
    <3> QED
      BY <1>2, <3>2
  <2>4. CASE HandleHeartbeat \/ HandleLongPoll \/ HandleFirstRegistration \/ HandleEvents \/ HandleUnregister
    BY <1>1, <2>4 DEF HandleHeartbeat, HandleLongPoll, HandleFirstRegistration, HandleEvents, HandleUnregister
  <2> QED
    BY <1>3, <2>1, <2>2, <2>3, <2>4 DEF Main
<1>4. ASSUME NEW d \in Clients, ClientPolls(d)
      PROVE  FALSE
  <2>1. poll \in [Clients -> {"idle", "queued", "waiting"}] /\ poll' = [poll EXCEPT ![d] = "queued"]
    BY <1>t, <1>4 DEF ClientPolls, TypeOK
  <2> QED
    BY <2>1
<1>5. /\ \A r \in Requests : ~ ClientSends(r) /\ ~ UploadEvent(r) /\ ~ UploadReplies(r)
      /\ \A d \in Clients, t \in Traces : ~ SendUnregister(d, t)
  BY <1>1 DEF ClientSends, UploadEvent, UploadReplies, SendUnregister
<1>6. ~ ProcessRestarts /\ \A r \in Requests : ~ UploadPanics(r)
  BY <1>t DEF ProcessRestarts, UploadPanics, TypeOK
<1>7. ~ HeartbeatReturns
  BY <1>1 DEF HeartbeatReturns
<1>8. ASSUME NEW s \in Services, CloudAnswers(s) \/ CloudFails(s) PROVE FALSE
  BY <1>1, <1>8 DEF CloudAnswers, CloudFails
<1>9. ASSUME NEW t \in Traces, NEW g \in Incarnations(t), CollectTraces(t, g) PROVE FALSE
  BY <1>1, <1>9 DEF CollectTraces
<1>10. ~ UNCHANGED vars
  BY <1>1 DEF vars
<1> QED
  BY <1>3, <1>4, <1>5, <1>6, <1>7, <1>8, <1>9, <1>10 DEF Next

(* Every answer to a poll brings the client up to date, whether the diff   *)
(* was found by getActiveTraceDiff or is the one the cloud sent, which is  *)
(* correct only because a parked client was current before it.             *)
THEOREM AnswerTheorem == Spec => AnswerIsCurrent
<1> DEFINE Current == \A c \in Clients :
             poll[c] # "idle" /\ poll'[c] = "idle" /\ restarts' = restarts
               => told'[c] = Active(info', ServiceOf[c])
<1>1. IInv /\ [Next]_vars => [Current]_vars
  BY AnswerStep
<1>2. AnswerIsCurrent <=> [][Current]_vars
  BY DEF AnswerIsCurrent
<1> HIDE DEF Current
<1> QED
  BY <1>1, <1>2, DaemonStarts, DaemonSteps, PTL DEF Spec
=============================================================================
