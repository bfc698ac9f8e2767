---------------------------- MODULE ConnSummaries ---------------------------
(***************************************************************************)
(* What the TCP connection tracker promises the collector behind it: the   *)
(* packets of a connection are observed in lives, and every life ends in   *)
(* one summary.  The packet that begins a life counts for its time only;   *)
(* whether it opens, closes or resets the connection is not recorded.  So  *)
(* the summary depends on which packet came first: a SYN that is seen      *)
(* first leaves the opener unknown until a SYN-ACK, a FIN that is seen     *)
(* first leaves the end open.  It does not depend on the order of the      *)
(* packets after it.  There are no timers, callbacks or tables here;       *)
(* TCPConnTracker implements this specification.                           *)
(***************************************************************************)
EXTENDS Integers, FiniteSets, FiniteSetsExt

CONSTANTS
  Conns,   \* connections
  Facts,   \* what a packet can say beyond its time: handshake, FIN, RST
  Times    \* observation times

VARIABLES
  open,       \* connections in a life that has not been summarised
  lives,      \* number of lives begun per connection
  times,      \* observation times of the packets of the current life
  facts,      \* what the packets after the first one said
  summaries,  \* summaries sent
  quiet,      \* the capture will bring no more packets
  stopped     \* the tracker is closed

vars == <<open, lives, times, facts, summaries, quiet, stopped>>

(* The end of a connection: a reset is final, a FIN closes. *)
EndOf(fs) == IF "RST" \in fs THEN "reset" ELSE IF "FIN" \in fs THEN "closed" ELSE "open"

(* SYN and SYN-ACK both say that the client opened the connection. *)
OpenerOf(fs) == IF "handshake" \in fs THEN "client" ELSE "unknown"

SummaryOf(c) ==
  [conn |-> c, life |-> lives[c], first |-> Min(times[c]), last |-> Max(times[c]),
   end |-> EndOf(facts[c]), opener |-> OpenerOf(facts[c])]

Init ==
  /\ open = {}
  /\ lives = [c \in Conns |-> 0]
  /\ times = [c \in Conns |-> {}] /\ facts = [c \in Conns |-> {}]
  /\ summaries = {}
  /\ quiet = FALSE /\ stopped = FALSE

(* A packet that begins a life, observed at time t: what it says is lost. *)
Begin(c, t) ==
  /\ ~ stopped /\ ~ quiet
  /\ c \notin open /\ open' = open \cup {c}
  /\ lives' = [lives EXCEPT ![c] = @ + 1]
  /\ times' = [times EXCEPT ![c] = {t}]
  /\ UNCHANGED <<facts, summaries, quiet, stopped>>

(* A later packet, observed at time t, says fs. *)
Observe(c, fs, t) ==
  /\ ~ stopped /\ ~ quiet
  /\ c \in open
  /\ times' = [times EXCEPT ![c] = @ \cup {t}]
  /\ facts' = [facts EXCEPT ![c] = @ \cup fs]
  /\ UNCHANGED <<open, lives, summaries, quiet, stopped>>

Forget(cs) ==
  /\ times' = [c \in Conns |-> IF c \in cs THEN {} ELSE times[c]]
  /\ facts' = [c \in Conns |-> IF c \in cs THEN {} ELSE facts[c]]

Summarise(c) ==
  /\ c \in open
  /\ summaries' = summaries \cup {SummaryOf(c)}
  /\ open' = open \ {c}
  /\ Forget({c})
  /\ UNCHANGED <<lives, quiet, stopped>>

Stop ==
  /\ ~ stopped /\ stopped' = TRUE
  /\ summaries' = summaries \cup {SummaryOf(c) : c \in open}
  /\ open' = {}
  /\ Forget(open)
  /\ UNCHANGED <<lives, quiet>>

Quieten == ~ quiet /\ quiet' = TRUE /\ UNCHANGED <<open, lives, times, facts, summaries, stopped>>

Next ==
  \/ \E c \in Conns, t \in Times : Begin(c, t) \/ \E fs \in SUBSET Facts : Observe(c, fs, t)
  \/ \E c \in Conns : Summarise(c)
  \/ Stop \/ Quieten

Spec == Init /\ [][Next]_vars

(* Once a connection is silent its life comes to an end. *)
FairSpec == Spec /\ \A c \in Conns : WF_vars(quiet /\ Summarise(c))
=============================================================================
