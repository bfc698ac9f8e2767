---------------------------- MODULE PacketCounter ---------------------------
(***************************************************************************)
(* The packet counters of trace/stats.go.  A PacketCounter sums what it is *)
(* given in total, by port, by interface and by host; each of the three    *)
(* maps tracks at most maxKeys keys and sums the rest as overflow.  Every  *)
(* method holds the counter's mutex, so each is one operator here.         *)
(*                                                                         *)
(* Ports, interfaces and hosts are numbers: TopN compares keys.  No caller *)
(* sets SrcHost.  HTTP2Prefaces and QUICHandshakes are counted like        *)
(* Unparsed and left out.                                                  *)
(***************************************************************************)
EXTENDS Integers, FiniteSets

CONSTANTS maxKeys, NoHost

ASSUME KeysAssumption == maxKeys \in Nat

Metrics == {"TCPPackets", "HTTPRequests", "HTTPResponses", "TLSHello", "Unparsed",
            "OversizedWitnesses"}

ZeroCounts == [x \in Metrics |-> 0]
One(metric) == [ZeroCounts EXCEPT ![metric] = 1]
Add(a, b) == [x \in Metrics |-> a[x] + b[x]]

(* The argument of Update: one packet or message. *)
Delta(interface, src, dst, host, metric) ==
  [Interface |-> interface, SrcPort |-> src, DstPort |-> dst, DstHost |-> host,
   counts |-> One(metric)]

-----------------------------------------------------------------------------
(* BoundedPacketCounter *)

NewBoundedPacketCounter == [m |-> [k \in {} |-> ZeroCounts], overflow |-> ZeroCounts]

HasReachedLimit(bc) == maxKeys <= Cardinality(DOMAIN bc.m)

(* Mutant: at the limit known keys overflow too. *)
AddOrInsertLimitFirst(bc, key, c) ==
  IF HasReachedLimit(bc) THEN [bc EXCEPT !.overflow = Add(@, c)]
  ELSE IF key \in DOMAIN bc.m THEN [bc EXCEPT !.m[key] = Add(@, c)]
  ELSE [bc EXCEPT !.m = [k \in DOMAIN bc.m \cup {key} |-> IF k = key THEN c ELSE bc.m[k]]]

AddOrInsert(bc, key, c) ==
  IF key \in DOMAIN bc.m THEN [bc EXCEPT !.m[key] = Add(@, c)]
  ELSE IF HasReachedLimit(bc) THEN [bc EXCEPT !.overflow = Add(@, c)]
  ELSE [bc EXCEPT !.m = [k \in DOMAIN bc.m \cup {key} |-> IF k = key THEN c ELSE bc.m[k]]]

(* Get, with no counts for a key that is not tracked. *)
TotalOn(bc, key) == IF key \in DOMAIN bc.m THEN bc.m[key] ELSE ZeroCounts

(* The overflow, which is there once the limit is reached. *)
GetOverflow(bc) == IF HasReachedLimit(bc) THEN {bc.overflow} ELSE {}

(* What the entries are sorted by: the projection of their counts. *)
ByTCPPackets(bc) == [k \in DOMAIN bc.m |-> bc.m[k]["TCPPackets"]]
ByHTTP(bc)       == [k \in DOMAIN bc.m |-> bc.m[k]["HTTPRequests"] + bc.m[k]["TLSHello"]]

(* Entry a is sorted before entry b: descending by value, then by key. *)
SortedBefore(value, a, b) == value[a] > value[b] \/ (value[a] = value[b] /\ a < b)

(* The keys of the first n entries. *)
TopN(value, n) ==
  {k \in DOMAIN value : Cardinality({j \in DOMAIN value : SortedBefore(value, j, k)}) < n}

-----------------------------------------------------------------------------
(* PacketCounter *)

NewPacketCounter ==
  [total |-> ZeroCounts, byPort |-> NewBoundedPacketCounter,
   byInterface |-> NewBoundedPacketCounter, byHost |-> NewBoundedPacketCounter]

(* The destination host is counted if there is one, both ports, and the    *)
(* interface.                                                              *)
Update(s, d) ==
  [total       |-> Add(s.total, d.counts),
   byPort      |-> AddOrInsert(AddOrInsert(s.byPort, d.SrcPort, d.counts), d.DstPort, d.counts),
   byInterface |-> AddOrInsert(s.byInterface, d.Interface, d.counts),
   byHost      |-> IF d.DstHost = NoHost THEN s.byHost
                   ELSE AddOrInsert(s.byHost, d.DstHost, d.counts)]

(* The n keys with the most traffic of each map, and the overflows. *)
Summary(s, n) ==
  [TopByPort      |-> TopN(ByTCPPackets(s.byPort), n),
   TopByInterface |-> TopN(ByTCPPackets(s.byInterface), n),
   TopByHost      |-> TopN(ByHTTP(s.byHost), n),
   ByPortOverflow |-> GetOverflow(s.byPort),
   ByHostOverflow |-> GetOverflow(s.byHost)]

(* Summary.IsEmpty of apidump/summary.go. *)
IsEmpty(s) == s.total["HTTPRequests"] = 0 /\ s.total["HTTPResponses"] = 0
=============================================================================
