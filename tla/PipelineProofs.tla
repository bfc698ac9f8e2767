---------------------------- MODULE PipelineProofs ---------------------------
(***************************************************************************)
(* Proofs about the way of a packet, for channels of any capacity and any  *)
(* number of packets, chains and items.  Capture: the pipeline loses       *)
(* nothing, and every step of it is a step of the collector that           *)
(* apidump.Run knows (CollectorLife) or none at all.  CollectorChain: the  *)
(* chains treat a request and its response alike, the packet counters are  *)
(* exact up to their limits and complete beyond, and the summary computed  *)
(* from them is that of what was delivered.                                *)
(***************************************************************************)
EXTENDS Capture, CollectorChain, FiniteSetTheorems, TLAPS

In(x, s)     == \E i \in 1..Len(s) : s[i] = x
InItem(p, s) == \E i \in 1..Len(s) : p \in s[i]

(* Packet p has been read and is neither processed nor given up: it is in  *)
(* the hands of one of the goroutines, in a channel or in the assembler.   *)
InFlight(p) ==
  \/ capture = "sending" /\ p = next
  \/ In(p, wrappedChan)
  \/ p \in held
  \/ InItem(p, pend)
  \/ InItem(p, out)

(* No packet that was read disappears between two stages. *)
NothingVanishes == \A p \in 1..next : p \in processed \cup lost \/ InFlight(p)

(* The stages end in order: each has seen the end of the one before it, or *)
(* the first of them that stop is closed, and holds nothing any more.      *)
StagesEndInOrder ==
  /\ wrappedClosed => capture \in {"closing", "closed"}
  /\ wrappedClosed => stop \/ (source = "ended" /\ next = arrived)
  /\ parser \in {"eof", "returned"} => wrappedClosed /\ wrappedChan = <<>> /\ held = {}
  /\ parser \in {"select", "returned"} => pend = <<>>
  /\ outClosed => parser = "returned"
  /\ collect = "returned" => outClosed /\ out = <<>>
  /\ capture = "opening" <=> collect = "starting"
  /\ capture = "opening" => next = 0
  /\ capture = "sending" => next > 0

IInv == TypeOK /\ NothingVanishes /\ StagesEndInOrder

-----------------------------------------------------------------------------
(* What is in a channel after a send and after a receive. *)
LEMMA AfterSend ==
  ASSUME NEW S, NEW s \in Seq(S), NEW e \in S
  PROVE  /\ Append(s, e) \in Seq(S) /\ Len(Append(s, e)) = Len(s) + 1
         /\ \A x : In(x, Append(s, e)) <=> In(x, s) \/ x = e
         /\ \A p : InItem(p, Append(s, e)) <=> InItem(p, s) \/ p \in e
<1>1. /\ Append(s, e) \in Seq(S) /\ Len(Append(s, e)) = Len(s) + 1
      /\ \A i \in 1..Len(s) : Append(s, e)[i] = s[i]
      /\ Append(s, e)[Len(s) + 1] = e
  OBVIOUS
<1>2. Len(s) \in Nat /\ 1..(Len(s) + 1) = 1..Len(s) \cup {Len(s) + 1}
  OBVIOUS
<1>3. \A x : In(x, Append(s, e)) <=> In(x, s) \/ x = e
  BY <1>1, <1>2 DEF In
<1>4. \A p : InItem(p, Append(s, e)) <=> InItem(p, s) \/ p \in e
  BY <1>1, <1>2 DEF InItem
<1> QED
  BY <1>1, <1>3, <1>4

LEMMA AfterReceive ==
  ASSUME NEW S, NEW s \in Seq(S), s # <<>>
  PROVE  /\ Tail(s) \in Seq(S) /\ Len(Tail(s)) = Len(s) - 1 /\ Head(s) \in S
         /\ \A x : In(x, s) <=> In(x, Tail(s)) \/ x = Head(s)
         /\ \A p : InItem(p, s) <=> InItem(p, Tail(s)) \/ p \in Head(s)
<1>1. /\ Tail(s) \in Seq(S) /\ Len(Tail(s)) = Len(s) - 1 /\ Len(s) \in Nat \ {0}
      /\ Head(s) \in S /\ Head(s) = s[1]
  OBVIOUS
<1>2. \A i \in 1..Len(s) : i = 1 \/ (i - 1 \in 1..Len(Tail(s)) /\ s[i] = Tail(s)[i - 1])
  OBVIOUS
<1>3. \A i \in 1..Len(Tail(s)) : i + 1 \in 1..Len(s) /\ s[i + 1] = Tail(s)[i]
  OBVIOUS
<1>4. \A x : In(x, s) <=> In(x, Tail(s)) \/ x = Head(s)
  <2>1. 1 \in 1..Len(s)
    BY <1>1
  <2> QED
    BY <1>1, <1>2, <1>3, <2>1 DEF In
<1>5. \A p : InItem(p, s) <=> InItem(p, Tail(s)) \/ p \in Head(s)
  <2>1. 1 \in 1..Len(s)
    BY <1>1
  <2> QED
    BY <1>1, <1>2, <1>3, <2>1 DEF InItem
<1> QED
  BY <1>1, <1>4, <1>5

(* The packets in none, one or two items. *)
LEMMA NoItems == \A p : ~ InItem(p, <<>>) /\ ~ In(p, <<>>)
BY DEF InItem, In

LEMMA FewItems ==
  ASSUME NEW S, NEW A \in S, NEW B \in S
  PROVE  /\ <<A>> \in Seq(S) /\ \A p : InItem(p, <<A>>) <=> p \in A
         /\ <<A, B>> \in Seq(S) /\ \A p : InItem(p, <<A, B>>) <=> p \in A \/ p \in B
BY DEF InItem

(* When the parser has closed out and out is empty, every packet that was  *)
(* read has been settled.                                                  *)
LEMMA Drained == IInv /\ outClosed /\ out = <<>> => 1..next \subseteq processed \cup lost
<1> SUFFICES ASSUME IInv, outClosed, out = <<>> PROVE 1..next \subseteq processed \cup lost
  OBVIOUS
<1>1. wrappedChan = <<>> /\ held = {} /\ pend = <<>> /\ capture # "sending"
  BY DEF IInv, StagesEndInOrder
<1> QED
  BY <1>1, NoItems DEF IInv, NothingVanishes, InFlight

-----------------------------------------------------------------------------
(* PipelineInv holds of every behaviour: the channels keep within their    *)
(* capacity, and when Collect returns without an error every packet read   *)
(* was processed, or given up for want of a network layer or after a       *)
(* panic, and none is left unread unless stop was closed.  The inductive   *)
(* IInv follows each packet through the stages.                            *)
THEOREM PipelineTheorem == Spec => [](IInv /\ PipelineInv)
<1> USE CaptureAssumption
<1>1. Init => IInv
  <2> SUFFICES ASSUME Init PROVE IInv
    OBVIOUS
  <2>1. TypeOK
    <3>1. wrappedChan \in Seq(Packets) /\ pend \in Seq(SUBSET Packets) /\ out \in Seq(SUBSET Packets)
      BY DEF Init
    <3>2. next \in 0..arrived /\ arrived \in 0..MaxPackets /\ Len(wrappedChan) <= WrappedCap /\ Len(out) <= OutCap
      BY DEF Init
    <3>3. /\ wrappedClosed \in BOOLEAN /\ outClosed \in BOOLEAN /\ stop \in BOOLEAN
          /\ held \subseteq Packets /\ processed \subseteq Packets /\ lost \subseteq Packets
      BY DEF Init
    <3> QED
      BY <3>1, <3>2, <3>3 DEF Init, TypeOK
  <2>2. NothingVanishes /\ StagesEndInOrder
    BY DEF Init, NothingVanishes, StagesEndInOrder
  <2> QED
    BY <2>1, <2>2 DEF IInv
<1>2. IInv /\ [Next]_vars => IInv'
  <2> SUFFICES ASSUME TypeOK, NothingVanishes, StagesEndInOrder, [Next]_vars PROVE IInv'
    BY DEF IInv
  <2> USE DEF sourceVars, captureVars, parserVars
  <2>17. CASE PacketArrives \/ SourceEnds
    <3>1. TypeOK'
      BY <2>17 DEF PacketArrives, SourceEnds, TypeOK
    <3>2. StagesEndInOrder'
      BY <2>17 DEF PacketArrives, SourceEnds, TypeOK, StagesEndInOrder
    <3>3. NothingVanishes'
      BY <2>17 DEF PacketArrives, SourceEnds, NothingVanishes, InFlight
    <3> QED
      BY <3>1, <3>2, <3>3 DEF IInv
  <2>1. CASE Stop
    <3>1. TypeOK'
      BY <2>1 DEF Stop, TypeOK
    <3>2. StagesEndInOrder'
      BY <2>1 DEF Stop, TypeOK, StagesEndInOrder
    <3>3. NothingVanishes'
      BY <2>1 DEF Stop, TypeOK, StagesEndInOrder, NothingVanishes, InFlight
    <3> QED
      BY <3>1, <3>2, <3>3 DEF IInv
  <2>2. CASE OpenLive
    <3>1. TypeOK'
      BY <2>2 DEF OpenLive, TypeOK
    <3>2. StagesEndInOrder'
      BY <2>2 DEF OpenLive, TypeOK, StagesEndInOrder
    <3>3. NothingVanishes'
      BY <2>2 DEF OpenLive, TypeOK, StagesEndInOrder, NothingVanishes, InFlight
    <3> QED
      BY <3>1, <3>2, <3>3 DEF IInv
  <2>3. CASE ReadPacket
    <3>1. TypeOK'
      BY <2>3 DEF ReadPacket, TypeOK
    <3>2. StagesEndInOrder'
      BY <2>3 DEF ReadPacket, TypeOK, StagesEndInOrder
    <3>3. NothingVanishes'
      BY <2>3 DEF ReadPacket, TypeOK, StagesEndInOrder, NothingVanishes, InFlight
    <3> QED
      BY <3>1, <3>2, <3>3 DEF IInv
  <2>4. CASE SendPacket
    <3>0. next \in Packets
      BY <2>4 DEF SendPacket, TypeOK, StagesEndInOrder, Packets
    <3>1. TypeOK'
      <4>1. wrappedChan' \in Seq(Packets) /\ Len(wrappedChan') <= WrappedCap
        BY <2>4, <3>0, AfterSend DEF SendPacket, TypeOK
      <4> QED
        BY <2>4, <4>1 DEF SendPacket, TypeOK
    <3>2. StagesEndInOrder'
      BY <2>4 DEF SendPacket, TypeOK, StagesEndInOrder
    <3>3. NothingVanishes'
      <4>1. \A x : In(x, wrappedChan') <=> In(x, wrappedChan) \/ x = next
        BY <2>4, <3>0, AfterSend DEF SendPacket, TypeOK
      <4> QED
        BY <2>4, <4>1 DEF SendPacket, NothingVanishes, InFlight
    <3> QED
      BY <3>1, <3>2, <3>3 DEF IInv
  <2>5. CASE CaptureReturns
    <3>1. TypeOK'
      BY <2>5 DEF CaptureReturns, TypeOK
    <3>2. StagesEndInOrder'
      BY <2>5 DEF CaptureReturns, TypeOK, StagesEndInOrder
    <3>3. NothingVanishes'
      BY <2>5 DEF CaptureReturns, TypeOK, StagesEndInOrder, NothingVanishes, InFlight
    <3> QED
      BY <3>1, <3>2, <3>3 DEF IInv
  <2>6. CASE CloseHandle
    <3>1. TypeOK'
      BY <2>6 DEF CloseHandle, TypeOK
    <3>2. StagesEndInOrder'
      BY <2>6 DEF CloseHandle, TypeOK, StagesEndInOrder
    <3>3. NothingVanishes'
      BY <2>6 DEF CloseHandle, TypeOK, StagesEndInOrder, NothingVanishes, InFlight
    <3> QED
      BY <3>1, <3>2, <3>3 DEF IInv
  <2>7. CASE HandlePacket
    <3>0. /\ Head(wrappedChan) \in Packets /\ wrappedChan' \in Seq(Packets)
          /\ Len(wrappedChan') <= WrappedCap
          /\ \A x : In(x, wrappedChan) <=> In(x, wrappedChan') \/ x = Head(wrappedChan)
      BY <2>7, AfterReceive DEF HandlePacket, TypeOK
    <3>a. \/ pend' = <<>> /\ held' = held /\ lost' = lost \cup {Head(wrappedChan)}
          \/ pend' = <<{Head(wrappedChan)}>> /\ held' = held
          \/ pend' = <<{}>> /\ held' = held \cup {Head(wrappedChan)}
          \/ pend' = <<{}, held \cup {Head(wrappedChan)}>> /\ held' = {}
      BY <2>7 DEF HandlePacket
    <3>b. lost' = lost \/ lost' = lost \cup {Head(wrappedChan)}
      BY <2>7 DEF HandlePacket
    <3>1. TypeOK'
      <4> DEFINE p == Head(wrappedChan)
      <4>1. {p} \in SUBSET Packets /\ {} \in SUBSET Packets /\ held \cup {p} \in SUBSET Packets
        BY <3>0 DEF TypeOK
      <4>2. /\ <<{p}>> \in Seq(SUBSET Packets) /\ <<{}>> \in Seq(SUBSET Packets)
            /\ <<{}, held \cup {p}>> \in Seq(SUBSET Packets)
        BY <4>1, FewItems
      <4>4. <<>> \in Seq(SUBSET Packets)
        OBVIOUS
      <4>3. pend' \in Seq(SUBSET Packets) /\ held' \subseteq Packets /\ lost' \subseteq Packets
        BY <3>a, <3>b, <4>1, <4>2, <4>4 DEF TypeOK
      <4> QED
        BY <2>7, <3>0, <4>3 DEF HandlePacket, TypeOK
    <3>2. StagesEndInOrder'
      BY <2>7 DEF HandlePacket, TypeOK, StagesEndInOrder
    <3>3. NothingVanishes'
      <4>1. parser = "select" => pend = <<>>
        BY DEF StagesEndInOrder
      <4>2. ASSUME NEW p, p \in held \/ p = Head(wrappedChan)
            PROVE  p \in held' \/ InItem(p, pend') \/ p \in lost'
        <5> DEFINE q == Head(wrappedChan)
        <5>1. {q} \in SUBSET Packets /\ {} \in SUBSET Packets /\ held \cup {q} \in SUBSET Packets
          BY <3>0 DEF TypeOK
        <5>5. CASE held' = held /\ lost' = lost \cup {q}
          BY <4>2, <5>5
        <5>2. CASE pend' = <<{q}>> /\ held' = held
          BY <4>2, <5>1, <5>2, FewItems
        <5>3. CASE pend' = <<{}>> /\ held' = held \cup {q}
          BY <4>2, <5>3
        <5>4. CASE pend' = <<{}, held \cup {q}>> /\ held' = {}
          <6>1. ASSUME NEW A PROVE InItem(p, <<{}, A>>) <=> p \in A
            BY DEF InItem
          <6> QED
            BY <4>2, <5>4, <6>1
        <5> QED
          BY <3>a, <5>2, <5>3, <5>4, <5>5
      <4>3. ASSUME NEW p \in 1..next, InFlight(p) PROVE InFlight(p)' \/ p \in lost'
        BY <2>7, <3>0, <4>1, <4>2, <4>3, NoItems DEF HandlePacket, InFlight
      <4> QED
        BY <2>7, <3>b, <4>3 DEF HandlePacket, NothingVanishes
    <3> QED
      BY <3>1, <3>2, <3>3 DEF IInv
  <2>8. CASE RecoverPanic
    <3>0. \A p : p \in lost' <=> p \in lost \/ InItem(p, pend)
      BY <2>8 DEF RecoverPanic, InItem
    <3>1. TypeOK'
      <4>1. lost' \subseteq Packets
        BY <3>0 DEF TypeOK, InItem
      <4>2. pend' \in Seq(SUBSET Packets)
        BY <2>8 DEF RecoverPanic
      <4> QED
        BY <2>8, <4>1, <4>2 DEF RecoverPanic, TypeOK
    <3>2. StagesEndInOrder'
      BY <2>8 DEF RecoverPanic, TypeOK, StagesEndInOrder
    <3>3. NothingVanishes'
      BY <2>8, <3>0 DEF RecoverPanic, NothingVanishes, InFlight
    <3> QED
      BY <3>1, <3>2, <3>3 DEF IInv
  <2>9. CASE FlushOld
    <3>1. TypeOK'
      BY <2>9 DEF FlushOld, TypeOK
    <3>2. StagesEndInOrder'
      BY <2>9 DEF FlushOld, TypeOK, StagesEndInOrder
    <3>3. NothingVanishes'
      <4>1. pend = <<>>
        BY <2>9 DEF FlushOld, StagesEndInOrder
      <4>2. PICK s \in SUBSET held : pend' = <<s>> /\ held' = held \ s
        BY <2>9 DEF FlushOld
      <4>3. \A p : InItem(p, pend') <=> p \in s
        BY <4>2, FewItems
      <4>4. \A p : ~ InItem(p, pend)
        BY <4>1, NoItems
      <4> QED
        BY <2>9, <4>2, <4>3, <4>4 DEF FlushOld, NothingVanishes, InFlight
    <3> QED
      BY <3>1, <3>2, <3>3 DEF IInv
  <2>10. CASE FlushAll
    <3>0. \A p : InItem(p, pend') <=> p \in held
      <4>1. CASE held = {}
        BY <2>10, <4>1, NoItems DEF FlushAll
      <4>2. CASE held # {}
        <5>1. \A p : InItem(p, <<held>>) <=> p \in held
          BY FewItems
        <5> QED
          BY <2>10, <4>2, <5>1 DEF FlushAll
      <4> QED
        BY <4>1, <4>2
    <3>1. TypeOK'
      <4>1. pend' \in Seq(SUBSET Packets)
        <5>1. held \in SUBSET Packets /\ <<held>> \in Seq(SUBSET Packets)
          BY FewItems DEF TypeOK
        <5>2. <<>> \in Seq(SUBSET Packets)
          OBVIOUS
        <5> QED
          BY <2>10, <5>1, <5>2 DEF FlushAll
      <4> QED
        BY <2>10, <4>1 DEF FlushAll, TypeOK
    <3>2. StagesEndInOrder'
      BY <2>10 DEF FlushAll, TypeOK, StagesEndInOrder
    <3>3. NothingVanishes'
      <4>1. \A p : ~ InItem(p, pend)
        BY <2>10, NoItems DEF FlushAll, StagesEndInOrder
      <4> QED
        BY <2>10, <3>0, <4>1 DEF FlushAll, NothingVanishes, InFlight
    <3> QED
      BY <3>1, <3>2, <3>3 DEF IInv
  <2>11. CASE SendItem
    <3>1. TypeOK'
      BY AfterSend, AfterReceive, <2>11 DEF SendItem, TypeOK
    <3>2. StagesEndInOrder'
      BY <2>11 DEF SendItem, TypeOK, StagesEndInOrder
    <3>3. NothingVanishes'
      BY AfterSend, AfterReceive, <2>11 DEF SendItem, TypeOK, StagesEndInOrder, NothingVanishes, InFlight
    <3> QED
      BY <3>1, <3>2, <3>3 DEF IInv
  <2>12. CASE Handled
    <3>1. TypeOK'
      BY <2>12 DEF Handled, TypeOK
    <3>2. StagesEndInOrder'
      BY <2>12 DEF Handled, TypeOK, StagesEndInOrder
    <3>3. NothingVanishes'
      BY <2>12 DEF Handled, TypeOK, StagesEndInOrder, NothingVanishes, InFlight
    <3> QED
      BY <3>1, <3>2, <3>3 DEF IInv
  <2>13. CASE ParserReturns
    <3>1. TypeOK'
      BY <2>13 DEF ParserReturns, TypeOK
    <3>2. StagesEndInOrder'
      BY <2>13 DEF ParserReturns, TypeOK, StagesEndInOrder
    <3>3. NothingVanishes'
      BY <2>13 DEF ParserReturns, TypeOK, StagesEndInOrder, NothingVanishes, InFlight
    <3> QED
      BY <3>1, <3>2, <3>3 DEF IInv
  <2>14. CASE ProcessItem
    <3>0. /\ out' \in Seq(SUBSET Packets) /\ Len(out') <= OutCap /\ Head(out) \subseteq Packets
          /\ \A p : InItem(p, out) <=> InItem(p, out') \/ p \in Head(out)
      BY <2>14, AfterReceive DEF ProcessItem, TypeOK
    <3>1. TypeOK'
      BY <2>14, <3>0 DEF ProcessItem, TypeOK
    <3>2. StagesEndInOrder'
      BY <2>14 DEF ProcessItem, TypeOK, StagesEndInOrder
    <3>3. NothingVanishes'
      BY <2>14, <3>0 DEF ProcessItem, NothingVanishes, InFlight
    <3> QED
      BY <3>1, <3>2, <3>3 DEF IInv
  <2>15. CASE CollectReturns
    <3>1. TypeOK'
      BY <2>15 DEF CollectReturns, TypeOK
    <3>2. StagesEndInOrder'
      BY <2>15 DEF CollectReturns, TypeOK, StagesEndInOrder
    <3>3. NothingVanishes'
      BY <2>15 DEF CollectReturns, TypeOK, StagesEndInOrder, NothingVanishes, InFlight
    <3> QED
      BY <3>1, <3>2, <3>3 DEF IInv
  <2>16. CASE UNCHANGED vars
    <3>1. TypeOK'
      BY <2>16 DEF vars, TypeOK
    <3>2. StagesEndInOrder'
      BY <2>16 DEF vars, TypeOK, StagesEndInOrder
    <3>3. NothingVanishes'
      BY <2>16 DEF vars, TypeOK, StagesEndInOrder, NothingVanishes, InFlight
    <3> QED
      BY <3>1, <3>2, <3>3 DEF IInv
  <2> QED
    BY <2>1, <2>2, <2>3, <2>4, <2>5, <2>6, <2>7, <2>8, <2>9, <2>10, <2>11, <2>12, <2>13, <2>14,
       <2>15, <2>16, <2>17
    DEF Next, CaptureStep, ParserStep, CollectStep
<1>3. IInv => PipelineInv
  <2> SUFFICES ASSUME IInv PROVE TypeOK /\ EverythingProcessed
    BY DEF PipelineInv
  <2>1. collect = "returned" => 1..next \subseteq processed \cup lost
    BY Drained DEF IInv, StagesEndInOrder
  <2>2. collect = "returned" => stop \/ next = arrived
    BY DEF IInv, StagesEndInOrder
  <2>3. TypeOK /\ arrived \in Int /\ next \in Int
    BY DEF IInv, TypeOK
  <2> QED
    BY <2>1, <2>2, <2>3 DEF EverythingProcessed
<1> QED
  BY <1>1, <1>2, <1>3, PTL DEF Spec

-----------------------------------------------------------------------------
(* The safety part of ImplementsCollectorLife: under the mapping of Life,  *)
(* every step of the goroutines is a step of the abstract collector or     *)
(* changes nothing it can see.  In particular Collect returns only when    *)
(* nothing is owed, and after that nothing is read any more, although the  *)
(* reading goroutine never looks at what Collect does; and it fails before *)
(* anything was read, with the handle closed, or gives up while capturing, *)
(* of which the abstract life promises no more.                            *)
THEOREM LifeTheorem == Spec => Life!Spec
<1>1. Init => Life!Init
  BY DEF Init, Life!Init
<1>2. IInv /\ PipelineInv /\ [Next]_vars => [Life!Next]_(Life!vars)
  <2> SUFFICES ASSUME IInv, PipelineInv, [Next]_vars
               PROVE  Life!Next \/ UNCHANGED Life!vars
    BY DEF Life!vars
  <2> USE DEF sourceVars, captureVars, parserVars
  <2>0. /\ collect \in {"starting", "running", "returned", "failed"}
        /\ capture \in {"opening", "select", "sending", "closing", "closed"}
        /\ next \in 0..arrived /\ arrived \in 0..MaxPackets
    BY DEF IInv, TypeOK
  <2>a. collect = "returned" =>
          /\ pend = <<>> /\ capture \in {"closing", "closed"}
          /\ (1..next) \ (processed \cup lost) = {}
    BY DEF IInv, StagesEndInOrder, PipelineInv, EverythingProcessed
  <2>1. CASE Stop
    BY <2>1 DEF Stop, Life!Next, Life!Stop
  <2>2. CASE OpenLive
    <3>1. capture = "opening" /\ collect = "starting"
      BY <2>2 DEF OpenLive, IInv, StagesEndInOrder
    <3>2. CASE capture' = "select" /\ collect' = "running"
      BY <2>2, <3>1, <3>2 DEF OpenLive, Life!vars
    <3>3. CASE capture' = "closed" /\ collect' = "failed"
      <4>1. next = 0
        BY <3>1 DEF IInv, StagesEndInOrder
      <4> QED
        BY <2>2, <3>1, <3>3, <4>1 DEF OpenLive, Life!Next, Life!CannotOpen
    <3> QED
      BY <2>2, <3>2, <3>3 DEF OpenLive
  <2>3. CASE ReadPacket
    <3>1. next + 1 \in Packets /\ 1..(next + 1) = (1..next) \cup {next + 1}
      BY <2>0, <2>3, CaptureAssumption DEF ReadPacket, Packets
    <3>2. CASE next + 1 \in processed \cup lost
      BY <2>3, <2>a, <3>1, <3>2 DEF ReadPacket, Life!vars
    <3>3. CASE next + 1 \notin processed \cup lost
      <4>1. Life!Read(next + 1)
        BY <2>0, <2>3, <2>a, <3>1, <3>3 DEF ReadPacket, Life!Read
      <4> QED
        BY <3>1, <4>1 DEF Life!Next
    <3> QED
      BY <3>2, <3>3
  <2>4. CASE SendPacket
    BY <2>4 DEF SendPacket, Life!vars
  <2>5. CASE CaptureReturns
    BY <2>5 DEF CaptureReturns, Life!vars
  <2>6. CASE CloseHandle
    BY <2>6 DEF CloseHandle, Life!Next, Life!Release
  <2>12. CASE PacketArrives \/ SourceEnds
    BY <2>12 DEF PacketArrives, SourceEnds, Life!vars
  <2>13. CASE HandlePacket
    <3>1. (collect = "returned") = (collect' = "returned") /\ collect # "returned"
      BY <2>13 DEF HandlePacket, IInv, StagesEndInOrder
    <3>2. lost \subseteq lost' /\ UNCHANGED <<collect, stop, next, processed, capture>>
      BY <2>13 DEF HandlePacket
    <3> QED
      BY <2>0, <3>1, <3>2 DEF Life!Next, Life!Settle
  <2>7. CASE FlushOld \/ FlushAll \/ SendItem \/ Handled \/ ParserReturns
    BY <2>7 DEF FlushOld, FlushAll, SendItem, Handled, ParserReturns, Life!vars
  <2>8. CASE RecoverPanic
    BY <2>0, <2>8, <2>a DEF RecoverPanic, Life!Next, Life!Settle
  <2>9. CASE ProcessItem
    <3>1. CASE collect' = "running"
      BY <2>9, <3>1 DEF ProcessItem, Life!Next, Life!Settle
    <3>2. CASE collect' = "failed"
      BY <2>9, <3>2 DEF ProcessItem, Life!Next, Life!Abandon
    <3> QED
      BY <2>9, <3>1, <3>2 DEF ProcessItem
  <2>10. CASE CollectReturns
    <3>1. (1..next) \ (processed \cup lost) = {}
      BY <2>10, Drained DEF CollectReturns
    <3> QED
      BY <2>10, <3>1 DEF CollectReturns, Life!Next, Life!Return
  <2>11. CASE UNCHANGED vars
    BY <2>11 DEF vars, Life!vars
  <2> QED
    BY <2>1, <2>2, <2>3, <2>4, <2>5, <2>6, <2>7, <2>8, <2>9, <2>10, <2>11, <2>12, <2>13
    DEF Next, CaptureStep, ParserStep, CollectStep
<1> QED
  BY <1>1, <1>2, PipelineTheorem, PTL DEF Spec, Life!Spec
-----------------------------------------------------------------------------
(* The packet counters *)

LEMMA MinOfTwo ==
  ASSUME NEW a \in Nat, NEW b \in Nat
  PROVE  Min({a, b}) = IF a <= b THEN a ELSE b
<1>1. \A x \in {a, b} : (\A y \in {a, b} : x <= y) => x = IF a <= b THEN a ELSE b
  OBVIOUS
<1>2. \E x \in {a, b} : \A y \in {a, b} : x <= y
  <2>1. CASE a <= b
    BY <2>1
  <2>2. CASE b <= a
    BY <2>2
  <2> QED
    BY <2>1, <2>2
<1> QED
  BY <1>1, <1>2 DEF Min

(* TopN takes n keys or all of them, and none that it leaves out has more  *)
(* than one that it takes: the rank of a key is the number of those sorted *)
(* before it, and ranks are 0, 1, ... without gaps.                        *)
LEMMA TopNTakesTheTop ==
  ASSUME NEW D, IsFiniteSet(D), D \subseteq Int, NEW value \in [D -> Nat], NEW n \in Nat
  PROVE  IsTop(TopN(value, n), value, n)
<1> DEFINE Before(k) == {j \in D : SortedBefore(value, j, k)}
           rank == [k \in D |-> Cardinality(Before(k))]
           top == TopN(value, n)
<1>1. DOMAIN value = D /\ top = {k \in D : rank[k] < n} /\ Cardinality(D) \in Nat
  BY FS_CardinalityType DEF TopN
<1>2. ASSUME NEW k \in D
      PROVE  /\ IsFiniteSet(Before(k)) /\ rank[k] \in Nat
             /\ rank[k] \in 0..(Cardinality(D) - 1)
  <2>1. k \notin Before(k) /\ Before(k) \in SUBSET D
    BY DEF SortedBefore
  <2>2. IsFiniteSet(Before(k)) /\ Cardinality(Before(k)) <= Cardinality(D)
        /\ (Cardinality(D) = Cardinality(Before(k)) => D = Before(k))
    BY <2>1, FS_Subset
  <2>3. Cardinality(Before(k)) \in Nat
    BY <2>2, FS_CardinalityType
  <2> QED
    BY <1>1, <2>1, <2>2, <2>3
<1>3. ASSUME NEW a \in D, NEW b \in D, SortedBefore(value, a, b)
      PROVE  rank[a] < rank[b]
  <2>1. a \in Before(b) /\ a \notin Before(a)
    BY <1>3 DEF SortedBefore
  <2>2. \A j \in D : SortedBefore(value, j, a) => SortedBefore(value, j, b)
    BY <1>3 DEF SortedBefore
  <2>3. Before(a) \subseteq Before(b)
    BY <2>2
  <2>4. Cardinality(Before(a)) <= Cardinality(Before(b)) /\ Cardinality(Before(a)) # Cardinality(Before(b))
    BY <1>2, <2>1, <2>3, FS_Subset
  <2> QED
    BY <1>2, <2>4
<1>4. ASSUME NEW a \in D, NEW b \in D, a # b
      PROVE  SortedBefore(value, a, b) \/ SortedBefore(value, b, a)
  BY <1>4 DEF SortedBefore
<1> HIDE DEF rank, top
<1>ranks. /\ \A k \in D : rank[k] \in Nat /\ rank[k] \in 0..(Cardinality(D) - 1)
          /\ \A a, b \in D : SortedBefore(value, a, b) => rank[a] < rank[b]
          /\ \A a, b \in D : a # b => SortedBefore(value, a, b) \/ SortedBefore(value, b, a)
  BY <1>2, <1>3, <1>4
<1>5. ASSUME NEW k \in top, NEW j \in D \ top
      PROVE  value[k] >= value[j]
  <2>1. k \in D /\ j \in D /\ k # j /\ rank[k] < n /\ ~(rank[j] < n)
    BY <1>1, <1>5
  <2>2. ~ SortedBefore(value, j, k)
    BY <1>ranks, <2>1
  <2> QED
    BY <2>1, <2>2 DEF SortedBefore
<1>6. rank \in Injection(D, 0..(Cardinality(D) - 1))
  <2>1. rank \in [D -> 0..(Cardinality(D) - 1)]
    BY <1>ranks DEF rank
  <2>2. \A a, b \in D : rank[a] = rank[b] => a = b
    BY <1>ranks
  <2> QED
    BY <2>1, <2>2 DEF Injection, IsInjective
<1>7. rank \in Surjection(D, 0..(Cardinality(D) - 1))
  <2>1. IsFiniteSet(0..(Cardinality(D) - 1)) /\ Cardinality(0..(Cardinality(D) - 1)) = Cardinality(D)
    BY <1>1, FS_Interval
  <2> QED
    BY <1>6, <2>1, FS_Injection
<1>8. Cardinality(top) = IF n <= Cardinality(D) THEN n ELSE Cardinality(D)
  <2>1. CASE n <= Cardinality(D)
    <3> DEFINE r == [k \in top |-> rank[k]]
    <3>1. top \subseteq D /\ \A k \in top : rank[k] \in 0..(n - 1)
      BY <1>1, <1>ranks
    <3>2. \A i \in 0..(n - 1) : \E k \in top : rank[k] = i
      <4>1. \A i \in 0..(n - 1) : i \in 0..(Cardinality(D) - 1) /\ i < n
        BY <1>1, <2>1
      <4> QED
        BY <1>1, <1>7, <4>1 DEF Surjection
    <3>3. \A a, b \in top : rank[a] = rank[b] => a = b
      BY <1>6, <3>1 DEF Injection, IsInjective
    <3>4. r \in Surjection(top, 0..(n - 1)) /\ r \in Injection(top, 0..(n - 1))
      BY <3>1, <3>2, <3>3 DEF Surjection, Injection, IsInjective
    <3>5. IsFiniteSet(0..(n - 1)) /\ Cardinality(0..(n - 1)) = n
      BY FS_Interval
    <3> HIDE DEF r
    <3> QED
      BY <2>1, <3>4, <3>5, FS_Injection
  <2>2. CASE ~(n <= Cardinality(D))
    <3>1. top = D
      <4>1. \A k \in D : rank[k] < n
        BY <1>1, <1>ranks, <2>2
      <4> QED
        BY <1>1, <4>1
    <3> QED
      BY <2>2, <3>1
  <2> QED
    BY <2>1, <2>2
<1> QED
  BY <1>1, <1>5, <1>8, MinOfTwo DEF IsTop, top

(* What is known of a bounded map after the given updates: it is exact for *)
(* the keys it tracks and complete with its overflow, no key is turned     *)
(* away before the limit is reached, and none is tracked without updates.  *)
Tracks(bc, updates) ==
  /\ IsFiniteSet(updates)
  /\ bc = [m |-> bc.m, overflow |-> bc.overflow]
  /\ BoundedCounterOK(bc)
  /\ IsFiniteSet(DOMAIN bc.m)
  /\ IsExact(bc, updates) /\ IsComplete(bc, updates)
  /\ \A u \in updates : u.key \in DOMAIN bc.m \/ HasReachedLimit(bc)
  /\ \A k \in DOMAIN bc.m : \E u \in updates : u.key = k

Hits(U, k, x)   == Cardinality({u \in U : u.key = k /\ u.metric = x})
Misses(U, D, x) == Cardinality({u \in U : u.key \notin D /\ u.metric = x})

(* One more update is one more for its key and its metric, or one more     *)
(* that no key was tracked for.                                            *)
LEMMA OneMoreHit ==
  ASSUME NEW U, IsFiniteSet(U), NEW u, u \notin U, NEW k, NEW x
  PROVE  /\ Hits(U, k, x) \in Nat
         /\ u.key = k /\ u.metric = x => Hits(U \cup {u}, k, x) = Hits(U, k, x) + 1
         /\ ~(u.key = k /\ u.metric = x) => Hits(U \cup {u}, k, x) = Hits(U, k, x)
<1> DEFINE H(V) == {v \in V : v.key = k /\ v.metric = x}
<1>1. IsFiniteSet(H(U)) /\ u \notin H(U)
  BY FS_Subset
<1>2. Cardinality(H(U)) \in Nat
  BY <1>1, FS_CardinalityType
<1>3. H(U \cup {u}) = IF u.key = k /\ u.metric = x THEN H(U) \cup {u} ELSE H(U)
  OBVIOUS
<1>4. Cardinality(H(U) \cup {u}) = Cardinality(H(U)) + 1
  BY <1>1, FS_AddElement
<1> QED
  BY <1>2, <1>3, <1>4 DEF Hits

LEMMA OneMoreMiss ==
  ASSUME NEW U, IsFiniteSet(U), NEW u, u \notin U, NEW D, NEW x
  PROVE  /\ Misses(U, D, x) \in Nat
         /\ u.key \notin D /\ u.metric = x => Misses(U \cup {u}, D, x) = Misses(U, D, x) + 1
         /\ ~(u.key \notin D /\ u.metric = x) => Misses(U \cup {u}, D, x) = Misses(U, D, x)
<1> DEFINE H(V) == {v \in V : v.key \notin D /\ v.metric = x}
<1>1. IsFiniteSet(H(U)) /\ u \notin H(U)
  BY FS_Subset
<1>2. Cardinality(H(U)) \in Nat
  BY <1>1, FS_CardinalityType
<1>3. H(U \cup {u}) = IF u.key \notin D /\ u.metric = x THEN H(U) \cup {u} ELSE H(U)
  OBVIOUS
<1>4. Cardinality(H(U) \cup {u}) = Cardinality(H(U)) + 1
  BY <1>1, FS_AddElement
<1> QED
  BY <1>2, <1>3, <1>4 DEF Misses

(* AddOrInsert keeps the account: a tracked key gets the update, and only  *)
(* at the limit does a new one go to the overflow.                         *)
LEMMA AddOrInsertTracks ==
  ASSUME NEW bc, NEW U, Tracks(bc, U), NEW u, u \notin U, u.metric \in Metrics
  PROVE  Tracks(AddOrInsert(bc, u.key, One(u.metric)), U \cup {u})
<1> DEFINE c == One(u.metric)
           D == DOMAIN bc.m
<1>0. IsFiniteSet(U) /\ IsFiniteSet(U \cup {u})
  BY FS_AddElement DEF Tracks
<1>1. /\ c \in Counts /\ \A x \in Metrics : c[x] = IF x = u.metric THEN 1 ELSE 0
  BY DEF One, ZeroCounts, Counts
<1>2. ASSUME NEW k, NEW x
      PROVE  /\ Hits(U, k, x) \in Nat
             /\ u.key = k /\ u.metric = x => Hits(U \cup {u}, k, x) = Hits(U, k, x) + 1
             /\ ~(u.key = k /\ u.metric = x) => Hits(U \cup {u}, k, x) = Hits(U, k, x)
  BY <1>0, OneMoreHit
<1>miss. ASSUME NEW x
         PROVE  /\ Misses(U, D, x) \in Nat
                /\ u.key \notin D /\ u.metric = x => Misses(U \cup {u}, D, x) = Misses(U, D, x) + 1
                /\ ~(u.key \notin D /\ u.metric = x) => Misses(U \cup {u}, D, x) = Misses(U, D, x)
  BY <1>0, OneMoreMiss
<1>3. /\ \A k \in D : bc.m[k] \in Counts /\ \A x \in Metrics : bc.m[k][x] = Hits(U, k, x)
      /\ bc.overflow \in Counts /\ \A x \in Metrics : bc.overflow[x] = Misses(U, D, x)
      /\ \A v \in U : v.key \in D \/ HasReachedLimit(bc)
      /\ \A k \in D : \E v \in U : v.key = k
      /\ IsFiniteSet(D) /\ Cardinality(D) \in Nat /\ Cardinality(D) <= maxKeys /\ maxKeys \in Nat
      /\ bc = [m |-> bc.m, overflow |-> bc.overflow]
  BY FS_CardinalityType, KeysAssumption DEF Tracks, BoundedCounterOK, IsExact, IsComplete, TotalOn, Hits, Misses
<1>4. \A a \in Counts : Add(a, c) \in Counts /\ \A x \in Metrics : Add(a, c)[x] = a[x] + c[x]
  BY <1>1 DEF Add, Counts
<1> HIDE DEF c
<1>5. SUFFICES ASSUME NEW new, new = AddOrInsert(bc, u.key, c)
               PROVE  /\ new = [m |-> new.m, overflow |-> new.overflow]
                      /\ IsFiniteSet(DOMAIN new.m) /\ Cardinality(DOMAIN new.m) <= maxKeys
                      /\ \A k \in DOMAIN new.m : /\ new.m[k] \in Counts
                                                 /\ \A x \in Metrics : new.m[k][x] = Hits(U \cup {u}, k, x)
                                                 /\ \E v \in U \cup {u} : v.key = k
                      /\ new.overflow \in Counts
                      /\ \A x \in Metrics : new.overflow[x] = Misses(U \cup {u}, DOMAIN new.m, x)
                      /\ \A v \in U \cup {u} : v.key \in DOMAIN new.m \/ HasReachedLimit(new)
  BY <1>0 DEF Tracks, BoundedCounterOK, IsExact, IsComplete, TotalOn, c, Hits, Misses
<1>6. CASE u.key \in D
  <2>1. new = [m |-> [bc.m EXCEPT ![u.key] = Add(@, c)], overflow |-> bc.overflow]
    BY <1>3, <1>5, <1>6 DEF AddOrInsert
  <2>2. /\ DOMAIN new.m = D /\ new.overflow = bc.overflow
        /\ \A k \in D : new.m[k] = IF k = u.key THEN Add(bc.m[k], c) ELSE bc.m[k]
        /\ HasReachedLimit(new) <=> HasReachedLimit(bc)
    BY <2>1 DEF HasReachedLimit
  <2>3. ASSUME NEW k \in D, NEW x \in Metrics
        PROVE  new.m[k] \in Counts /\ new.m[k][x] = Hits(U \cup {u}, k, x)
    <3>1. CASE k = u.key
      <4>1. new.m[k] \in Counts /\ new.m[k][x] = bc.m[k][x] + c[x]
        BY <1>3, <1>4, <2>2, <3>1
      <4>2. bc.m[k][x] = Hits(U, k, x) /\ Hits(U, k, x) \in Nat
        BY <1>2, <1>3
      <4> QED
        BY <1>1, <1>2, <3>1, <4>1, <4>2
    <3>2. CASE k # u.key
      <4>1. Hits(U \cup {u}, k, x) = Hits(U, k, x)
        BY <1>2, <3>2
      <4> QED
        BY <1>3, <2>2, <3>2, <4>1
    <3> QED
      BY <3>1, <3>2
  <2>4. \A x \in Metrics : Misses(U \cup {u}, D, x) = Misses(U, D, x)
    BY <1>6, <1>miss
  <2>5. Metrics # {}
    BY DEF Metrics
  <2> QED
    BY <1>3, <1>6, <2>1, <2>2, <2>3, <2>4, <2>5
<1>7. CASE u.key \notin D /\ HasReachedLimit(bc)
  <2>1. new = [m |-> bc.m, overflow |-> Add(bc.overflow, c)]
    BY <1>3, <1>5, <1>7 DEF AddOrInsert
  <2>2. HasReachedLimit(new) /\ new.m = bc.m /\ new.overflow \in Counts
    BY <1>3, <1>4, <1>7, <2>1 DEF HasReachedLimit
  <2>3. ASSUME NEW x \in Metrics PROVE new.overflow[x] = Misses(U \cup {u}, D, x)
    <3>1. new.overflow[x] = bc.overflow[x] + c[x]
      BY <1>3, <1>4, <2>1
    <3>2. bc.overflow[x] = Misses(U, D, x) /\ Misses(U, D, x) \in Nat
      BY <1>3, <1>miss
    <3>3. CASE x = u.metric
      <4>1. Misses(U \cup {u}, D, x) = Misses(U, D, x) + 1
        BY <1>7, <3>3, <1>miss
      <4> QED
        BY <1>1, <3>1, <3>2, <3>3, <4>1
    <3>4. CASE x # u.metric
      <4>1. Misses(U \cup {u}, D, x) = Misses(U, D, x)
        BY <3>4, <1>miss
      <4> QED
        BY <1>1, <3>1, <3>2, <3>4, <4>1
    <3> QED
      BY <3>3, <3>4
  <2>4. ASSUME NEW k \in D, NEW x \in Metrics PROVE bc.m[k][x] = Hits(U \cup {u}, k, x)
    <3>1. Hits(U \cup {u}, k, x) = Hits(U, k, x)
      BY <1>2, <1>7
    <3> QED
      BY <1>3, <3>1
  <2>5. \A v \in U \cup {u} : HasReachedLimit(new)
    BY <2>2
  <2> QED
    BY <1>3, <2>1, <2>2, <2>3, <2>4, <2>5
<1>8. CASE u.key \notin D /\ ~ HasReachedLimit(bc)
  <2>1. new = [m |-> [k \in D \cup {u.key} |-> IF k = u.key THEN c ELSE bc.m[k]], overflow |-> bc.overflow]
    BY <1>3, <1>5, <1>8 DEF AddOrInsert
  <2>2. /\ DOMAIN new.m = D \cup {u.key} /\ new.overflow = bc.overflow
        /\ \A k \in D : new.m[k] = bc.m[k]
        /\ new.m[u.key] = c
    BY <1>8, <2>1
  <2>3. IsFiniteSet(D \cup {u.key}) /\ Cardinality(D \cup {u.key}) = Cardinality(D) + 1
    BY <1>3, <1>8, FS_AddElement
  <2>4. Cardinality(DOMAIN new.m) <= maxKeys
    BY <1>3, <1>8, <2>2, <2>3 DEF HasReachedLimit
  <2>5. \A v \in U : v.key \in D
    BY <1>3, <1>8
  <2>6. ASSUME NEW x \in Metrics PROVE new.m[u.key][x] = Hits(U \cup {u}, u.key, x)
    <3>1. {v \in U : v.key = u.key /\ v.metric = x} = {}
      BY <1>8, <2>5
    <3>2. Hits(U, u.key, x) = 0
      BY <3>1, FS_EmptySet DEF Hits
    <3>3. CASE x = u.metric
      BY <1>1, <1>2, <2>2, <3>2, <3>3
    <3>4. CASE x # u.metric
      <4>1. Hits(U \cup {u}, u.key, x) = 0
        BY <1>2, <3>2, <3>4
      <4> QED
        BY <1>1, <2>2, <3>4, <4>1
    <3> QED
      BY <3>3, <3>4
  <2>7. ASSUME NEW k \in D, NEW x \in Metrics PROVE new.m[k][x] = Hits(U \cup {u}, k, x)
    <3>1. Hits(U \cup {u}, k, x) = Hits(U, k, x)
      BY <1>2, <1>8
    <3> QED
      BY <1>3, <2>2, <3>1
  <2>8. ASSUME NEW x \in Metrics PROVE new.overflow[x] = Misses(U \cup {u}, DOMAIN new.m, x)
    <3>1. {v \in U : v.key \notin D /\ v.metric = x} = {}
          /\ {v \in U \cup {u} : v.key \notin D \cup {u.key} /\ v.metric = x} = {}
      BY <2>5
    <3>2. Misses(U, D, x) = Misses(U \cup {u}, D \cup {u.key}, x)
      BY <3>1 DEF Misses
    <3> QED
      BY <1>3, <2>2, <3>2
  <2>9. \A v \in U \cup {u} : v.key \in DOMAIN new.m
    BY <2>2, <2>5
  <2>10. \A k \in DOMAIN new.m : new.m[k] \in Counts /\ \E v \in U \cup {u} : v.key = k
    BY <1>1, <1>3, <2>2
  <2>11. \A k \in DOMAIN new.m, x \in Metrics : new.m[k][x] = Hits(U \cup {u}, k, x)
    BY <2>2, <2>6, <2>7
  <2>12. new = [m |-> new.m, overflow |-> new.overflow] /\ new.overflow \in Counts
    BY <1>3, <2>1
  <2> QED
    BY <2>2, <2>3, <2>4, <2>8, <2>9, <2>10, <2>11, <2>12
<1> QED
  BY <1>6, <1>7, <1>8

Names == {"filter", "prefilter", "negation"}

(* The counters after the updates made so far. *)
CountersInv ==
  /\ counters = [n \in Names |-> counters[n]]
  /\ \A n \in Names :
       /\ IsFiniteSet(EventsOf(n))
       /\ counters[n].total \in Counts
       /\ \A x \in Metrics : counters[n].total[x] = Cardinality({e \in EventsOf(n) : MetricOf(e[3]) = x})
       /\ Tracks(counters[n].byPort, PortUpdates(n))
       /\ Tracks(counters[n].byInterface, InterfaceUpdates(n))
       /\ Tracks(counters[n].byHost, HostUpdates(n))

LEMMA NewCounterTracks == Tracks(NewBoundedPacketCounter, {})
<1> DEFINE new == NewBoundedPacketCounter
<1>1. /\ DOMAIN new.m = {} /\ new.overflow = ZeroCounts /\ new = [m |-> new.m, overflow |-> new.overflow]
  BY DEF NewBoundedPacketCounter
<1>2. ZeroCounts \in Counts /\ \A x \in Metrics : ZeroCounts[x] = 0
  BY DEF ZeroCounts, Counts
<1>3. IsFiniteSet({}) /\ Cardinality({}) = 0 /\ 0 <= maxKeys
  BY FS_EmptySet, KeysAssumption
<1>4. \A x \in Metrics : Cardinality({u \in {} : u.key \notin DOMAIN new.m /\ u.metric = x}) = 0
  <2>1. \A x \in Metrics : {u \in {} : u.key \notin DOMAIN new.m /\ u.metric = x} = {}
    OBVIOUS
  <2> QED
    BY <1>3, <2>1
<1> HIDE DEF new
<1>5. BoundedCounterOK(new) /\ IsExact(new, {}) /\ IsComplete(new, {})
  BY <1>1, <1>2, <1>3, <1>4 DEF BoundedCounterOK, IsExact, IsComplete
<1> QED
  BY <1>1, <1>3, <1>5 DEF Tracks, new

(* The metric of an item that is counted is one of the metrics. *)
LEMMA MetricIsOne ==
  ASSUME NEW i \in Items, IsCounted(i)
  PROVE  MetricOf(i) \in Metrics
BY ItemAssumption DEF IsCounted, MetricOf, Metrics, Kinds

(* Update keeps the accounts of its counter, and of the others. *)
LEMMA UpdateTracks ==
  ASSUME CountersInv, NEW n \in Names, NEW c \in Collectors, NEW i \in Items, IsCounted(i),
         <<n, c, i>> \notin counted,
         counters' = [counters EXCEPT ![n] = Update(@, DeltaOf(c, i))],
         counted' = counted \cup {<<n, c, i>>}
  PROVE  CountersInv'
<1> DEFINE e == <<n, c, i>>
           x == MetricOf(i)
           one == One(x)
           s == counters[n]
           src == [key |-> i.src, metric |-> x, of |-> e, end |-> "src"]
           dst == [key |-> i.dst, metric |-> x, of |-> e, end |-> "dst"]
           itf == [key |-> c.interface, metric |-> x, of |-> e]
           hst == [key |-> HostOf(i), metric |-> x, of |-> e]
<1>1. x \in Metrics
  BY MetricIsOne
<1>2. /\ counters' = [m \in Names |-> counters'[m]]
      /\ \A m \in Names \ {n} : counters'[m] = counters[m]
      /\ counters'[n] = [total |-> Add(s.total, one),
                         byPort |-> AddOrInsert(AddOrInsert(s.byPort, i.src, one), i.dst, one),
                         byInterface |-> AddOrInsert(s.byInterface, c.interface, one),
                         byHost |-> IF HostOf(i) = NoHost THEN s.byHost
                                    ELSE AddOrInsert(s.byHost, HostOf(i), one)]
  BY DEF CountersInv, Update, DeltaOf, Delta
<1>3. /\ \A m \in Names \ {n} : EventsOf(m)' = EventsOf(m)
      /\ EventsOf(n)' = EventsOf(n) \cup {e} /\ e \notin EventsOf(n) /\ e[1] = n /\ e[2] = c /\ e[3] = i
  BY DEF EventsOf
<1> HIDE DEF e, one, x
<1>4. ASSUME NEW m \in Names \ {n}
      PROVE  /\ PortUpdates(m)' = PortUpdates(m) /\ InterfaceUpdates(m)' = InterfaceUpdates(m)
             /\ HostUpdates(m)' = HostUpdates(m)
  BY <1>3 DEF PortUpdates, InterfaceUpdates, HostUpdates
<1>5. PortUpdates(n)' = (PortUpdates(n) \cup {src}) \cup {dst}
      /\ src \notin PortUpdates(n) /\ dst \notin PortUpdates(n) \cup {src}
  <2>1. PortUpdates(n)' = (PortUpdates(n) \cup {src}) \cup {dst}
    BY <1>3 DEF PortUpdates, x
  <2>2. \A u \in PortUpdates(n) : u.of \in EventsOf(n)
    BY DEF PortUpdates
  <2>3. src.of = e /\ dst.of = e /\ src.end # dst.end
    OBVIOUS
  <2> QED
    BY <1>3, <2>1, <2>2, <2>3
<1>6. InterfaceUpdates(n)' = InterfaceUpdates(n) \cup {itf} /\ itf \notin InterfaceUpdates(n)
  <2>1. InterfaceUpdates(n)' = InterfaceUpdates(n) \cup {itf}
    BY <1>3 DEF InterfaceUpdates, x
  <2>2. \A u \in InterfaceUpdates(n) : u.of \in EventsOf(n)
    BY DEF InterfaceUpdates
  <2>3. itf.of = e
    OBVIOUS
  <2> QED
    BY <1>3, <2>1, <2>2, <2>3
<1>7. /\ HostOf(i) = NoHost => HostUpdates(n)' = HostUpdates(n)
      /\ HostOf(i) # NoHost => HostUpdates(n)' = HostUpdates(n) \cup {hst} /\ hst \notin HostUpdates(n)
  <2>1. /\ HostOf(i) = NoHost => HostUpdates(n)' = HostUpdates(n)
        /\ HostOf(i) # NoHost => HostUpdates(n)' = HostUpdates(n) \cup {hst}
    BY <1>3 DEF HostUpdates, x
  <2>2. \A u \in HostUpdates(n) : u.of \in EventsOf(n)
    BY DEF HostUpdates
  <2>3. hst.of = e
    OBVIOUS
  <2> QED
    BY <1>3, <2>1, <2>2, <2>3
<1>8. /\ src.key = i.src /\ dst.key = i.dst /\ itf.key = c.interface /\ hst.key = HostOf(i)
      /\ src.metric = x /\ dst.metric = x /\ itf.metric = x /\ hst.metric = x
  OBVIOUS
<1>9. /\ Tracks(s.byPort, PortUpdates(n)) /\ Tracks(s.byInterface, InterfaceUpdates(n))
      /\ Tracks(s.byHost, HostUpdates(n))
      /\ IsFiniteSet(EventsOf(n)) /\ s.total \in Counts
      /\ \A y \in Metrics : s.total[y] = Cardinality({d \in EventsOf(n) : MetricOf(d[3]) = y})
  BY DEF CountersInv
<1> HIDE DEF src, dst, itf, hst
<1>10. Tracks(counters'[n].byPort, PortUpdates(n)')
  <2>1. Tracks(AddOrInsert(s.byPort, i.src, one), PortUpdates(n) \cup {src})
    BY <1>1, <1>5, <1>8, <1>9, AddOrInsertTracks DEF one
  <2>2. Tracks(AddOrInsert(AddOrInsert(s.byPort, i.src, one), i.dst, one), (PortUpdates(n) \cup {src}) \cup {dst})
    BY <1>1, <1>5, <1>8, <2>1, AddOrInsertTracks DEF one
  <2> QED
    BY <1>2, <1>5, <2>2
<1>11. Tracks(counters'[n].byInterface, InterfaceUpdates(n)')
  <2>1. Tracks(AddOrInsert(s.byInterface, c.interface, one), InterfaceUpdates(n) \cup {itf})
    BY <1>1, <1>6, <1>8, <1>9, AddOrInsertTracks DEF one
  <2> QED
    BY <1>2, <1>6, <2>1
<1>12. Tracks(counters'[n].byHost, HostUpdates(n)')
  <2>1. HostOf(i) # NoHost => Tracks(AddOrInsert(s.byHost, HostOf(i), one), HostUpdates(n) \cup {hst})
    BY <1>1, <1>7, <1>8, <1>9, AddOrInsertTracks DEF one
  <2> QED
    BY <1>2, <1>7, <1>9, <2>1
<1>13. /\ IsFiniteSet(EventsOf(n)') /\ counters'[n].total \in Counts
       /\ \A y \in Metrics : counters'[n].total[y] = Cardinality({d \in EventsOf(n)' : MetricOf(d[3]) = y})
  <2>1. IsFiniteSet(EventsOf(n)')
    BY <1>3, <1>9, FS_AddElement
  <2>2. \A y \in Metrics : one[y] = IF y = x THEN 1 ELSE 0
    BY <1>1 DEF one, One, ZeroCounts
  <2>3. /\ counters'[n].total = [y \in Metrics |-> s.total[y] + one[y]]
        /\ counters'[n].total \in Counts
    BY <1>2, <1>9, <2>2 DEF Add, Counts
  <2>4. ASSUME NEW y \in Metrics
        PROVE  counters'[n].total[y] = Cardinality({d \in EventsOf(n)' : MetricOf(d[3]) = y})
    <3> DEFINE E == {d \in EventsOf(n) : MetricOf(d[3]) = y}
    <3>1. IsFiniteSet(E) /\ e \notin E
      BY <1>3, <1>9, FS_Subset
    <3>2. Cardinality(E) \in Nat /\ Cardinality(E \cup {e}) = Cardinality(E) + 1 /\ s.total[y] = Cardinality(E)
      BY <1>9, <3>1, FS_CardinalityType, FS_AddElement
    <3>3. {d \in EventsOf(n)' : MetricOf(d[3]) = y} = IF y = x THEN E \cup {e} ELSE E
      BY <1>3 DEF x
    <3>4. counters'[n].total[y] = s.total[y] + one[y]
      BY <2>3
    <3> HIDE DEF E, s
    <3>5. CASE y = x
      BY <2>2, <3>2, <3>3, <3>4, <3>5
    <3>6. CASE y # x
      <4>1. one[y] = 0 /\ Cardinality({d \in EventsOf(n)' : MetricOf(d[3]) = y}) = Cardinality(E)
        BY <2>2, <3>3, <3>6
      <4>2. counters'[n].total[y] = Cardinality(E)
        BY <3>2, <3>4, <4>1
      <4> QED
        BY <4>1, <4>2
    <3> QED
      BY <3>5, <3>6
  <2> QED
    BY <2>1, <2>3, <2>4
<1>14. ASSUME NEW m \in Names \ {n}
       PROVE  /\ IsFiniteSet(EventsOf(m)') /\ counters'[m].total \in Counts
              /\ \A y \in Metrics : counters'[m].total[y] = Cardinality({d \in EventsOf(m)' : MetricOf(d[3]) = y})
              /\ Tracks(counters'[m].byPort, PortUpdates(m)')
              /\ Tracks(counters'[m].byInterface, InterfaceUpdates(m)')
              /\ Tracks(counters'[m].byHost, HostUpdates(m)')
  BY <1>2, <1>3, <1>4 DEF CountersInv
<1> QED
  BY <1>2, <1>10, <1>11, <1>12, <1>13, <1>14 DEF CountersInv

-----------------------------------------------------------------------------
(* The collector chains *)

Ids == {i.id : i \in Items}

ChainTypes ==
  /\ args \in ArgSets
  /\ seen \in [Collectors -> SUBSET Items]
  /\ processing \in [Collectors -> Items \cup {NoItem}]
  /\ stage \in [Collectors -> {"filter", "count", "sink"}]
  /\ filteredIDs \in [Collectors -> [Filters -> SUBSET Ids]]
  /\ arrivals \in [Collectors -> SUBSET Ids]
  /\ har \in [Collectors -> SUBSET Items]
  /\ written \in [Collectors -> BOOLEAN]
  /\ closed \in [Collectors -> BOOLEAN]
  /\ inOrder \in [Collectors -> SUBSET Ids]
  /\ delivered \in [Collectors -> SUBSET Items]

IsHTTP(i) == i.kind \in {"request", "response"}

(* An item of chain c is seen, then processed, then delivered or dropped,  *)
(* and recorded only when delivered.                                       *)
FlowInv(c) ==
  /\ \A i \in seen[c] : i.on = c
  /\ delivered[c] \subseteq seen[c]
  /\ processing[c] # NoItem =>
       processing[c] \in seen[c] /\ processing[c] \notin delivered[c] /\ processing[c].kind \notin {"segment", "oversized"}
  /\ processing[c] = NoItem => stage[c] = "filter"
  /\ har[c] \subseteq {i \in delivered[c] : IsHTTP(i)}
  /\ har[c] # {} => c.matched /\ args.local
  /\ written[c] => closed[c] /\ har[c] # {}

(* Item i has passed the filters of chain c, and its counter. *)
PassedFilters(c, i) == i \in delivered[c] \/ (processing[c] = i /\ stage[c] # "filter")
PassedCounter(c, i) == i \in delivered[c] \/ (processing[c] = i /\ stage[c] = "sink")

(* What is counted of chain c: before the filters everything the parsers   *)
(* produce, after them what has passed the counter.                        *)
EventsInv(c) ==
  \A i \in seen[c] :
    i.kind \notin {"segment", "oversized"} /\ IsCounted(i) =>
      /\ <<SummaryOf(c), c, i>> \in counted <=> PassedCounter(c, i)
      /\ HasUserFilters /\ c.matched => <<"prefilter", c, i>> \in counted

(* Every update is one of an item that its chain has seen. *)
UpdatesInv ==
  \A e \in counted :
    /\ e = <<e[1], e[2], e[3]>> /\ e[1] \in Names /\ e[2] \in Collectors
    /\ e[3] \in seen[e[2]] /\ IsCounted(e[3])
    /\ e[1] \in {SummaryOf(e[2]), "prefilter"}
    /\ e[1] = "prefilter" => e[2].matched /\ e[3].kind \notin {"segment", "oversized"}

(* The filters' ids and the rate limiter's arrivals are those of requests  *)
(* that Process has taken that far, and what passed them was not refused.  *)
FilterInv(c) ==
  /\ \A f \in Filters : \A id \in filteredIDs[c][f] :
       \E r \in seen[c] : r.kind = "request" /\ r.id = id /\ Refusing(r) # {}
  /\ \A id \in arrivals[c] :
       \E r \in seen[c] : r.kind = "request" /\ r.id = id /\ ~(processing[c] = r /\ stage[c] = "filter")
  /\ \A i \in seen[c] : PassedFilters(c, i) =>
       IncludeSample(i) /\ (i.kind = "request" => Refusing(i) = {})
  /\ \A q \in seen[c] :
       q.kind = "request" /\ ~IsCLITraffic(q) /\ processing[c] # q /\ q \notin delivered[c] =>
         \/ \E f \in Filters : q.id \in filteredIDs[c][f]
         \/ args.rateLimit /\ q.id \notin arrivals[c]
         \/ ~IncludeSample(q)

(* The two halves of a pair in order: the request has been processed when  *)
(* its response is seen, and what became of it decides what becomes of the *)
(* response.                                                               *)
PairInv(c) ==
  /\ \A id \in inOrder[c] : \E q \in seen[c] : q.kind = "request" /\ q.id = id /\ processing[c] # q
  /\ \A q, p \in seen[c] :
       (q.kind = "request" /\ p.kind = "response" /\ q.id = p.id /\ q.id \in inOrder[c]
          /\ ~IsCLITraffic(q) /\ ~IsCLITraffic(p)) =>
         /\ PassedFilters(c, p) => q \in delivered[c]
         /\ q \in delivered[c] /\ ~args.rateLimit => p \in delivered[c] \/ processing[c] = p

(* What is known of one chain. *)
SoundChain(c) == FlowInv(c) /\ EventsInv(c) /\ FilterInv(c) /\ PairInv(c)

(* The inductive invariant: besides the chains, what the counters that     *)
(* they share hold and for whom they were updated.                         *)
ChainIInv == ChainTypes /\ CountersInv /\ UpdatesInv /\ \A c \in Collectors : SoundChain(c)

(* No step changes the arguments, nor what depends on them alone. *)
LEMMA SameArgs ==
  ASSUME args' = args
  PROVE  /\ \A i : Refusing(i)' = Refusing(i)
         /\ \A i : IsCLITraffic(i)' <=> IsCLITraffic(i)
         /\ \A i : IncludeSample(i)' <=> IncludeSample(i)
         /\ \A i : IsCounted(i)' <=> IsCounted(i)
         /\ HasUserFilters' <=> HasUserFilters
<1>1. ASSUME NEW i PROVE Refusing(i)' = Refusing(i)
  BY DEF Refusing, FilterFunc
<1>2. ASSUME NEW i PROVE IsCLITraffic(i)' <=> IsCLITraffic(i)
  BY DEF IsCLITraffic
<1>3. ASSUME NEW i PROVE IncludeSample(i)' <=> IncludeSample(i)
  BY DEF IncludeSample
<1>4. ASSUME NEW i PROVE IsCounted(i)' <=> IsCounted(i)
  BY DEF IsCounted, IncludeHostName
<1>5. HasUserFilters' <=> HasUserFilters
  BY DEF HasUserFilters
<1> QED
  BY <1>1, <1>2, <1>3, <1>4, <1>5

(* What the other chains do leaves chain d as it was. *)
LEMMA OtherChain ==
  ASSUME NEW d, SoundChain(d), args' = args, seen'[d] = seen[d], processing'[d] = processing[d],
         stage'[d] = stage[d], filteredIDs'[d] = filteredIDs[d], arrivals'[d] = arrivals[d],
         har'[d] = har[d], written'[d] = written[d], closed'[d] = closed[d],
         inOrder'[d] = inOrder[d], delivered'[d] = delivered[d],
         \A n, i : <<n, d, i>> \in counted' <=> <<n, d, i>> \in counted
  PROVE  SoundChain(d)'
<1> USE SameArgs DEF SoundChain
<1>1. FlowInv(d)'
  BY DEF FlowInv
<1>2. \A i : /\ PassedFilters(d, i)' <=> PassedFilters(d, i)
             /\ PassedCounter(d, i)' <=> PassedCounter(d, i)
  BY DEF PassedFilters, PassedCounter
<1>3. EventsInv(d)'
  BY <1>2 DEF EventsInv
<1>4. FilterInv(d)'
  BY <1>2 DEF FilterInv
<1>5. PairInv(d)'
  BY <1>2 DEF PairInv
<1> QED
  BY <1>1, <1>3, <1>4, <1>5

LEMMA SameCounters ==
  ASSUME CountersInv, counters' = counters, counted' = counted
  PROVE  CountersInv'
<1>1. \A n : EventsOf(n)' = EventsOf(n)
  BY DEF EventsOf
<1>2. ASSUME NEW n
      PROVE  /\ PortUpdates(n)' = PortUpdates(n) /\ InterfaceUpdates(n)' = InterfaceUpdates(n)
             /\ HostUpdates(n)' = HostUpdates(n)
  BY <1>1 DEF PortUpdates, InterfaceUpdates, HostUpdates
<1> QED
  BY <1>1, <1>2 DEF CountersInv

(* A step that counts at most item i of chain c, in counter n, which has   *)
(* not been updated for it before.                                         *)
LEMMA CountInStep ==
  ASSUME ChainIInv, NEW n \in Names, NEW c \in Collectors, NEW i \in Items,
         CountIn(n, c, i), <<n, c, i>> \notin counted
  PROVE  /\ CountersInv'
         /\ counted' = IF IsCounted(i) THEN counted \cup {<<n, c, i>>} ELSE counted
<1>1. CASE IsCounted(i)
  <2>1. /\ counters' = [counters EXCEPT ![n] = Update(@, DeltaOf(c, i))]
        /\ counted' = counted \cup {<<n, c, i>>}
    BY <1>1 DEF CountIn
  <2> QED
    BY <1>1, <2>1, UpdateTracks DEF ChainIInv
<1>2. CASE ~IsCounted(i)
  BY <1>2, SameCounters DEF CountIn, ChainIInv
<1> QED
  BY <1>1, <1>2

(* Updates stay those of seen items, if the new one is. *)
LEMMA UpdatesStep ==
  ASSUME ChainIInv, NEW n \in Names, NEW c \in Collectors, NEW i,
         args' = args, \A d \in Collectors : seen[d] \subseteq seen'[d],
         counted' \subseteq counted \cup {<<n, c, i>>},
         <<n, c, i>> \in counted' \ counted =>
            /\ i \in seen'[c] /\ IsCounted(i) /\ n \in {SummaryOf(c), "prefilter"}
            /\ n = "prefilter" => c.matched /\ i.kind \notin {"segment", "oversized"}
  PROVE  UpdatesInv'
<1> USE SameArgs DEF UpdatesInv, ChainIInv
<1> SUFFICES ASSUME NEW e \in counted'
             PROVE  /\ e = <<e[1], e[2], e[3]>> /\ e[1] \in Names /\ e[2] \in Collectors
                    /\ e[3] \in seen'[e[2]] /\ IsCounted(e[3])
                    /\ e[1] \in {SummaryOf(e[2]), "prefilter"}
                    /\ e[1] = "prefilter" => e[2].matched /\ e[3].kind \notin {"segment", "oversized"}
  OBVIOUS
<1>1. CASE e \in counted
  BY <1>1
<1>2. CASE e \notin counted
  <2>1. e = <<n, c, i>>
    BY <1>2
  <2> QED
    BY <1>2, <2>1
<1> QED
  BY <1>1, <1>2

LEMMA ChainInitial == ChainInit => ChainIInv
<1> SUFFICES ASSUME ChainInit PROVE ChainIInv
  OBVIOUS
<1>1. ChainTypes
  BY DEF ChainInit, ChainTypes
<1>2. CountersInv
  <2>1. ASSUME NEW n
        PROVE  /\ EventsOf(n) = {} /\ PortUpdates(n) = {} /\ InterfaceUpdates(n) = {} /\ HostUpdates(n) = {}
               /\ \A x : {e \in EventsOf(n) : MetricOf(e[3]) = x} = {}
    BY DEF ChainInit, EventsOf, PortUpdates, InterfaceUpdates, HostUpdates
  <2>2. IsFiniteSet({}) /\ Cardinality({}) = 0
    BY FS_EmptySet
  <2>3. /\ counters = [n \in Names |-> NewPacketCounter]
        /\ NewPacketCounter.total = ZeroCounts
        /\ NewPacketCounter.byPort = NewBoundedPacketCounter
        /\ NewPacketCounter.byInterface = NewBoundedPacketCounter
        /\ NewPacketCounter.byHost = NewBoundedPacketCounter
        /\ ZeroCounts \in Counts /\ \A x \in Metrics : ZeroCounts[x] = 0
    BY DEF ChainInit, Names, NewPacketCounter, ZeroCounts, Counts
  <2> QED
    BY <2>1, <2>2, <2>3, NewCounterTracks DEF CountersInv
<1>3. UpdatesInv
  BY DEF ChainInit, UpdatesInv
<1>4. ASSUME NEW c \in Collectors PROVE SoundChain(c)
  <2>1. /\ seen[c] = {} /\ processing[c] = NoItem /\ stage[c] = "filter" /\ arrivals[c] = {}
        /\ har[c] = {} /\ written[c] = FALSE /\ inOrder[c] = {} /\ delivered[c] = {}
        /\ \A f \in Filters : filteredIDs[c][f] = {}
    BY DEF ChainInit
  <2> QED
    BY <2>1 DEF SoundChain, FlowInv, EventsInv, FilterInv, PairInv
<1> QED
  BY <1>1, <1>2, <1>3, <1>4 DEF ChainIInv

LEMMA AsideKeeps ==
  ASSUME ChainIInv, NEW c \in Collectors, NEW i \in Items, CountAside(c, i),
         i.kind \in {"segment", "oversized"}
  PROVE  ChainIInv'
<1> USE DEF ChainIInv
<1>1. /\ i.on = c /\ i.kind \in {"segment", "oversized"} /\ i \notin seen[c] /\ args' = args
      /\ seen' = [seen EXCEPT ![c] = @ \cup {i}]
      /\ CountIn(SummaryOf(c), c, i)
      /\ UNCHANGED <<processing, stage, filteredIDs, arrivals, har, written, closed, inOrder, delivered>>
  BY DEF CountAside
<1>2. SummaryOf(c) \in Names /\ <<SummaryOf(c), c, i>> \notin counted
  <2>1. SummaryOf(c) \in Names
    BY DEF SummaryOf, Names
  <2> QED
    BY <1>1, <2>1 DEF UpdatesInv
<1>3. /\ CountersInv'
      /\ counted' = IF IsCounted(i) THEN counted \cup {<<SummaryOf(c), c, i>>} ELSE counted
  BY <1>1, <1>2, CountInStep
<1>4. ChainTypes'
  BY <1>1 DEF ChainTypes
<1>5. seen'[c] = seen[c] \cup {i} /\ \A d \in Collectors \ {c} : seen'[d] = seen[d]
  BY <1>1 DEF ChainTypes
<1>6. UpdatesInv'
  <2>1. \A d \in Collectors : seen[d] \subseteq seen'[d]
    BY <1>5
  <2>2. SummaryOf(c) # "prefilter"
    BY DEF SummaryOf
  <2> QED
    BY <1>1, <1>2, <1>3, <1>5, <2>1, <2>2, UpdatesStep
<1>7. ASSUME NEW d \in Collectors \ {c} PROVE SoundChain(d)'
  <2>1. \A n, j : <<n, d, j>> \in counted' <=> <<n, d, j>> \in counted
    BY <1>3
  <2> QED
    BY <1>1, <1>5, <2>1, OtherChain
<1>8. SoundChain(c)'
  <2> USE <1>1, SameArgs DEF SoundChain
  <2>1. FlowInv(c)'
    BY <1>5 DEF FlowInv
  <2>2. /\ \A j : PassedFilters(c, j)' <=> PassedFilters(c, j)
        /\ \A j : PassedCounter(c, j)' <=> PassedCounter(c, j)
        /\ ~PassedFilters(c, i)
    BY DEF PassedFilters, PassedCounter, FlowInv
  <2>3. EventsInv(c)'
    <3>1. \A n, j : j # i => (<<n, c, j>> \in counted' <=> <<n, c, j>> \in counted)
      BY <1>3
    <3> QED
      BY <1>5, <2>2, <3>1 DEF EventsInv
  <2>4. FilterInv(c)'
    BY <1>5, <2>2 DEF FilterInv
  <2>5. PairInv(c)'
    BY <1>5, <2>2 DEF PairInv
  <2> QED
    BY <2>1, <2>3, <2>4, <2>5
<1> QED
  BY <1>3, <1>4, <1>6, <1>7, <1>8

(* At most one request and one response of a chain have an id. *)
LEMMA OneOfAKind ==
  ASSUME ChainIInv, NEW c \in Collectors, NEW i \in seen[c], NEW j \in Items,
         IsHTTP(i), j.kind = i.kind, j.id = i.id, j.on = c
  PROVE  j = i
<1>1. i \in Items /\ i.on = c
  BY DEF ChainIInv, ChainTypes, SoundChain, FlowInv
<1> QED
  BY <1>1, ItemAssumption DEF IsHTTP

LEMMA ProcessKeeps ==
  ASSUME ChainIInv, NEW c \in Collectors, NEW i \in Items, Process(c, i)
  PROVE  ChainIInv'
<1> USE DEF ChainIInv
<1> DEFINE Answers == i.kind = "response" /\ \E q \in seen[c] : q.kind = "request" /\ q.id = i.id
<1>1. /\ i.on = c /\ i.kind \notin {"segment", "oversized"} /\ i \notin seen[c] /\ args' = args /\ processing[c] = NoItem
      /\ seen' = [seen EXCEPT ![c] = @ \cup {i}]
      /\ processing' = [processing EXCEPT ![c] = i]
      /\ inOrder' = [inOrder EXCEPT ![c] = IF Answers THEN @ \cup {i.id} ELSE @]
      /\ PrefilterCount(c, i)
      /\ UNCHANGED <<stage, filteredIDs, arrivals, har, written, closed, delivered>>
  BY DEF Process
<1>2. "prefilter" \in Names /\ <<"prefilter", c, i>> \notin counted /\ i # NoItem
  <2>1. "prefilter" \in Names
    BY DEF Names
  <2> QED
    BY <1>1, <2>1, ItemAssumption DEF UpdatesInv
<1>3. /\ CountersInv'
      /\ counted' = IF c.matched /\ HasUserFilters /\ IsCounted(i)
                    THEN counted \cup {<<"prefilter", c, i>>} ELSE counted
  <2>1. CASE c.matched /\ HasUserFilters
    BY <1>1, <1>2, <2>1, CountInStep DEF PrefilterCount
  <2>2. CASE ~(c.matched /\ HasUserFilters)
    BY <1>1, <2>2, SameCounters DEF PrefilterCount
  <2> QED
    BY <2>1, <2>2
<1> HIDE DEF Answers
<1>4. ChainTypes'
  <2>1. i.id \in Ids
    BY DEF Ids
  <2> QED
    BY <1>1, <2>1 DEF ChainTypes
<1>5. /\ seen'[c] = seen[c] \cup {i} /\ processing'[c] = i /\ stage[c] = "filter"
      /\ inOrder'[c] = IF Answers THEN inOrder[c] \cup {i.id} ELSE inOrder[c]
      /\ \A d \in Collectors \ {c} :
           seen'[d] = seen[d] /\ processing'[d] = processing[d] /\ inOrder'[d] = inOrder[d]
  BY <1>1 DEF ChainTypes, SoundChain, FlowInv
<1>6. UpdatesInv'
  <2>1. \A d \in Collectors : seen[d] \subseteq seen'[d]
    BY <1>5
  <2> QED
    BY <1>1, <1>2, <1>3, <1>5, <2>1, UpdatesStep
<1>7. ASSUME NEW d \in Collectors \ {c} PROVE SoundChain(d)'
  <2>1. \A n, j : <<n, d, j>> \in counted' <=> <<n, d, j>> \in counted
    BY <1>3
  <2> QED
    BY <1>1, <1>5, <2>1, OtherChain
<1>8. SoundChain(c)'
  <2> USE <1>1, SameArgs DEF SoundChain
  <2>1. FlowInv(c)'
    BY <1>2, <1>5 DEF FlowInv
  <2>items. \A j \in seen[c] : j # NoItem /\ j # i
    BY ItemAssumption DEF ChainTypes
  <2>2. /\ \A j : PassedFilters(c, j)' <=> PassedFilters(c, j)
        /\ \A j : PassedCounter(c, j)' <=> PassedCounter(c, j)
        /\ ~PassedFilters(c, i) /\ ~PassedCounter(c, i)
    BY <1>5 DEF PassedFilters, PassedCounter, FlowInv
  <2>3. EventsInv(c)'
    <3>1. \A n, j : j # i => (<<n, c, j>> \in counted' <=> <<n, c, j>> \in counted)
      BY <1>3
    <3>2. <<SummaryOf(c), c, i>> \notin counted'
      <4>1. <<SummaryOf(c), c, i>> \notin counted /\ SummaryOf(c) # "prefilter"
        BY DEF UpdatesInv, SummaryOf
      <4> QED
        BY <1>3, <4>1
    <3>3. HasUserFilters /\ c.matched /\ IsCounted(i) => <<"prefilter", c, i>> \in counted'
      BY <1>3
    <3> QED
      BY <1>5, <2>2, <3>1, <3>2, <3>3 DEF EventsInv
  <2>4. FilterInv(c)'
    BY <1>5, <2>2, <2>items DEF FilterInv
  <2>5. PairInv(c)'
    <3>1. ASSUME NEW id \in inOrder'[c]
          PROVE  \E q \in seen'[c] : q.kind = "request" /\ q.id = id /\ processing'[c] # q
      BY <1>5 DEF PairInv, Answers
    <3>2. ASSUME NEW q \in seen'[c], NEW p \in seen'[c],
                 q.kind = "request", p.kind = "response", q.id = p.id, q.id \in inOrder'[c],
                 ~IsCLITraffic(q), ~IsCLITraffic(p)
          PROVE  /\ PassedFilters(c, p) => q \in delivered[c]
                 /\ q \in delivered[c] /\ ~args.rateLimit => p \in delivered[c] \/ i = p
      <4>1. CASE p = i
        BY <2>2, <4>1
      <4>2. CASE p # i
        <5>1. p \in seen[c] /\ q \in Items /\ p \in Items
          BY <1>5, <4>2 DEF ChainTypes
        <5>2. q.id \in inOrder[c]
          <6>1. i.kind = "response" => i.id # p.id
            BY <1>1, <3>2, <4>2, <5>1, OneOfAKind DEF IsHTTP
          <6> QED
            BY <1>5, <3>2, <6>1 DEF Answers
        <5>3. PICK r \in seen[c] : r.kind = "request" /\ r.id = q.id
          BY <5>2 DEF PairInv
        <5>4. q = r
          <6>1. q.on = c
            BY <1>5, <1>1 DEF FlowInv
          <6> QED
            BY <3>2, <5>1, <5>3, <6>1, OneOfAKind DEF IsHTTP
        <5> QED
          BY <2>items, <3>2, <5>1, <5>2, <5>4 DEF PairInv
      <4> QED
        BY <4>1, <4>2
    <3> QED
      BY <1>5, <2>2, <3>1, <3>2 DEF PairInv
  <2> QED
    BY <2>1, <2>3, <2>4, <2>5
<1> QED
  BY <1>3, <1>4, <1>6, <1>7, <1>8

(* The outermost refusing filter is one of the filters. *)
LEMMA RefusingIsAFilter ==
  ASSUME NEW i, Refusing(i) # {}
  PROVE  FilterOrder[Min(Refusing(i))] \in Filters
<1>1. Refusing(i) \subseteq 1..4
  BY DEF Refusing, FilterOrder
<1>2. \E x \in Refusing(i) : \A y \in Refusing(i) : x <= y
  <2>1. CASE 1 \in Refusing(i)
    BY <1>1, <2>1
  <2>2. CASE 1 \notin Refusing(i) /\ 2 \in Refusing(i)
    BY <1>1, <2>2
  <2>3. CASE 1 \notin Refusing(i) /\ 2 \notin Refusing(i) /\ 3 \in Refusing(i)
    BY <1>1, <2>3
  <2>4. CASE 1 \notin Refusing(i) /\ 2 \notin Refusing(i) /\ 3 \notin Refusing(i)
    BY <1>1, <2>4
  <2> QED
    BY <2>1, <2>2, <2>3, <2>4
<1>3. Min(Refusing(i)) \in 1..4
  BY <1>1, <1>2 DEF Min
<1> HIDE DEF Refusing
<1> QED
  BY <1>3 DEF FilterOrder, Filters

(* What a step of Filter does to chain c and its item i: the item is       *)
(* dropped for a reason, or passes; what the filters and the rate limiter  *)
(* remember changes for its id only.                                       *)
FilterStep(c, i) ==
  /\ processing' = [processing EXCEPT ![c] = processing'[c]]
  /\ stage' = [stage EXCEPT ![c] = stage'[c]]
  /\ \/ processing'[c] = NoItem /\ stage'[c] = "filter"
     \/ processing'[c] = i /\ stage'[c] = "count"
  /\ filteredIDs' \in [Collectors -> [Filters -> SUBSET Ids]]
  /\ arrivals' \in [Collectors -> SUBSET Ids]
  /\ \A d \in Collectors \ {c} : filteredIDs'[d] = filteredIDs[d] /\ arrivals'[d] = arrivals[d]
  /\ \A f \in Filters :
       /\ filteredIDs[c][f] \subseteq filteredIDs'[c][f]
       /\ \A id \in filteredIDs'[c][f] \ filteredIDs[c][f] :
            id = i.id /\ i.kind = "request" /\ Refusing(i) # {}
  /\ \A id \in arrivals'[c] \ arrivals[c] : id = i.id /\ i.kind = "request"
  /\ processing'[c] = i =>
       /\ IncludeSample(i) /\ ~IsRefused(c, i)
       /\ args.rateLimit /\ i.kind = "response" => i.id \in arrivals[c]
  /\ processing'[c] = NoItem =>
       \/ IsCLITraffic(i)
       \/ \E f \in Filters : i.id \in filteredIDs'[c][f]
       \/ args.rateLimit /\ arrivals' = arrivals
       \/ ~IncludeSample(i)

LEMMA FilterOutcome ==
  ASSUME ChainIInv, NEW c \in Collectors, NEW i, i = processing[c], Filter(c)
  PROVE  FilterStep(c, i)
<1>1. /\ i \in Items /\ i # NoItem /\ stage[c] = "filter" /\ i.id \in Ids
      /\ processing \in [Collectors -> Items \cup {NoItem}]
      /\ stage \in [Collectors -> {"filter", "count", "sink"}]
      /\ filteredIDs \in [Collectors -> [Filters -> SUBSET Ids]]
      /\ arrivals \in [Collectors -> SUBSET Ids]
  BY DEF ChainIInv, ChainTypes, Filter, Ids
<1>drop. ASSUME Dropped(c)
         PROVE  /\ processing' = [processing EXCEPT ![c] = processing'[c]]
                /\ stage' = [stage EXCEPT ![c] = stage'[c]]
                /\ processing'[c] = NoItem /\ stage'[c] = "filter"
  BY <1>1, <1>drop DEF Dropped
<1> HIDE DEF Dropped
<1>2. CASE IsCLITraffic(i) /\ Dropped(c) /\ UNCHANGED <<filteredIDs, arrivals>>
  BY <1>1, <1>drop, <1>2 DEF FilterStep
<1>3. CASE Refused(c, i) /\ Dropped(c) /\ UNCHANGED arrivals
  <2>1. CASE /\ i.kind = "request" /\ Refusing(i) # {}
             /\ filteredIDs' = [filteredIDs EXCEPT ![c][FilterOrder[Min(Refusing(i))]] = @ \cup {i.id}]
    <3>1. PICK g \in Filters : g = FilterOrder[Min(Refusing(i))]
      BY <2>1, RefusingIsAFilter
    <3>2. filteredIDs' = [filteredIDs EXCEPT ![c][g] = @ \cup {i.id}]
      BY <2>1, <3>1
    <3>3. /\ filteredIDs' \in [Collectors -> [Filters -> SUBSET Ids]]
          /\ \A d \in Collectors \ {c} : filteredIDs'[d] = filteredIDs[d]
          /\ filteredIDs'[c][g] = filteredIDs[c][g] \cup {i.id}
          /\ \A f \in Filters \ {g} : filteredIDs'[c][f] = filteredIDs[c][f]
      BY <1>1, <3>2
    <3> QED
      BY <1>1, <1>drop, <1>3, <2>1, <3>3 DEF FilterStep
  <2>2. CASE /\ i.kind = "response" /\ \E f \in Filters : i.id \in filteredIDs[c][f]
             /\ UNCHANGED filteredIDs
    BY <1>1, <1>drop, <1>3, <2>2 DEF FilterStep
  <2> QED
    BY <1>3, <2>1, <2>2 DEF Refused
<1>4. CASE args.rateLimit /\ Dropped(c) /\ UNCHANGED <<filteredIDs, arrivals>>
  BY <1>1, <1>drop, <1>4 DEF FilterStep
<1>5. CASE /\ ~IsCLITraffic(i) /\ ~IsRefused(c, i) /\ RateLimitAllows(c, i) /\ UNCHANGED filteredIDs
           /\ IF IncludeSample(i) THEN stage' = [stage EXCEPT ![c] = "count"] /\ UNCHANGED processing
              ELSE Dropped(c)
  <2>1. /\ arrivals' \in [Collectors -> SUBSET Ids]
        /\ \A d \in Collectors \ {c} : arrivals'[d] = arrivals[d]
        /\ \A id \in arrivals'[c] \ arrivals[c] : id = i.id /\ i.kind = "request"
        /\ args.rateLimit /\ i.kind = "response" => i.id \in arrivals[c]
    <3>1. \/ arrivals' = arrivals
          \/ i.kind = "request" /\ arrivals' = [arrivals EXCEPT ![c] = @ \cup {i.id}]
          \/ arrivals' = [arrivals EXCEPT ![c] = @ \ {i.id}]
      BY <1>5 DEF RateLimitAllows
    <3>2. args.rateLimit /\ i.kind = "response" => i.id \in arrivals[c]
      BY <1>5 DEF RateLimitAllows
    <3> QED
      BY <1>1, <3>1, <3>2
  <2>2. CASE IncludeSample(i)
    <3>1. processing' = processing /\ stage' = [stage EXCEPT ![c] = "count"]
      BY <1>5, <2>2
    <3> QED
      BY <1>1, <1>5, <2>1, <2>2, <3>1 DEF FilterStep
  <2>3. CASE ~IncludeSample(i)
    BY <1>1, <1>drop, <1>5, <2>1, <2>3 DEF FilterStep
  <2> QED
    BY <2>2, <2>3
<1> QED
  BY <1>2, <1>3, <1>4, <1>5 DEF Filter

LEMMA FilterKeeps ==
  ASSUME ChainIInv, NEW c \in Collectors, Filter(c)
  PROVE  ChainIInv'
<1> USE DEF ChainIInv
<1> DEFINE i == processing[c]
<1>1. /\ i # NoItem /\ stage[c] = "filter" /\ FilterStep(c, i)
      /\ args' = args /\ UNCHANGED <<seen, counters, har, written, closed, counted, inOrder, delivered>>
  BY FilterOutcome DEF Filter
<1>2. CountersInv' /\ UpdatesInv'
  BY <1>1, SameCounters, SameArgs DEF UpdatesInv
<1>3. ChainTypes'
  <2>1. processing'[c] \in Items \cup {NoItem} /\ stage'[c] \in {"filter", "count", "sink"}
    BY <1>1 DEF FilterStep, ChainTypes
  <2>2. /\ processing' \in [Collectors -> Items \cup {NoItem}]
        /\ stage' \in [Collectors -> {"filter", "count", "sink"}]
    <3>1. /\ processing' = [processing EXCEPT ![c] = processing'[c]]
          /\ stage' = [stage EXCEPT ![c] = stage'[c]]
      BY <1>1 DEF FilterStep
    <3> QED
      BY <2>1, <3>1 DEF ChainTypes
  <2>3. filteredIDs' \in [Collectors -> [Filters -> SUBSET Ids]] /\ arrivals' \in [Collectors -> SUBSET Ids]
    BY <1>1 DEF FilterStep
  <2> QED
    BY <1>1, <2>2, <2>3 DEF ChainTypes
<1>4. ASSUME NEW d \in Collectors \ {c} PROVE SoundChain(d)'
  <2>1. processing'[d] = processing[d] /\ stage'[d] = stage[d]
    BY <1>1 DEF FilterStep, ChainTypes
  <2> QED
    BY <1>1, <2>1, OtherChain DEF FilterStep
<1>5. \A j \in seen[c] : j \in Items /\ j # NoItem /\ j.on = c
  BY ItemAssumption DEF ChainTypes, SoundChain, FlowInv
<1>6. /\ i \in seen[c] /\ i \notin delivered[c]
      /\ \/ processing'[c] = NoItem /\ stage'[c] = "filter"
         \/ processing'[c] = i /\ stage'[c] = "count"
  BY <1>1 DEF FilterStep, SoundChain, FlowInv
<1> HIDE DEF i
<1>7. FlowInv(c)'
  BY <1>1, <1>6 DEF FlowInv, SoundChain, i
<1>8. /\ \A j : j # NoItem /\ PassedFilters(c, j)' => PassedFilters(c, j) \/ (j = i /\ processing'[c] = i)
      /\ \A j : j # NoItem => (PassedCounter(c, j)' <=> PassedCounter(c, j))
      /\ \A j : PassedFilters(c, j) => PassedFilters(c, j)'
  <2>1. stage[c] = "filter" /\ delivered' = delivered
    BY <1>1
  <2>2. /\ \A j : PassedFilters(c, j) <=> j \in delivered[c]
        /\ \A j : PassedCounter(c, j) <=> j \in delivered[c]
    BY <2>1 DEF PassedFilters, PassedCounter
  <2>3. /\ \A j : PassedFilters(c, j)' <=> j \in delivered[c] \/ (processing'[c] = j /\ stage'[c] # "filter")
        /\ \A j : PassedCounter(c, j)' <=> j \in delivered[c] \/ (processing'[c] = j /\ stage'[c] = "sink")
    BY <2>1 DEF PassedFilters, PassedCounter
  <2>4. CASE processing'[c] = NoItem /\ stage'[c] = "filter"
    BY <2>2, <2>3, <2>4
  <2>5. CASE processing'[c] = i /\ stage'[c] = "count"
    BY <2>2, <2>3, <2>5
  <2> QED
    BY <1>6, <2>4, <2>5
<1>9. EventsInv(c)'
  BY <1>1, <1>5, <1>8, SameArgs DEF EventsInv, SoundChain
<1>10. ASSUME NEW q \in seen[c], q.kind = "request", i.kind = "request", q.id = i.id
       PROVE  q = i
  BY <1>5, <1>6, <1>10, OneOfAKind DEF IsHTTP
<1>11. FilterInv(c)'
  <2> USE <1>1, SameArgs
  <2>1. ASSUME NEW f \in Filters, NEW id \in filteredIDs'[c][f]
        PROVE  \E r \in seen[c] : r.kind = "request" /\ r.id = id /\ Refusing(r) # {}
    BY <1>6 DEF FilterInv, SoundChain, FilterStep
  <2>2. ASSUME NEW id \in arrivals'[c]
        PROVE  \E r \in seen[c] : r.kind = "request" /\ r.id = id
                                  /\ ~(processing'[c] = r /\ stage'[c] = "filter")
    BY <1>5, <1>6 DEF FilterInv, SoundChain, FilterStep
  <2>3. ASSUME NEW j \in seen[c], PassedFilters(c, j)'
        PROVE  IncludeSample(j) /\ (j.kind = "request" => Refusing(j) = {})
    <3>1. CASE PassedFilters(c, j)
      BY <3>1 DEF FilterInv, SoundChain
    <3>2. CASE j = i /\ processing'[c] = i
      BY <3>2 DEF FilterStep, IsRefused
    <3> QED
      BY <1>5, <1>8, <2>3, <3>1, <3>2
  <2>4. ASSUME NEW q \in seen[c], q.kind = "request", ~IsCLITraffic(q), processing'[c] # q, q \notin delivered[c]
        PROVE  \/ \E f \in Filters : q.id \in filteredIDs'[c][f]
               \/ args.rateLimit /\ q.id \notin arrivals'[c]
               \/ ~IncludeSample(q)
    <3>1. CASE q = i
      <4>1. q.id \notin arrivals[c]
        <5>1. SUFFICES ASSUME q.id \in arrivals[c] PROVE FALSE
          OBVIOUS
        <5>2. PICK r \in seen[c] : r.kind = "request" /\ r.id = q.id /\ ~(processing[c] = r /\ stage[c] = "filter")
          BY <5>1 DEF FilterInv, SoundChain
        <5> QED
          BY <1>10, <2>4, <3>1, <5>2 DEF i
      <4> QED
        BY <1>6, <2>4, <3>1, <4>1 DEF FilterStep
    <3>2. CASE q # i
      <4>1. \/ \E f \in Filters : q.id \in filteredIDs[c][f]
            \/ args.rateLimit /\ q.id \notin arrivals[c]
            \/ ~IncludeSample(q)
        BY <2>4, <3>2 DEF FilterInv, SoundChain, i
      <4>2. q.id \notin arrivals[c] => q.id \notin arrivals'[c]
        BY <1>10, <2>4, <3>2 DEF FilterStep
      <4> QED
        BY <4>1, <4>2 DEF FilterStep
    <3> QED
      BY <3>1, <3>2
  <2> QED
    BY <2>1, <2>2, <2>3, <2>4 DEF FilterInv
<1>12. PairInv(c)'
  <2> USE <1>1, SameArgs
  <2>1. ASSUME NEW id \in inOrder[c]
        PROVE  \E q \in seen[c] : q.kind = "request" /\ q.id = id /\ processing'[c] # q
    BY <1>5, <1>6 DEF PairInv, SoundChain, i
  <2>2. ASSUME NEW q \in seen[c], NEW p \in seen[c],
               q.kind = "request", p.kind = "response", q.id = p.id, q.id \in inOrder[c],
               ~IsCLITraffic(q), ~IsCLITraffic(p)
        PROVE  /\ PassedFilters(c, p)' => q \in delivered[c]
               /\ q \in delivered[c] /\ ~args.rateLimit => p \in delivered[c] \/ processing'[c] = p
    <3>0. /\ PassedFilters(c, p) => q \in delivered[c]
          /\ q \in delivered[c] /\ ~args.rateLimit => p \in delivered[c] \/ i = p
      BY <2>2 DEF PairInv, SoundChain, i
    <3>1. CASE p # i
      <4>1. PassedFilters(c, p)' => PassedFilters(c, p)
        BY <1>5, <1>8, <3>1
      <4> QED
        BY <3>0, <3>1, <4>1
    <3>2. CASE p = i
      <4>1. ASSUME processing'[c] = i, q \notin delivered[c] PROVE FALSE
        <5>1. /\ IncludeSample(p) /\ ~\E f \in Filters : p.id \in filteredIDs[c][f]
              /\ args.rateLimit => p.id \in arrivals[c]
          BY <2>2, <3>2, <4>1 DEF FilterStep, IsRefused
        <5>2. \/ \E f \in Filters : q.id \in filteredIDs[c][f]
              \/ args.rateLimit /\ q.id \notin arrivals[c]
              \/ ~IncludeSample(q)
          BY <2>2, <3>2, <4>1 DEF FilterInv, SoundChain, i
        <5>3. IncludeSample(q) <=> IncludeSample(p)
          BY <2>2 DEF IncludeSample, SamplingKey
        <5> QED
          BY <2>2, <5>1, <5>2, <5>3
      <4>2. ASSUME q \in delivered[c], ~args.rateLimit, processing'[c] = NoItem PROVE FALSE
        <5>1. IncludeSample(q) /\ Refusing(q) = {}
          BY <2>2, <4>2 DEF FilterInv, SoundChain, PassedFilters
        <5>2. IncludeSample(q) <=> IncludeSample(p)
          BY <2>2 DEF IncludeSample, SamplingKey
        <5>3. PICK f \in Filters : p.id \in filteredIDs'[c][f]
          BY <2>2, <3>2, <4>2, <5>1, <5>2 DEF FilterStep
        <5>4. p.id \in filteredIDs[c][f]
          BY <2>2, <3>2, <5>3 DEF FilterStep
        <5>5. PICK r \in seen[c] : r.kind = "request" /\ r.id = q.id /\ Refusing(r) # {}
          BY <2>2, <5>4 DEF FilterInv, SoundChain
        <5>6. r = q
          BY <1>5, <2>2, <5>5, OneOfAKind DEF IsHTTP
        <5> QED
          BY <5>1, <5>5, <5>6
      <4>3. PassedFilters(c, p)' => processing'[c] = i
        BY <1>5, <1>6, <1>8, <3>2 DEF PassedFilters, i
      <4> QED
        BY <1>6, <3>2, <4>1, <4>2, <4>3
    <3> QED
      BY <3>1, <3>2
  <2> QED
    BY <2>1, <2>2 DEF PairInv
<1> QED
  BY <1>2, <1>3, <1>4, <1>7, <1>9, <1>11, <1>12 DEF SoundChain

LEMMA CountKeeps ==
  ASSUME ChainIInv, NEW c \in Collectors, Count(c)
  PROVE  ChainIInv'
<1> USE DEF ChainIInv
<1> DEFINE i == processing[c]
<1>1. /\ i # NoItem /\ stage[c] = "count" /\ args' = args
      /\ CountIn(SummaryOf(c), c, i)
      /\ stage' = [stage EXCEPT ![c] = "sink"]
      /\ UNCHANGED <<seen, processing, filteredIDs, arrivals, har, written, closed, inOrder, delivered>>
  BY DEF Count
<1>2. i \in seen[c] /\ i \in Items /\ i \notin delivered[c] /\ i.kind \notin {"segment", "oversized"}
  BY <1>1 DEF ChainTypes, SoundChain, FlowInv
<1>3. SummaryOf(c) \in Names /\ SummaryOf(c) # "prefilter" /\ <<SummaryOf(c), c, i>> \notin counted
  <2>1. SummaryOf(c) \in Names /\ SummaryOf(c) # "prefilter"
    BY DEF SummaryOf, Names
  <2>2. ~PassedCounter(c, i)
    BY <1>1, <1>2 DEF PassedCounter
  <2>3. <<SummaryOf(c), c, i>> \in counted => IsCounted(i)
    BY DEF UpdatesInv
  <2> QED
    BY <1>2, <2>1, <2>2, <2>3 DEF SoundChain, EventsInv
<1> HIDE DEF i
<1>4. /\ CountersInv'
      /\ counted' = IF IsCounted(i) THEN counted \cup {<<SummaryOf(c), c, i>>} ELSE counted
  BY <1>1, <1>2, <1>3, CountInStep
<1>5. ChainTypes'
  BY <1>1 DEF ChainTypes
<1>6. stage'[c] = "sink" /\ \A d \in Collectors \ {c} : stage'[d] = stage[d]
  BY <1>1 DEF ChainTypes
<1>7. UpdatesInv'
  <2>1. <<SummaryOf(c), c, i>> \in counted' \ counted => IsCounted(i) /\ i \in seen'[c]
    BY <1>1, <1>2, <1>4
  <2>2. counted' \subseteq counted \cup {<<SummaryOf(c), c, i>>} /\ \A d \in Collectors : seen[d] \subseteq seen'[d]
    BY <1>1, <1>4
  <2> QED
    BY <1>1, <1>3, <2>1, <2>2, UpdatesStep
<1>8. ASSUME NEW d \in Collectors \ {c} PROVE SoundChain(d)'
  <2>1. \A n, j : <<n, d, j>> \in counted' <=> <<n, d, j>> \in counted
    BY <1>4
  <2> QED
    BY <1>1, <1>6, <2>1, OtherChain
<1>9. /\ \A j : PassedFilters(c, j)' <=> PassedFilters(c, j)
      /\ \A j : PassedCounter(c, j)' <=> PassedCounter(c, j) \/ j = i
  BY <1>1, <1>6 DEF PassedFilters, PassedCounter, i
<1>10. FlowInv(c)'
  BY <1>1, <1>2, <1>6 DEF FlowInv, SoundChain, i
<1>11. EventsInv(c)'
  <2>1. \A n, j : n # SummaryOf(c) \/ j # i => (<<n, c, j>> \in counted' <=> <<n, c, j>> \in counted)
    BY <1>4
  <2>2. IsCounted(i) => <<SummaryOf(c), c, i>> \in counted'
    BY <1>4
  <2> QED
    BY <1>1, <1>3, <1>9, <2>1, <2>2, SameArgs DEF EventsInv, SoundChain
<1>12. FilterInv(c)'
  BY <1>1, <1>6, <1>9, SameArgs DEF FilterInv, SoundChain
<1>13. PairInv(c)'
  BY <1>1, <1>9, SameArgs DEF PairInv, SoundChain
<1> QED
  BY <1>4, <1>5, <1>7, <1>8, <1>10, <1>11, <1>12, <1>13 DEF SoundChain

LEMMA SinkKeeps ==
  ASSUME ChainIInv, NEW c \in Collectors, Sink(c)
  PROVE  ChainIInv'
<1> USE DEF ChainIInv
<1> DEFINE i == processing[c]
<1>1. /\ i # NoItem /\ stage[c] = "sink" /\ args' = args
      /\ har' = [har EXCEPT ![c] = Record(c, i)]
      /\ delivered' = [delivered EXCEPT ![c] = @ \cup {i}]
      /\ processing' = [processing EXCEPT ![c] = NoItem]
      /\ stage' = [stage EXCEPT ![c] = "filter"]
      /\ UNCHANGED <<seen, filteredIDs, arrivals, counters, written, closed, counted, inOrder>>
  BY DEF Sink
<1>2. i \in seen[c] /\ i \in Items
  BY <1>1 DEF ChainTypes, SoundChain, FlowInv
<1>3. Record(c, i) = IF c.matched /\ args.local /\ IsHTTP(i) THEN har[c] \cup {i} ELSE har[c]
  BY DEF Record, IsHTTP
<1>4. CountersInv' /\ UpdatesInv'
  BY <1>1, SameCounters, SameArgs DEF UpdatesInv
<1>5. ChainTypes'
  BY <1>1, <1>2, <1>3 DEF ChainTypes
<1>6. /\ har'[c] = Record(c, i) /\ delivered'[c] = delivered[c] \cup {i} /\ processing'[c] = NoItem
      /\ stage'[c] = "filter"
      /\ \A d \in Collectors \ {c} : /\ har'[d] = har[d] /\ delivered'[d] = delivered[d]
                                     /\ processing'[d] = processing[d] /\ stage'[d] = stage[d]
  BY <1>1 DEF ChainTypes
<1>7. ASSUME NEW d \in Collectors \ {c} PROVE SoundChain(d)'
  BY <1>1, <1>6, OtherChain
<1>8. \A j \in seen[c] : j \in Items /\ j # NoItem /\ j.on = c
  BY ItemAssumption DEF ChainTypes, SoundChain, FlowInv
<1>9. \A j \in seen[c] : /\ PassedFilters(c, j)' <=> PassedFilters(c, j)
                         /\ PassedCounter(c, j)' <=> PassedCounter(c, j)
  BY <1>1, <1>6, <1>8 DEF PassedFilters, PassedCounter
<1> HIDE DEF i
<1>10. FlowInv(c)'
  BY <1>1, <1>2, <1>3, <1>6 DEF FlowInv, SoundChain
<1>11. EventsInv(c)'
  BY <1>1, <1>9, SameArgs DEF EventsInv, SoundChain
<1>12. FilterInv(c)'
  BY <1>1, <1>6, <1>8, <1>9, SameArgs DEF FilterInv, SoundChain, i
<1>13. PairInv(c)'
  <2> USE <1>1, SameArgs
  <2>1. ASSUME NEW id \in inOrder[c]
        PROVE  \E q \in seen[c] : q.kind = "request" /\ q.id = id /\ processing'[c] # q
    BY <1>6, <1>8 DEF PairInv, SoundChain
  <2>2. ASSUME NEW q \in seen[c], NEW p \in seen[c],
               q.kind = "request", p.kind = "response", q.id = p.id, q.id \in inOrder[c],
               ~IsCLITraffic(q), ~IsCLITraffic(p)
        PROVE  /\ PassedFilters(c, p) => q \in delivered'[c]
               /\ q \in delivered'[c] /\ ~args.rateLimit => p \in delivered'[c]
    <3>1. PICK r \in seen[c] : r.kind = "request" /\ r.id = q.id /\ processing[c] # r
      BY <2>2 DEF PairInv, SoundChain
    <3>2. r = q
      BY <1>8, <2>2, <3>1, OneOfAKind DEF IsHTTP
    <3>3. q # i
      BY <3>1, <3>2 DEF i
    <3> QED
      BY <1>6, <2>2, <3>3 DEF PairInv, SoundChain, i
  <2> QED
    BY <1>9, <2>1, <2>2 DEF PairInv
<1> QED
  BY <1>4, <1>5, <1>7, <1>10, <1>11, <1>12, <1>13 DEF SoundChain

LEMMA CloseKeeps ==
  ASSUME ChainIInv, NEW c \in Collectors, Close(c)
  PROVE  ChainIInv'
<1> USE DEF ChainIInv
<1>1. /\ args' = args
      /\ closed' = [closed EXCEPT ![c] = TRUE]
      /\ written' = [written EXCEPT ![c] = Entries(har[c]) # {}]
      /\ UNCHANGED <<seen, processing, stage, filteredIDs, arrivals, counters, har, counted, inOrder, delivered>>
  BY DEF Close
<1>2. CountersInv' /\ UpdatesInv'
  BY <1>1, SameCounters, SameArgs DEF UpdatesInv
<1>3. ChainTypes'
  BY <1>1 DEF ChainTypes
<1>4. /\ closed'[c] = TRUE /\ written'[c] = (Entries(har[c]) # {})
      /\ \A d \in Collectors \ {c} : closed'[d] = closed[d] /\ written'[d] = written[d]
  BY <1>1 DEF ChainTypes
<1>5. ASSUME NEW d \in Collectors \ {c} PROVE SoundChain(d)'
  BY <1>1, <1>4, OtherChain
<1>6. Entries(har[c]) # {} => har[c] # {}
  BY DEF Entries
<1>7. FlowInv(c)'
  BY <1>1, <1>4, <1>6 DEF FlowInv, SoundChain
<1>8. \A j : /\ PassedFilters(c, j)' <=> PassedFilters(c, j)
             /\ PassedCounter(c, j)' <=> PassedCounter(c, j)
  BY <1>1 DEF PassedFilters, PassedCounter
<1>9. EventsInv(c)' /\ FilterInv(c)' /\ PairInv(c)'
  <2> USE <1>1, <1>8, SameArgs DEF SoundChain
  <2>1. EventsInv(c)'
    BY DEF EventsInv
  <2>2. FilterInv(c)'
    BY DEF FilterInv
  <2>3. PairInv(c)'
    BY DEF PairInv
  <2> QED
    BY <2>1, <2>2, <2>3
<1> QED
  BY <1>2, <1>3, <1>5, <1>7, <1>9 DEF SoundChain

LEMMA ChainStutters == ChainIInv /\ UNCHANGED chainVars => ChainIInv'
<1> SUFFICES ASSUME ChainIInv, UNCHANGED chainVars PROVE ChainIInv'
  OBVIOUS
<1> USE DEF chainVars, ChainIInv
<1>1. CountersInv' /\ UpdatesInv'
  BY SameCounters, SameArgs DEF UpdatesInv
<1>2. ChainTypes'
  BY DEF ChainTypes
<1>3. ASSUME NEW d \in Collectors PROVE SoundChain(d)'
  BY OtherChain
<1> QED
  BY <1>1, <1>2, <1>3

LEMMA ChainStep == ChainIInv /\ [ChainNext]_chainVars => ChainIInv'
<1> SUFFICES ASSUME ChainIInv, ChainNext PROVE ChainIInv'
  BY ChainStutters
<1> PICK c \in Collectors :
      \/ \E i \in Items : CountTcpPackets(c, i) \/ Process(c, i) \/ DropOversized(c, i)
      \/ Filter(c) \/ Count(c) \/ Sink(c) \/ Close(c)
  BY DEF ChainNext
<1>1. ASSUME NEW i \in Items, CountTcpPackets(c, i) \/ DropOversized(c, i)
      PROVE  ChainIInv'
  BY <1>1, AsideKeeps DEF CountTcpPackets, DropOversized
<1> QED
  BY <1>1, ProcessKeeps, FilterKeeps, CountKeeps, SinkKeeps, CloseKeeps

(* The inductive invariant holds in every reachable state, for any chains, *)
(* items, arguments and limits.                                            *)
THEOREM CollectorsTheorem == ChainSpec => []ChainIInv
BY ChainInitial, ChainStep, PTL DEF ChainSpec

(* A response after its request is delivered only if the request was, and  *)
(* always then unless the rate limiter has forgotten it.                   *)
THEOREM PairsTheorem == ChainSpec => []PairsTogether
<1>1. ChainIInv => PairsTogether
  BY DEF ChainIInv, SoundChain, PairInv, PairsTogether, PassedFilters
<1> QED
  BY <1>1, CollectorsTheorem, PTL

(* The maps of the counters are exact for the keys they track and complete *)
(* with their overflow, below, at and beyond their limit.                  *)
THEOREM CounterTheorem == ChainSpec => []CounterInv
<1> SUFFICES ASSUME ChainIInv PROVE CounterInv
  BY CollectorsTheorem, PTL
<1>1. DOMAIN counters = Names
  BY DEF ChainIInv, CountersInv
<1>2. ASSUME NEW n \in Names
      PROVE  /\ counters[n].total \in Counts
             /\ BoundedCounterOK(counters[n].byPort)
             /\ BoundedCounterOK(counters[n].byInterface)
             /\ BoundedCounterOK(counters[n].byHost)
             /\ IsExact(counters[n].byPort, PortUpdates(n))
             /\ IsExact(counters[n].byInterface, InterfaceUpdates(n))
             /\ IsExact(counters[n].byHost, HostUpdates(n))
             /\ IsComplete(counters[n].byPort, PortUpdates(n))
             /\ IsComplete(counters[n].byInterface, InterfaceUpdates(n))
             /\ IsComplete(counters[n].byHost, HostUpdates(n))
             /\ \A x \in Metrics : counters[n].total[x] = Cardinality({e \in EventsOf(n) : MetricOf(e[3]) = x})
  BY DEF ChainIInv, CountersInv, Tracks
<1>3. ASSUME NEW c \in Collectors
      PROVE  /\ seen[c] \subseteq Items /\ delivered[c] \subseteq seen[c]
             /\ processing[c] \in seen[c] \cup {NoItem}
             /\ stage[c] \in {"filter", "count", "sink"}
             /\ \A f \in Filters :
                  filteredIDs[c][f] \subseteq {i.id : i \in {q \in seen[c] : q.kind = "request"}}
             /\ har[c] \subseteq {i \in delivered[c] : i.kind \in {"request", "response"}}
             /\ written[c] => closed[c] /\ args.local
  <2> USE DEF ChainIInv, ChainTypes, SoundChain
  <2>1. /\ seen[c] \subseteq Items /\ delivered[c] \subseteq seen[c]
        /\ processing[c] \in seen[c] \cup {NoItem}
        /\ stage[c] \in {"filter", "count", "sink"}
        /\ har[c] \subseteq {i \in delivered[c] : i.kind \in {"request", "response"}}
        /\ written[c] => closed[c] /\ args.local
    BY DEF FlowInv, IsHTTP
  <2>2. ASSUME NEW f \in Filters, NEW id \in filteredIDs[c][f]
        PROVE  id \in {i.id : i \in {q \in seen[c] : q.kind = "request"}}
    BY DEF FilterInv
  <2> QED
    BY <2>1, <2>2
<1>4. args \in ArgSets
  BY DEF ChainIInv, ChainTypes
<1> QED
  BY <1>1, <1>2, <1>3, <1>4 DEF CounterInv, ChainTypeOK, TrackedIsExact, NothingUncounted

(* Every filtered event is an event before the filters, unless a segment.  *)
LEMMA PrefilterIsMore == ChainIInv => PrefilterDominates
<1> SUFFICES ASSUME ChainIInv, HasUserFilters, NEW x \in Metrics \ {"TCPPackets", "OversizedWitnesses"}
             PROVE  counters["prefilter"].total[x] >= counters["filter"].total[x]
  BY DEF PrefilterDominates
<1> DEFINE Of(n) == {e \in EventsOf(n) : MetricOf(e[3]) = x}
           g == [e \in Of("filter") |-> <<"prefilter", e[2], e[3]>>]
<1>1. /\ IsFiniteSet(Of("prefilter")) /\ IsFiniteSet(Of("filter"))
      /\ counters["prefilter"].total[x] = Cardinality(Of("prefilter"))
      /\ counters["filter"].total[x] = Cardinality(Of("filter"))
  <2>1. ASSUME NEW n \in Names
        PROVE  IsFiniteSet(Of(n)) /\ counters[n].total[x] = Cardinality(Of(n))
    <3>1. IsFiniteSet(EventsOf(n)) /\ counters[n].total[x] = Cardinality(Of(n))
      BY DEF ChainIInv, CountersInv
    <3> QED
      BY <3>1, FS_Subset
  <2>2. "prefilter" \in Names /\ "filter" \in Names
    BY DEF Names
  <2> QED
    BY <2>1, <2>2
<1>2. ASSUME NEW e \in Of("filter")
      PROVE  e = <<"filter", e[2], e[3]>> /\ <<"prefilter", e[2], e[3]>> \in Of("prefilter")
  <2>1. /\ e = <<"filter", e[2], e[3]>> /\ e[2] \in Collectors /\ e[3] \in seen[e[2]] /\ IsCounted(e[3])
        /\ SummaryOf(e[2]) = "filter" /\ MetricOf(e[3]) = x
    BY DEF EventsOf, ChainIInv, UpdatesInv
  <2>2. e[2].matched
    BY <2>1 DEF SummaryOf
  <2>3. e[3].kind \notin {"segment", "oversized"}
    BY <2>1 DEF MetricOf
  <2>4. <<"prefilter", e[2], e[3]>> \in counted
    BY <2>1, <2>2, <2>3 DEF ChainIInv, SoundChain, EventsInv
  <2> QED
    BY <2>1, <2>4 DEF EventsOf
<1>3. g \in Injection(Of("filter"), Of("prefilter"))
  <2>1. g \in [Of("filter") -> Of("prefilter")]
    BY <1>2
  <2>2. \A a, b \in Of("filter") : g[a] = g[b] => a = b
    BY <1>2
  <2> QED
    BY <2>1, <2>2 DEF Injection, IsInjective
<1>4. Cardinality(Of("filter")) <= Cardinality(Of("prefilter"))
  BY <1>1, <1>3, FS_Injection
<1>5. Cardinality(Of("filter")) \in Nat /\ Cardinality(Of("prefilter")) \in Nat
  BY <1>1, FS_CardinalityType
<1> QED
  BY <1>1, <1>4, <1>5

(* What is at the sinks of the matched chains, or between counter and      *)
(* sink, is what was counted for them.                                     *)
LEMMA DeliveriesAreCounted == ChainIInv => SummaryCountsDeliveries
<1> SUFFICES ASSUME ChainIInv, NEW kind \in {"request", "response"}
             PROVE  counters["filter"].total[MetricOf([kind |-> kind])] =
                      Cardinality({d \in Collectors \X Items :
                        /\ d[1].matched /\ d[2].kind = kind
                        /\ \/ d[2] \in delivered[d[1]]
                           \/ processing[d[1]] = d[2] /\ stage[d[1]] = "sink"})
  BY DEF SummaryCountsDeliveries
<1> DEFINE x == MetricOf([kind |-> kind])
           E == {e \in EventsOf("filter") : MetricOf(e[3]) = x}
           T == {d \in Collectors \X Items :
                   /\ d[1].matched /\ d[2].kind = kind
                   /\ \/ d[2] \in delivered[d[1]]
                      \/ processing[d[1]] = d[2] /\ stage[d[1]] = "sink"}
           g == [d \in T |-> <<"filter", d[1], d[2]>>]
<1>1. x \in Metrics /\ x = IF kind = "request" THEN "HTTPRequests" ELSE "HTTPResponses"
  BY DEF MetricOf, Metrics
<1>2. \A i \in Items : IsCounted(i) => (MetricOf(i) = x <=> i.kind = kind)
  BY <1>1, ItemAssumption DEF IsCounted, MetricOf, Kinds
<1>3. \A i \in Items : i.kind = kind => IsCounted(i) /\ i.kind \notin {"segment", "oversized"}
  BY DEF IsCounted
<1> HIDE DEF x
<1>4. IsFiniteSet(E) /\ counters["filter"].total[x] = Cardinality(E)
  <2>1. "filter" \in Names
    BY DEF Names
  <2>2. IsFiniteSet(EventsOf("filter")) /\ counters["filter"].total[x] = Cardinality(E)
    BY <1>1, <2>1 DEF ChainIInv, CountersInv
  <2> QED
    BY <2>2, FS_Subset
<1>5. ASSUME NEW c \in Collectors, NEW i \in Items, i.kind = kind
      PROVE  <<c, i>> \in T <=> <<"filter", c, i>> \in E
  <2>1. PassedCounter(c, i) => i \in seen[c]
    BY ItemAssumption DEF ChainIInv, SoundChain, FlowInv, PassedCounter
  <2>2. <<"filter", c, i>> \in counted => i \in seen[c] /\ SummaryOf(c) = "filter"
    BY DEF ChainIInv, UpdatesInv
  <2>3. c.matched <=> SummaryOf(c) = "filter"
    BY DEF SummaryOf
  <2>4. i \in seen[c] => (<<SummaryOf(c), c, i>> \in counted <=> PassedCounter(c, i))
    BY <1>3, <1>5 DEF ChainIInv, SoundChain, EventsInv
  <2>5. <<c, i>> \in T <=> c.matched /\ PassedCounter(c, i)
    BY <1>5 DEF PassedCounter
  <2>6. <<"filter", c, i>> \in E <=> <<"filter", c, i>> \in counted
    BY <1>2, <1>3, <1>5 DEF EventsOf
  <2> QED
    BY <2>1, <2>2, <2>3, <2>4, <2>5, <2>6
<1>6. ASSUME NEW d \in T
      PROVE  /\ d = <<d[1], d[2]>> /\ d[1] \in Collectors /\ d[2] \in Items /\ d[2].kind = kind
             /\ <<"filter", d[1], d[2]>> \in E
  <2>1. d = <<d[1], d[2]>> /\ d[1] \in Collectors /\ d[2] \in Items /\ d[2].kind = kind
    OBVIOUS
  <2>2. <<d[1], d[2]>> \in T
    BY <2>1
  <2> HIDE DEF T, E
  <2> QED
    BY <1>5, <2>1, <2>2
<1>7. ASSUME NEW e \in E PROVE e = <<"filter", e[2], e[3]>> /\ <<e[2], e[3]>> \in T
  <2>1. /\ e = <<"filter", e[2], e[3]>> /\ e[2] \in Collectors /\ e[3] \in seen[e[2]] /\ IsCounted(e[3])
        /\ MetricOf(e[3]) = x
    BY DEF EventsOf, ChainIInv, UpdatesInv
  <2>2. e[3] \in Items
    BY <2>1 DEF ChainIInv, ChainTypes
  <2>3. e[3].kind = kind
    BY <1>2, <2>1, <2>2
  <2>4. <<"filter", e[2], e[3]>> \in E
    BY <2>1
  <2> HIDE DEF T, E
  <2> QED
    BY <1>5, <2>1, <2>2, <2>3, <2>4
<1> HIDE DEF T, E
<1>8. g \in Injection(T, E)
  <2>1. g \in [T -> E]
    BY <1>6
  <2>2. \A a, b \in T : g[a] = g[b] => a = b
    BY <1>6
  <2> QED
    BY <2>1, <2>2 DEF Injection, IsInjective
<1>9. g \in Surjection(T, E)
  <2>1. \A e \in E : \E d \in T : g[d] = e
    <3> TAKE e \in E
    <3>1. <<e[2], e[3]>> \in T /\ g[<<e[2], e[3]>>] = <<"filter", e[2], e[3]>>
      BY <1>7
    <3> QED
      BY <1>7, <3>1
  <2> QED
    BY <1>6, <2>1 DEF Surjection
<1>10. Cardinality(T) = Cardinality(E)
  BY <1>4, <1>8, <1>9, FS_Injection
<1> QED
  BY <1>4, <1>10 DEF T, x

(* A finite set with an element has a positive cardinality. *)
LEMMA SomeIsPositive ==
  ASSUME NEW S, IsFiniteSet(S), NEW s \in S
  PROVE  Cardinality(S) \in Nat /\ Cardinality(S) > 0
BY FS_EmptySet, FS_CardinalityType

(* A file has an entry, and the entry's request was counted. *)
LEMMA FilesAreCounted == ChainIInv => EmptyWritesNothing
<1> SUFFICES ASSUME ChainIInv, NEW c \in Collectors, written[c]
             PROVE  ~IsEmpty(counters["filter"])
  BY DEF EmptyWritesNothing
<1>1. PICK i \in delivered[c] : IsHTTP(i) /\ c.matched /\ i \in seen[c]
  BY DEF ChainIInv, SoundChain, FlowInv
<1>2. IsCounted(i) /\ i.kind \notin {"segment", "oversized"}
  BY <1>1 DEF IsHTTP, IsCounted
<1>3. <<"filter", c, i>> \in EventsOf("filter")
  BY <1>1, <1>2 DEF ChainIInv, SoundChain, EventsInv, PassedCounter, SummaryOf, EventsOf
<1> DEFINE x == MetricOf(i)
           E == {e \in EventsOf("filter") : MetricOf(e[3]) = x}
<1>4. x \in Metrics /\ x \in {"HTTPRequests", "HTTPResponses"}
  BY <1>1 DEF MetricOf, Metrics, IsHTTP
<1>5. <<"filter", c, i>> \in E
  BY <1>3
<1>6. IsFiniteSet(E) /\ counters["filter"].total[x] = Cardinality(E)
  <2>1. "filter" \in Names
    BY DEF Names
  <2>2. IsFiniteSet(EventsOf("filter")) /\ counters["filter"].total[x] = Cardinality(E)
    BY <1>4, <2>1 DEF ChainIInv, CountersInv
  <2> QED
    BY <2>2, FS_Subset
<1> HIDE DEF E, x
<1>7. counters["filter"].total[x] # 0
  BY <1>5, <1>6, SomeIsPositive
<1> QED
  BY <1>4, <1>7 DEF IsEmpty

(* The metrics that have a host. *)
LEMMA HostsHaveTraffic == ChainIInv => HostShareDefined
<1> SUFFICES ASSUME ChainIInv, NEW n \in Names, NEW h \in DOMAIN counters[n].byHost.m
             PROVE  LET m == counters[n].byHost.m[h]
                    IN  m["HTTPRequests"] + m["HTTPResponses"] + m["TLSHello"] > 0
  BY DEF HostShareDefined, ChainIInv, CountersInv
<1> DEFINE bc == counters[n].byHost
           U == HostUpdates(n)
<1>1. Tracks(bc, U)
  BY DEF ChainIInv, CountersInv
<1>2. PICK u \in U : u.key = h
  BY <1>1 DEF Tracks
<1>3. u.metric \in {"HTTPRequests", "TLSHello"}
  <2>1. PICK e \in EventsOf(n) : HostOf(e[3]) # NoHost /\ u.metric = MetricOf(e[3])
    BY DEF HostUpdates
  <2> QED
    BY <2>1 DEF HostOf, MetricOf
<1>4. /\ bc.m[h] \in Counts
      /\ \A x \in Metrics : bc.m[h][x] = Cardinality({v \in U : v.key = h /\ v.metric = x})
      /\ IsFiniteSet(U)
  BY <1>1 DEF Tracks, IsExact, BoundedCounterOK, TotalOn
<1>5. u.metric \in Metrics
  BY <1>3 DEF Metrics
<1> HIDE DEF bc, U
<1>6. bc.m[h][u.metric] > 0
  <2> DEFINE S == {v \in U : v.key = h /\ v.metric = u.metric}
  <2>1. IsFiniteSet(S) /\ u \in S
    BY <1>2, <1>4, FS_Subset
  <2>2. bc.m[h][u.metric] = Cardinality(S)
    BY <1>4, <1>5
  <2> HIDE DEF S
  <2> QED
    BY <2>1, <2>2, SomeIsPositive
<1>7. bc.m[h]["HTTPRequests"] \in Nat /\ bc.m[h]["HTTPResponses"] \in Nat /\ bc.m[h]["TLSHello"] \in Nat
  BY <1>4 DEF Counts, Metrics
<1> QED
  BY <1>3, <1>6, <1>7 DEF bc

(* The overflow of a map that is not at its limit is empty. *)
LEMMA NoOverflow ==
  ASSUME NEW bc, NEW U, Tracks(bc, U), ~HasReachedLimit(bc)
  PROVE  bc.overflow = ZeroCounts
<1>1. \A u \in U : u.key \in DOMAIN bc.m
  BY DEF Tracks
<1>2. ASSUME NEW x \in Metrics PROVE bc.overflow[x] = 0
  <2>1. {u \in U : u.key \notin DOMAIN bc.m /\ u.metric = x} = {}
    BY <1>1
  <2>2. bc.overflow[x] = Cardinality({u \in U : u.key \notin DOMAIN bc.m /\ u.metric = x})
    BY DEF Tracks, IsComplete
  <2> QED
    BY <2>1, <2>2, FS_EmptySet
<1>3. bc.overflow \in [Metrics -> Nat]
  BY DEF Tracks, BoundedCounterOK, Counts
<1> QED
  BY <1>2, <1>3 DEF ZeroCounts

LEMMA TheTopIsListed == ChainIInv => TopNIsTop
<1> SUFFICES ASSUME ChainIInv, NEW n \in 0..maxKeys, NEW s, s = counters["filter"]
             PROVE  /\ IsTop(Summary(s, n).TopByPort, ByTCPPackets(s.byPort), n)
                    /\ IsTop(Summary(s, n).TopByHost, ByHTTP(s.byHost), n)
                    /\ Summary(s, n).ByPortOverflow = {} => s.byPort.overflow = ZeroCounts
                    /\ Summary(s, n).ByHostOverflow = {} => s.byHost.overflow = ZeroCounts
  BY DEF TopNIsTop
<1> DEFINE P == PortUpdates("filter")
           H == HostUpdates("filter")
<1>1. n \in Nat /\ "filter" \in Names
  BY KeysAssumption DEF Names
<1>2. Tracks(s.byPort, P) /\ Tracks(s.byHost, H)
  BY <1>1 DEF ChainIInv, CountersInv
<1>3. ASSUME NEW e \in EventsOf("filter")
      PROVE  e[3].src \in Int /\ e[3].dst \in Int /\ (HostOf(e[3]) # NoHost => HostOf(e[3]) \in Int)
  <2>1. e[3] \in Items
    BY DEF EventsOf, ChainIInv, UpdatesInv, ChainTypes
  <2> QED
    BY <2>1, ItemAssumption DEF HostOf
<1>4. (\A u \in P : u.key \in Int) /\ (\A u \in H : u.key \in Int)
  <2>1. ASSUME NEW u \in P PROVE u.key \in Int
    BY <1>3 DEF PortUpdates
  <2>2. ASSUME NEW u \in H PROVE u.key \in Int
    BY <1>3 DEF HostUpdates
  <2> QED
    BY <2>1, <2>2
<1> HIDE DEF P, H
<1>5. /\ DOMAIN s.byPort.m \subseteq Int /\ IsFiniteSet(DOMAIN s.byPort.m)
      /\ DOMAIN s.byHost.m \subseteq Int /\ IsFiniteSet(DOMAIN s.byHost.m)
      /\ \A k \in DOMAIN s.byPort.m : s.byPort.m[k] \in Counts
      /\ \A k \in DOMAIN s.byHost.m : s.byHost.m[k] \in Counts
  BY <1>2, <1>4 DEF Tracks, BoundedCounterOK
<1>6. \A m \in Counts : m["TCPPackets"] \in Nat /\ m["HTTPRequests"] + m["TLSHello"] \in Nat
  BY DEF Counts, Metrics
<1>7. /\ ByTCPPackets(s.byPort) \in [DOMAIN s.byPort.m -> Nat]
      /\ ByHTTP(s.byHost) \in [DOMAIN s.byHost.m -> Nat]
  BY <1>5, <1>6 DEF ByTCPPackets, ByHTTP
<1>8. IsTop(TopN(ByTCPPackets(s.byPort), n), ByTCPPackets(s.byPort), n)
  BY <1>1, <1>5, <1>7, TopNTakesTheTop
<1>9. IsTop(TopN(ByHTTP(s.byHost), n), ByHTTP(s.byHost), n)
  BY <1>1, <1>5, <1>7, TopNTakesTheTop
<1>10. GetOverflow(s.byPort) = {} => s.byPort.overflow = ZeroCounts
  BY <1>2, NoOverflow DEF GetOverflow
<1>11. GetOverflow(s.byHost) = {} => s.byHost.overflow = ZeroCounts
  BY <1>2, NoOverflow DEF GetOverflow
<1> QED
  BY <1>8, <1>9, <1>10, <1>11 DEF Summary

(* The totals of the shared counters agree with what the chains have seen  *)
(* and delivered, and so does what the summary computes from them at the   *)
(* end.                                                                    *)
THEOREM SummaryTheorem == ChainSpec => []SummaryIsSound
<1>1. ChainIInv => SummaryIsSound
  BY PrefilterIsMore, DeliveriesAreCounted, TheTopIsListed, FilesAreCounted, HostsHaveTraffic
     DEF SummaryIsSound
<1> QED
  BY <1>1, CollectorsTheorem, PTL
=============================================================================
