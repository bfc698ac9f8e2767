---------------------------- MODULE CommandProofs ---------------------------
(***************************************************************************)
(* Proofs about the two commands whose control is a state machine of its   *)
(* own.                                                                    *)
(*                                                                         *)
(* ApiDump, for any interfaces and arguments: the verdict comes last and   *)
(* is true, an error stops nobody else, and the collectors' learn sessions *)
(* stay together.                                                          *)
(*                                                                         *)
(* ECSAdd, for any regions, clusters, task families, services and command  *)
(* lines: what is changed fits together and was wanted, and what is said   *)
(* in the end is what was done and last seen.                              *)
(***************************************************************************)
EXTENDS ApiDump, ECSAdd, FiniteSetTheorems, TLAPS

-----------------------------------------------------------------------------
(* The session *)

FailedCollectors == {c \in AllCollectors : col[c] = "failed"}

(* Interfaces whose error is received or waits to be. *)
Erroneous == errors \cup {errChan[n] : n \in 1..Len(errChan)}

(* Only collectors of the session were started; each error is that of a    *)
(* collector, and no collector has two.                                    *)
CollectorInv ==
  /\ pc = "start" => \A c \in AllCollectors : col[c] = "none"
  /\ \A c \in AllCollectors : col[c] # "none" => c \in Collectors(eligible)
  /\ Len(errChan) <= Cardinality(FailedCollectors)
  /\ \A i \in Erroneous : \E c \in Collectors({i}) : col[c] = "failed"

(* A collector has the newest learn session unless it is still to be       *)
(* switched; then it has the one before.                                   *)
RotationInv ==
  /\ pc = "start" => session = 1 /\ toSwitch = {} /\ \A c \in AllCollectors : sessions[c] = 1
  /\ toSwitch \subseteq Rotating
  /\ \A c \in Rotating : sessions[c] = IF c \in toSwitch THEN session - 1 ELSE session

SessionIInv == VerdictInv /\ CollectorInv /\ RotationInv

(* The collectors of some interfaces: at least as many as those, one or    *)
(* two of each.                                                            *)
LEMMA CollectorFacts ==
  ASSUME NEW ifs \in SUBSET Interfaces
  PROVE  /\ IsFiniteSet(ifs) /\ IsFiniteSet(Collectors(ifs))
         /\ Collectors(ifs) \subseteq AllCollectors
         /\ \A c \in Collectors(ifs) : c.interface \in ifs /\ c \in Collectors({c.interface})
         /\ \A i \in ifs : Matched(i) \in Collectors(ifs)
         /\ Cardinality(ifs) <= Cardinality(Collectors(ifs))
<1> USE DEF Matched, Unmatched
<1> DEFINE M == {Matched(i) : i \in ifs}
           U == {Unmatched(i) : i \in ifs}
           f == [i \in ifs |-> Matched(i)]
           g == [i \in ifs |-> Unmatched(i)]
<1>1. IsFiniteSet(ifs)
  BY FS_Subset, ApiDumpAssumption
<1>2. f \in Surjection(ifs, M) /\ g \in Surjection(ifs, U) /\ f \in Injection(ifs, M)
  BY DEF Surjection, Injection, IsInjective
<1>3. IsFiniteSet(M) /\ IsFiniteSet(U)
  BY <1>1, <1>2, FS_Surjection
<1>4. IsFiniteSet(M \cup U)
  BY <1>3, FS_Union
<1>5. IsFiniteSet(Collectors(ifs)) /\ M \subseteq Collectors(ifs)
  BY <1>3, <1>4 DEF Collectors
<1>6. Cardinality(ifs) <= Cardinality(M) /\ Cardinality(M) <= Cardinality(Collectors(ifs))
  BY <1>2, <1>3, <1>5, FS_Injection, FS_Subset
<1>7. /\ Cardinality(ifs) \in Nat /\ Cardinality(M) \in Nat /\ Cardinality(Collectors(ifs)) \in Nat
  BY <1>1, <1>3, <1>5, FS_CardinalityType
<1>8. Cardinality(ifs) <= Cardinality(Collectors(ifs))
  BY <1>6, <1>7
<1>9. /\ Collectors(ifs) \subseteq AllCollectors
      /\ \A c \in Collectors(ifs) : c.interface \in ifs /\ c \in Collectors({c.interface})
      /\ \A i \in ifs : Matched(i) \in Collectors(ifs)
  BY DEF Collectors, AllCollectors
<1> QED
  BY <1>1, <1>5, <1>8, <1>9

(* Errors of as many interfaces as there are collectors are errors of all  *)
(* interfaces.                                                             *)
LEMMA AllErroneous ==
  ASSUME NEW ifs \in SUBSET Interfaces, NEW E \in SUBSET ifs,
         ~(Cardinality(E) < Cardinality(Collectors(ifs)))
  PROVE  E = ifs
<1>1. IsFiniteSet(ifs) /\ Cardinality(ifs) <= Cardinality(Collectors(ifs))
      /\ IsFiniteSet(Collectors(ifs))
  BY CollectorFacts
<1>2. Cardinality(E) <= Cardinality(ifs) /\ (Cardinality(ifs) = Cardinality(E) => ifs = E)
      /\ IsFiniteSet(E)
  BY <1>1, FS_Subset
<1>3. Cardinality(E) \in Nat /\ Cardinality(ifs) \in Nat /\ Cardinality(Collectors(ifs)) \in Nat
  BY <1>1, <1>2, FS_CardinalityType
<1> QED
  BY <1>1, <1>2, <1>3

(* errChan never holds more than there are collectors. *)
LEMMA ErrChanFits ==
  ASSUME CollectorInv, eligible \in SUBSET Interfaces, errChan \in Seq(Interfaces)
  PROVE  /\ IsFiniteSet(FailedCollectors) /\ Cardinality(FailedCollectors) \in Nat
         /\ Len(errChan) <= NumCollectors
<1>1. FailedCollectors \subseteq Collectors(eligible) /\ IsFiniteSet(Collectors(eligible))
  BY CollectorFacts DEF CollectorInv, FailedCollectors
<1>2. IsFiniteSet(FailedCollectors) /\ Cardinality(FailedCollectors) <= NumCollectors
  BY <1>1, FS_Subset DEF NumCollectors
<1>3. Cardinality(FailedCollectors) \in Nat /\ NumCollectors \in Nat
  BY <1>1, <1>2, FS_CardinalityType DEF NumCollectors
<1> QED
  BY <1>2, <1>3 DEF CollectorInv

(* What a step of the session has in common: the arguments stay, so the    *)
(* collectors of an interface stay, and a collector that failed is done.   *)
LEMMA CollectorsStay ==
  ASSUME UNCHANGED args
  PROVE  /\ \A ifs : Collectors(ifs)' = Collectors(ifs)
         /\ UNCHANGED eligible => UNCHANGED <<NumCollectors, Rotating>>
BY DEF Collectors, NumCollectors, Rotating, Negation

(* A step that moves neither collectors nor errors. *)
LEMMA CollectorsKept ==
  ASSUME CollectorInv, UNCHANGED <<args, eligible, col, errChan, errors>>,
         pc' = "start" => pc = "start"
  PROVE  CollectorInv'
<1>1. UNCHANGED <<FailedCollectors, Erroneous>>
  BY DEF FailedCollectors, Erroneous
<1>2. \A ifs : Collectors(ifs)' = Collectors(ifs)
  BY CollectorsStay
<1>3. Collectors(eligible)' = Collectors(eligible)
  BY DEF Collectors, Negation
<1> QED
  BY <1>1, <1>2, <1>3 DEF CollectorInv

(* A step that leaves the learn sessions alone. *)
LEMMA RotationKept ==
  ASSUME RotationInv, UNCHANGED <<args, eligible, session, sessions, toSwitch>>,
         pc' = "start" => pc = "start"
  PROVE  RotationInv'
BY CollectorsStay DEF RotationInv

(* Before the verdict there is nothing it could be wrong about. *)
LEMMA NoVerdict ==
  ASSUME result \in {"none", "startup"}
  PROVE  VerdictAfterCollectors /\ FailureIsTotal /\ SubcommandFailureSurfaces
BY DEF Verdict, VerdictAfterCollectors, FailureIsTotal, SubcommandFailureSurfaces

(* A verdict stays true while collectors only end and nothing else of what *)
(* it speaks of moves.                                                     *)
LEMMA VerdictKept ==
  ASSUME VerdictAfterCollectors /\ FailureIsTotal /\ SubcommandFailureSurfaces,
         UNCHANGED <<args, eligible, subcmd, result>>,
         \A c \in AllCollectors : col[c] = "failed" => col'[c] = "failed",
         \A c \in AllCollectors : col'[c] = "running" => col[c] = "running",
         eligible \in SUBSET Interfaces
  PROVE  (VerdictAfterCollectors /\ FailureIsTotal /\ SubcommandFailureSurfaces)'
<1>1. VerdictAfterCollectors' /\ SubcommandFailureSurfaces'
  BY DEF VerdictAfterCollectors, SubcommandFailureSurfaces, Verdict
<1>2. ASSUME result' = "failed", NEW i \in eligible'
      PROVE  \E c \in Collectors({i})' : col'[c] = "failed"
  <2>1. PICK c \in Collectors({i}) : col[c] = "failed"
    BY <1>2 DEF FailureIsTotal
  <2>2. c \in AllCollectors
    BY CollectorFacts
  <2> QED
    BY <2>1, <2>2, CollectorsStay
<1> QED
  BY <1>1, <1>2 DEF FailureIsTotal

-----------------------------------------------------------------------------
LEMMA SessionStarts == Init => SessionIInv
<1> SUFFICES ASSUME Init PROVE SessionIInv
  OBVIOUS
<1> USE DEF Init
<1>1. errChan \in Seq(Interfaces) /\ Len(errChan) = 0 /\ Erroneous = {}
  BY DEF Erroneous
<1>2. IsFiniteSet(FailedCollectors) /\ Cardinality(FailedCollectors) = 0
  <2>1. FailedCollectors = {}
    BY DEF FailedCollectors
  <2> QED
    BY <2>1, FS_EmptySet
<1>3. CollectorInv
  BY <1>1, <1>2 DEF CollectorInv
<1>4. toSwitch \subseteq Rotating /\ Rotating \subseteq AllCollectors
  BY CollectorFacts DEF Rotating
<1>5. RotationInv
  BY <1>4 DEF RotationInv
<1>6. TypeOK
  <2>1. Len(errChan) <= NumCollectors
    BY <1>1, <1>3, ErrChanFits
  <2>2. (result = "none") = (pc # "returned") /\ {signal, stop, counted, exited} \subseteq BOOLEAN
    OBVIOUS
  <2>3. 1 \in 1..MaxSession
    BY ApiDumpAssumption
  <2> QED
    BY <1>1, <2>1, <2>2, <2>3 DEF TypeOK
<1> QED
  BY <1>3, <1>5, <1>6, NoVerdict DEF SessionIInv, VerdictInv

(* Most steps move neither collectors, errors nor learn sessions. *)
LEMMA OtherSteps ==
  ASSUME SessionIInv, UNCHANGED <<args, eligible, col, errChan, errors, session, sessions, toSwitch>>,
         pc' \in {"setup", "launch", "command", "select", "stopping", "waiting", "returned"}
           \/ UNCHANGED pc,
         subcmd' \in {"none", "ok", "failed"}, worker' \in {"none", "asleep", "ticking", "returned"},
         {signal, stop, counted, exited}' \subseteq BOOLEAN,
         (result' = "none") = (pc' # "returned")
  PROVE  TypeOK' /\ CollectorInv' /\ RotationInv'
<1>1. CollectorInv' /\ RotationInv'
  BY CollectorsKept, RotationKept DEF SessionIInv
<1>2. UNCHANGED NumCollectors
  BY CollectorsStay
<1> QED
  BY <1>1, <1>2 DEF SessionIInv, VerdictInv, TypeOK

LEMMA GetEligibleInterfacesStep ==
  ASSUME SessionIInv, UNCHANGED args, GetEligibleInterfaces
  PROVE  SessionIInv'
<1> USE DEF GetEligibleInterfaces, Return, colVars, rotateVars
<1>1. \A c \in AllCollectors : col[c] = "none" /\ col'[c] = "none"
  BY DEF SessionIInv, CollectorInv
<1>2. eligible' \in SUBSET Interfaces /\ pc' \in {"setup", "returned"}
      /\ (result' = "none") = (pc' # "returned") /\ result' \in {"none", "startup"}
  BY DEF SessionIInv, VerdictInv, TypeOK
<1>3. Erroneous = {} /\ Erroneous' = {}
  <2>1. ASSUME NEW i \in Erroneous PROVE FALSE
    <3>1. i \in Interfaces
      BY DEF Erroneous, SessionIInv, VerdictInv, TypeOK
    <3>2. Collectors({i}) \subseteq AllCollectors
      BY <3>1, CollectorFacts
    <3> QED
      BY <1>1, <3>2 DEF SessionIInv, CollectorInv
  <2> QED
    BY <2>1 DEF Erroneous
<1>4. errors' = {} /\ errChan' \in Seq(Interfaces) /\ Len(errChan') = 0
  <2>1. errChan \in Seq(Interfaces) /\ Len(errChan) \in Nat
    BY DEF SessionIInv, VerdictInv, TypeOK
  <2>2. Len(errChan) = 0
    <3>1. ASSUME Len(errChan) # 0 PROVE FALSE
      <4>1. 1 \in 1..Len(errChan)
        BY <2>1, <3>1
      <4> QED
        BY <4>1, <1>3 DEF Erroneous
    <3> QED
      BY <3>1
  <2> QED
    BY <1>3, <2>1, <2>2 DEF Erroneous
<1>5. FailedCollectors' = {} /\ Cardinality(FailedCollectors)' = 0
  <2>1. FailedCollectors' = {}
    BY <1>1 DEF FailedCollectors
  <2> QED
    BY <2>1, FS_EmptySet
<1>6. CollectorInv'
  BY <1>1, <1>2, <1>3, <1>4, <1>5 DEF CollectorInv
<1>7. RotationInv'
  <2>1. Rotating' \subseteq AllCollectors
    BY <1>2, CollectorFacts, CollectorsStay DEF Rotating, Collectors, AllCollectors, Matched, Unmatched
  <2>2. session' = 1 /\ toSwitch' = {} /\ \A c \in AllCollectors : sessions'[c] = 1
    BY DEF SessionIInv, RotationInv
  <2> QED
    BY <1>2, <2>1, <2>2 DEF RotationInv
<1>8. TypeOK'
  <2>1. NumCollectors' \in Nat
    <3>1. Collectors(eligible)' = Collectors(eligible')
      BY DEF Collectors, Negation
    <3>2. IsFiniteSet(Collectors(eligible'))
      BY <1>2, CollectorFacts
    <3> QED
      BY <3>1, <3>2, FS_CardinalityType DEF NumCollectors
  <2> QED
    BY <1>2, <1>4, <2>1 DEF SessionIInv, VerdictInv, TypeOK
<1> QED
  BY <1>2, <1>6, <1>7, <1>8 DEF SessionIInv, VerdictInv, VerdictAfterCollectors, FailureIsTotal,
     SubcommandFailureSurfaces, Verdict

(* Steps of Run between the launch and the verdict that only pass on. *)
LEMMA PassingStep ==
  ASSUME SessionIInv, UNCHANGED args, Setup \/ Launched \/ SelectSignal \/ CloseStop
  PROVE  SessionIInv'
<1>1. TypeOK
  BY DEF SessionIInv, VerdictInv
<1>2. TypeOK' /\ CollectorInv' /\ RotationInv'
  BY <1>1, OtherSteps DEF Setup, Launched, SelectSignal, CloseStop, Return, colVars, rotateVars, TypeOK
<1>3. result' \in {"none", "startup"}
  BY <1>1 DEF Setup, Launched, SelectSignal, CloseStop, Return, TypeOK
<1> QED
  BY <1>2, <1>3 DEF SessionIInv, VerdictInv, VerdictAfterCollectors, FailureIsTotal,
     SubcommandFailureSurfaces, Verdict

(* A collector is started, and is then one of the session's; or its local  *)
(* directory is unusable.                                                  *)
LEMMA StartCollectorStep ==
  ASSUME SessionIInv, UNCHANGED args, NEW c \in AllCollectors, StartCollector(c)
  PROVE  SessionIInv'
<1> USE DEF StartCollector, Return, rotateVars
<1>1. TypeOK
  BY DEF SessionIInv, VerdictInv
<1>2. result' \in {"none", "startup"} /\ pc' \in {"launch", "returned"}
      /\ (result' = "none") = (pc' # "returned")
  BY <1>1 DEF TypeOK
<1>3. \A d \in AllCollectors : col'[d] = col[d] \/ (d = c /\ col[d] = "none" /\ col'[d] = "running")
  BY <1>1 DEF TypeOK
<1>4. UNCHANGED <<FailedCollectors, Erroneous>>
  BY <1>3 DEF FailedCollectors, Erroneous
<1>5. Collectors(eligible)' = Collectors(eligible) /\ UNCHANGED NumCollectors
  BY CollectorsStay DEF Collectors, Negation
<1>6. CollectorInv'
  <2>1. ASSUME NEW i \in Erroneous' PROVE \E d \in Collectors({i})' : col'[d] = "failed"
    <3>1. PICK d \in Collectors({i}) : col[d] = "failed"
      BY <1>4, <2>1 DEF SessionIInv, CollectorInv
    <3>2. i \in Interfaces
      BY <1>1, <1>4, <2>1 DEF Erroneous, TypeOK
    <3>3. d \in AllCollectors
      BY <3>1, <3>2, CollectorFacts
    <3> QED
      BY <1>3, <3>1, <3>3, CollectorsStay
  <2>2. \A d \in AllCollectors : col'[d] # "none" => d \in Collectors(eligible)'
    BY <1>3, <1>5 DEF SessionIInv, CollectorInv
  <2> QED
    BY <1>2, <1>4, <2>1, <2>2 DEF SessionIInv, CollectorInv
<1>7. RotationInv'
  BY <1>2, RotationKept DEF SessionIInv
<1>8. TypeOK'
  BY <1>1, <1>2, <1>5 DEF TypeOK
<1> QED
  BY <1>2, <1>6, <1>7, <1>8 DEF SessionIInv, VerdictInv, VerdictAfterCollectors, FailureIsTotal,
     SubcommandFailureSurfaces, Verdict

(* What is received from errChan was sent by a collector that failed. *)
LEMMA ReceiveStep ==
  ASSUME SessionIInv, UNCHANGED args, CommandEnds \/ SelectError
  PROVE  SessionIInv'
<1> USE DEF CommandEnds, SelectError, rotateVars
<1>1. TypeOK
  BY DEF SessionIInv, VerdictInv
<1>2. result' = "none" /\ pc' \in {"select", "stopping"} /\ subcmd' \in {"none", "ok", "failed"}
  BY <1>1 DEF TypeOK
<1>3. errChan' \in Seq(Interfaces) /\ Len(errChan') <= Len(errChan)
  <2>1. errChan \in Seq(Interfaces) /\ Len(errChan) \in Nat
    BY <1>1 DEF TypeOK
  <2>2. errChan' = errChan \/ errChan' = <<>> \/ (errChan # <<>> /\ errChan' = Tail(errChan))
    OBVIOUS
  <2>3. CASE errChan' = <<>>
    <3>1. <<>> \in Seq(Interfaces) /\ Len(<<>>) = 0
      OBVIOUS
    <3> QED
      BY <2>1, <2>3, <3>1
  <2>4. CASE errChan # <<>> /\ errChan' = Tail(errChan)
    BY <2>1, <2>4
  <2> QED
    BY <2>1, <2>2, <2>3, <2>4
<1>4. Erroneous' \subseteq Erroneous
  <2>1. CASE CommandEnds
    BY <2>1, <1>1 DEF Erroneous, TypeOK
  <2>2. CASE SelectError
    <3>1. Head(errChan) \in {errChan[n] : n \in 1..Len(errChan)}
      BY <1>1, <2>2 DEF TypeOK
    <3>2. ASSUME NEW n \in 1..Len(errChan') PROVE errChan'[n] \in {errChan[m] : m \in 1..Len(errChan)}
      <4>1. errChan'[n] = errChan[n + 1] /\ n + 1 \in 1..Len(errChan)
        BY <1>1, <2>2 DEF TypeOK
      <4> QED
        BY <4>1
    <3> QED
      BY <2>2, <3>1, <3>2 DEF Erroneous
  <2> QED
    BY <2>1, <2>2
<1>5. Erroneous \subseteq eligible
  <2>1. ASSUME NEW i \in Erroneous PROVE i \in eligible
    <3>1. PICK c \in Collectors({i}) : col[c] = "failed"
      BY DEF SessionIInv, CollectorInv
    <3>2. i \in Interfaces
      BY <1>1 DEF Erroneous, TypeOK
    <3>3. c \in AllCollectors /\ c.interface = i
      <4>1. {i} \in SUBSET Interfaces
        BY <3>2
      <4>2. c \in AllCollectors /\ c.interface \in {i}
        BY <3>1, <4>1, CollectorFacts
      <4> QED
        BY <4>2
    <3>4. c \in Collectors(eligible)
      BY <3>1, <3>3 DEF SessionIInv, CollectorInv
    <3> QED
      BY <1>1, <3>3, <3>4, CollectorFacts DEF TypeOK
  <2> QED
    BY <2>1
<1>6. errors' \subseteq eligible
  BY <1>4, <1>5 DEF Erroneous
<1>7. UNCHANGED <<NumCollectors, FailedCollectors>> /\ Collectors(eligible)' = Collectors(eligible)
  BY CollectorsStay DEF Collectors, Negation, FailedCollectors
<1>8. Len(errChan) \in Nat /\ Len(errChan') \in Nat
      /\ Cardinality(FailedCollectors) \in Nat /\ NumCollectors \in Nat
  <2>1. IsFiniteSet(Collectors(eligible))
    BY <1>1, CollectorFacts DEF TypeOK
  <2> QED
    BY <1>1, <1>3, <2>1, ErrChanFits, FS_CardinalityType DEF SessionIInv, TypeOK, NumCollectors
<1>9. CollectorInv'
  <2>1. Len(errChan') <= Cardinality(FailedCollectors)'
    BY <1>3, <1>7, <1>8 DEF SessionIInv, CollectorInv
  <2>2. \A i \in Erroneous' : \E c \in Collectors({i})' : col'[c] = "failed"
    BY <1>4, CollectorsStay DEF SessionIInv, CollectorInv
  <2> QED
    BY <1>2, <1>7, <2>1, <2>2 DEF SessionIInv, CollectorInv
<1>10. RotationInv'
  BY <1>2, RotationKept DEF SessionIInv
<1>11. TypeOK'
  BY <1>1, <1>2, <1>3, <1>6, <1>7, <1>8 DEF TypeOK
<1> QED
  BY <1>2, <1>9, <1>10, <1>11 DEF SessionIInv, VerdictInv, VerdictAfterCollectors, FailureIsTotal,
     SubcommandFailureSurfaces, Verdict

(* The verdict: every collector of the session has ended, and total        *)
(* failure means as many interfaces with errors as collectors, that is all *)
(* interfaces.                                                             *)
LEMMA FinishStep ==
  ASSUME SessionIInv, UNCHANGED args, Finish
  PROVE  SessionIInv'
<1> USE DEF Finish, Return, colVars, rotateVars
<1>1. TypeOK
  BY DEF SessionIInv, VerdictInv
<1>2. TypeOK' /\ CollectorInv' /\ RotationInv'
  BY <1>1, OtherSteps DEF TypeOK
<1>3. VerdictAfterCollectors'
  BY DEF VerdictAfterCollectors, SessionIInv, CollectorInv
<1>4. SubcommandFailureSurfaces'
  BY DEF SubcommandFailureSurfaces, Verdict
<1>5. FailureIsTotal'
  <2>1. SUFFICES ASSUME result' = "failed", NEW i \in eligible
                 PROVE  \E c \in Collectors({i})' : col'[c] = "failed"
    BY DEF FailureIsTotal
  <2>2. Cardinality(errors) = NumCollectors
    BY <2>1
  <2>3. IsFiniteSet(Collectors(eligible)) /\ NumCollectors \in Nat
    BY <1>1, CollectorFacts, FS_CardinalityType DEF TypeOK, NumCollectors
  <2>4. ~(Cardinality(errors) < NumCollectors)
    <3> HIDE DEF Finish
    <3> QED
      BY <2>2, <2>3
  <2>5. errors = eligible
    BY <1>1, <2>4, AllErroneous DEF TypeOK, NumCollectors
  <2> QED
    BY <2>5, CollectorsStay DEF SessionIInv, CollectorInv, Erroneous
<1> QED
  BY <1>2, <1>3, <1>4, <1>5 DEF SessionIInv, VerdictInv

(* A packet was counted, telemetry moved, a signal arrived, the process    *)
(* ended.                                                                  *)
LEMMA UncontrolledStep ==
  ASSUME SessionIInv, UNCHANGED args, NEW c \in AllCollectors,
         CountPacket(c) \/ TelemetryStep \/ UserSignals \/ ProcessExits
  PROVE  SessionIInv'
<1> USE DEF CountPacket, TelemetryStep, UserSignals, ProcessExits, colVars, rotateVars
<1>1. TypeOK
  BY DEF SessionIInv, VerdictInv
<1>2. TypeOK' /\ CollectorInv' /\ RotationInv'
  BY <1>1, OtherSteps DEF TypeOK
<1>3. (VerdictAfterCollectors /\ FailureIsTotal /\ SubcommandFailureSurfaces)'
  BY <1>1, VerdictKept DEF TypeOK, SessionIInv, VerdictInv
<1> QED
  BY <1>2, <1>3 DEF SessionIInv, VerdictInv

(* A collector that fails is one more that has failed, for the one error   *)
(* it sends.                                                               *)
LEMMA CollectFailsStep ==
  ASSUME SessionIInv, UNCHANGED args, NEW c \in AllCollectors, CollectFails(c)
  PROVE  SessionIInv'
<1> USE DEF CollectFails, rotateVars
<1>1. TypeOK
  BY DEF SessionIInv, VerdictInv
<1>2. c.interface \in Interfaces /\ c \in Collectors(eligible) /\ c \in Collectors({c.interface})
  <2>1. c \in Collectors(eligible)
    BY DEF SessionIInv, CollectorInv
  <2> QED
    BY <1>1, <2>1, CollectorFacts DEF TypeOK
<1>3. \A d \in AllCollectors : col'[d] = IF d = c THEN "failed" ELSE col[d]
  BY <1>1 DEF TypeOK
<1>4. FailedCollectors' = FailedCollectors \cup {c} /\ c \notin FailedCollectors
  BY <1>3 DEF FailedCollectors
<1>5. /\ errChan \in Seq(Interfaces) /\ errChan' \in Seq(Interfaces)
      /\ Len(errChan) \in Nat /\ Len(errChan') = Len(errChan) + 1
      /\ \A n \in 1..Len(errChan') : errChan'[n] = IF n = Len(errChan) + 1 THEN c.interface ELSE errChan[n]
  BY <1>1, <1>2 DEF TypeOK
<1>6. Len(errChan') <= Cardinality(FailedCollectors)'
  <2>1. IsFiniteSet(FailedCollectors) /\ Cardinality(FailedCollectors) \in Nat
    BY <1>1, ErrChanFits DEF SessionIInv, TypeOK
  <2>2. Cardinality(FailedCollectors)' = Cardinality(FailedCollectors) + 1
    BY <1>4, <2>1, FS_AddElement
  <2> QED
    BY <1>5, <2>1, <2>2 DEF SessionIInv, CollectorInv
<1>7. Erroneous' \subseteq Erroneous \cup {c.interface}
  <2>1. ASSUME NEW n \in 1..Len(errChan'), n # Len(errChan) + 1
        PROVE  n \in 1..Len(errChan)
    BY <1>5, <2>1
  <2> QED
    BY <1>5, <2>1 DEF Erroneous
<1>8. ASSUME NEW i \in Erroneous' PROVE \E d \in Collectors({i})' : col'[d] = "failed"
  <2>1. CASE i = c.interface
    BY <1>2, <1>3, <2>1, CollectorsStay
  <2>2. CASE i \in Erroneous
    <3>1. PICK d \in Collectors({i}) : col[d] = "failed"
      BY <2>2 DEF SessionIInv, CollectorInv
    <3>2. i \in Interfaces
      BY <1>1, <2>2 DEF Erroneous, TypeOK
    <3>3. d \in AllCollectors
      BY <3>1, <3>2, CollectorFacts
    <3> QED
      BY <1>3, <3>1, <3>3, CollectorsStay
  <2> QED
    BY <1>7, <1>8, <2>1, <2>2
<1>9. Collectors(eligible)' = Collectors(eligible)
  BY DEF Collectors, Negation
<1>10. CollectorInv'
  BY <1>2, <1>3, <1>6, <1>8, <1>9 DEF SessionIInv, CollectorInv
<1>11. RotationInv'
  BY RotationKept DEF SessionIInv
<1>12. TypeOK'
  <2>1. Len(errChan') <= NumCollectors'
    <3>1. Collectors(eligible)' = Collectors(eligible) /\ UNCHANGED NumCollectors
      BY <1>9, CollectorsStay
    <3>2. FailedCollectors' \subseteq Collectors(eligible) /\ IsFiniteSet(Collectors(eligible))
      BY <1>1, <1>10, <3>1, CollectorFacts DEF CollectorInv, FailedCollectors, TypeOK
    <3>3. /\ Cardinality(FailedCollectors') <= NumCollectors /\ IsFiniteSet(FailedCollectors')
          /\ NumCollectors \in Nat
      BY <3>2, FS_Subset, FS_CardinalityType DEF NumCollectors
    <3>4. Cardinality(FailedCollectors') \in Nat
      BY <3>3, FS_CardinalityType
    <3> QED
      BY <1>5, <1>6, <3>1, <3>3, <3>4
  <2> QED
    BY <1>1, <1>5, <2>1 DEF TypeOK
<1>13. (VerdictAfterCollectors /\ FailureIsTotal /\ SubcommandFailureSurfaces)'
  BY <1>1, <1>3, VerdictKept DEF TypeOK, SessionIInv, VerdictInv
<1> QED
  BY <1>10, <1>11, <1>12, <1>13 DEF SessionIInv, VerdictInv

LEMMA CollectReturnsStep ==
  ASSUME SessionIInv, UNCHANGED args, NEW c \in AllCollectors, CollectReturns(c)
  PROVE  SessionIInv'
<1> USE DEF CollectReturns, rotateVars
<1>1. TypeOK
  BY DEF SessionIInv, VerdictInv
<1>2. \A d \in AllCollectors : col'[d] = IF d = c THEN "done" ELSE col[d]
  BY <1>1 DEF TypeOK
<1>3. UNCHANGED <<FailedCollectors, Erroneous, NumCollectors>> /\ Collectors(eligible)' = Collectors(eligible)
  BY <1>2, CollectorsStay DEF FailedCollectors, Erroneous, Collectors, Negation
<1>4. ASSUME NEW i \in Erroneous' PROVE \E d \in Collectors({i})' : col'[d] = "failed"
  <2>1. PICK d \in Collectors({i}) : col[d] = "failed"
    BY <1>3, <1>4 DEF SessionIInv, CollectorInv
  <2>2. i \in Interfaces
    BY <1>1, <1>3, <1>4 DEF Erroneous, TypeOK
  <2>3. d \in AllCollectors
    BY <2>1, <2>2, CollectorFacts
  <2> QED
    BY <1>2, <2>1, <2>3, CollectorsStay
<1>5. CollectorInv'
  BY <1>2, <1>3, <1>4 DEF SessionIInv, CollectorInv
<1>6. RotationInv'
  BY RotationKept DEF SessionIInv
<1>7. TypeOK'
  BY <1>1, <1>3 DEF TypeOK
<1>8. (VerdictAfterCollectors /\ FailureIsTotal /\ SubcommandFailureSurfaces)'
  BY <1>1, <1>2, VerdictKept DEF TypeOK, SessionIInv, VerdictInv
<1> QED
  BY <1>5, <1>6, <1>7, <1>8 DEF SessionIInv, VerdictInv

(* A rotation begins when the one before it is complete, so nobody is more *)
(* than one session behind.                                                *)
LEMMA RotateStep ==
  ASSUME SessionIInv, UNCHANGED args, NEW c \in AllCollectors, RotateTick \/ SwitchLearnSession(c)
  PROVE  SessionIInv'
<1> USE DEF RotateTick, SwitchLearnSession, colVars
<1>1. TypeOK
  BY DEF SessionIInv, VerdictInv
<1>2. UNCHANGED <<NumCollectors, Rotating>> /\ Rotating \subseteq AllCollectors
  BY <1>1, CollectorsStay, CollectorFacts DEF Rotating, TypeOK
<1>3. pc # "start" /\ UNCHANGED pc
  BY DEF SessionIInv, RotationInv
<1>4. RotationInv'
  <2>1. CASE RotateTick
    <3>1. session \in Int /\ session + 1 - 1 = session
      BY <1>1 DEF TypeOK
    <3> QED
      BY <1>2, <1>3, <2>1, <3>1 DEF SessionIInv, RotationInv
  <2>2. CASE SwitchLearnSession(c)
    <3>1. \A d \in AllCollectors : sessions'[d] = IF d = c THEN session ELSE sessions[d]
      BY <1>1, <2>2 DEF TypeOK
    <3> QED
      BY <1>2, <1>3, <2>2, <3>1 DEF SessionIInv, RotationInv
  <2> QED
    BY <2>1, <2>2
<1>5. TypeOK'
  <2>1. session' \in 1..MaxSession /\ sessions' \in [AllCollectors -> 1..MaxSession]
    BY <1>1, ApiDumpAssumption DEF TypeOK
  <2>2. toSwitch' \in SUBSET AllCollectors
    BY <1>1, <1>2 DEF TypeOK
  <2> QED
    BY <1>1, <1>2, <2>1, <2>2 DEF TypeOK
<1>6. CollectorInv'
  BY CollectorsKept DEF SessionIInv
<1>7. (VerdictAfterCollectors /\ FailureIsTotal /\ SubcommandFailureSurfaces)'
  BY <1>1, VerdictKept DEF TypeOK, SessionIInv, VerdictInv
<1> QED
  BY <1>4, <1>5, <1>6, <1>7 DEF SessionIInv, VerdictInv

LEMMA SessionStep == SessionIInv /\ [Next]_vars => SessionIInv'
<1> SUFFICES ASSUME SessionIInv, [Next]_vars PROVE SessionIInv'
  OBVIOUS
<1>1. CASE UNCHANGED vars
  <2>1. UNCHANGED <<args, pc, eligible, col, errChan, counted, errors, subcmd, signal, stop, result,
                    session, sessions, toSwitch, worker, exited>>
    BY <1>1 DEF vars, colVars, rotateVars
  <2>2. TypeOK
    BY DEF SessionIInv, VerdictInv
  <2>3. TypeOK' /\ CollectorInv' /\ RotationInv'
    BY <2>1, <2>2, OtherSteps DEF TypeOK
  <2>4. (VerdictAfterCollectors /\ FailureIsTotal /\ SubcommandFailureSurfaces)'
    BY <2>1, <2>2, VerdictKept DEF TypeOK, SessionIInv, VerdictInv
  <2> QED
    BY <2>3, <2>4 DEF SessionIInv, VerdictInv
<1>2. CASE Run
  BY <1>2, GetEligibleInterfacesStep, PassingStep, StartCollectorStep, ReceiveStep, FinishStep
     DEF Run, InProcess
<1>3. CASE Rotate \/ Telemetry \/ Environment
  <2>1. Matched(CHOOSE i \in Interfaces : TRUE) \in AllCollectors
    BY ApiDumpAssumption DEF Matched, AllCollectors
  <2> QED
    BY <1>3, <2>1, RotateStep, UncontrolledStep DEF Rotate, Telemetry, Environment, InProcess
<1>4. CASE \E c \in AllCollectors : Collect(c)
  BY <1>4, CollectFailsStep, CollectReturnsStep DEF Collect, InProcess
<1> QED
  BY <1>1, <1>2, <1>3, <1>4 DEF Next

(* apidump.Run gives its verdict after its collectors have ended, says     *)
(* that the capture failed only when it failed on every interface, does    *)
(* not hide the failure of its subcommand, and errChan never blocks a      *)
(* collector.                                                              *)
THEOREM VerdictTheorem == Spec => [](SessionIInv /\ VerdictInv)
<1>1. SessionIInv => VerdictInv
  BY DEF SessionIInv
<1> QED
  BY <1>1, SessionStarts, SessionStep, PTL DEF Spec

(* RotateLearnSession switches the collectors of a session one by one, and *)
(* two of them are never more than one learn session apart.                *)
THEOREM SessionsTheorem == Spec => []SessionsTogether
<1>1. SessionIInv => SessionsTogether
  <2> SUFFICES ASSUME SessionIInv, NEW c \in Rotating, NEW d \in Rotating
               PROVE  sessions[c] <= sessions[d] + 1
    BY DEF SessionsTogether
  <2>1. session \in Int
    BY DEF SessionIInv, VerdictInv, TypeOK
  <2> QED
    BY <2>1 DEF SessionIInv, RotationInv
<1> QED
  BY <1>1, SessionStarts, SessionStep, PTL DEF Spec

(* The error of one interface does not stop the others: without a signal,  *)
(* Run leaves its select loop only when every interface has failed.        *)
THEOREM ErrorsTheorem == Spec => ErrorsDoNotStopOthers
<1>1. ASSUME SessionIInv, SessionIInv', [Next]_vars
      PROVE  [pc = "select" /\ pc' = "stopping" /\ ~ signal
                => \A i \in eligible : \E c \in Collectors({i}) : col[c] = "failed"]_vars
  <2> SUFFICES ASSUME pc = "select", pc' = "stopping", ~ signal, ~ UNCHANGED vars, NEW i \in eligible
               PROVE  \E c \in Collectors({i}) : col[c] = "failed"
    OBVIOUS
  <2>1. SelectError
    BY <1>1 DEF Next, Run, Rotate, Telemetry, Environment, Collect, InProcess, GetEligibleInterfaces,
       Setup, StartCollector, Launched, CommandEnds, SelectSignal, CloseStop, Finish, Return,
       CountPacket, CollectFails, CollectReturns, RotateTick, SwitchLearnSession, TelemetryStep,
       UserSignals, ProcessExits
  <2>2. UNCHANGED <<args, eligible, col>>
    BY <1>1, <2>1 DEF SelectError, vars, Next, Run, Rotate, Telemetry, Environment, Collect, InProcess
  <2>3. errors' \in SUBSET eligible /\ eligible \in SUBSET Interfaces
    BY <1>1, <2>2 DEF SessionIInv, VerdictInv, TypeOK
  <2>4. ~(Cardinality(errors') < NumCollectors)
    BY <2>1 DEF SelectError
  <2>5. errors' = eligible
    BY <2>3, <2>4, AllErroneous DEF NumCollectors
  <2>6. \E c \in Collectors({i})' : col'[c] = "failed"
    BY <1>1, <2>5 DEF SessionIInv, CollectorInv, Erroneous
  <2> QED
    BY <2>2, <2>6, CollectorsStay
<1> QED
  BY <1>1, SessionStarts, SessionStep, PTL DEF Spec, ErrorsDoNotStopOthers

-----------------------------------------------------------------------------
(* The workflow *)

(* The states in which nothing was changed yet, those of a workflow with a *)
(* terminal and those of one without.                                      *)
Interactive == {"profile", "region", "findCluster", "cluster", "task", "service", "confirm",
                "askConfirm"} \cup Choosing
FromFlags == {"fillFromFlags", "fillCluster", "fillTask", "fillService", "fillSecrets", "usage"}
Early     == {"init", "modify"} \cup Interactive \cup FromFlags

(* The states from which the workflow acts on what has been chosen. *)
ServiceChosen == {"confirm", "askConfirm", "modify", "update"}
TaskChosen    == {"service", "askService"} \cup ServiceChosen
ClusterChosen == {"task", "askTask"} \cup TaskChosen
RegionChosen  == {"cluster", "askCluster"} \cup ClusterChosen

Revision == [agents : Nat, app : Nat]

WfType == [region : Regions \cup {None}, client : Regions \cup {None},
           cluster : Clusters \cup {None}, family : Families \cup {None},
           def : [family : Families \cup {None}, rev : Nat],
           svc : Services \cup {None}, at : Nat]

(* Types of what WorkflowTypeOK says less of. *)
WorkflowTypes ==
  /\ currentState \in Early \cup {"update", "wait", "poll", "end"}
  /\ wf \in WfType
  /\ found \in SUBSET (Clusters \cup Services)
  /\ confirmed \in BOOLEAN
  /\ kind \in [Families -> Kinds]
  /\ defs \in [Families -> Seq(Revision)] /\ \A f \in Families : Latest(f) > 0
  /\ running \in [Services -> [family : Families, rev : Nat]]
  /\ others \in Nat

(* What each way through the workflow has made sure of when it comes to a  *)
(* state: the choices are made from the outside in, and going back makes   *)
(* the inner ones again.                                                   *)
ChoiceInv ==
  /\ currentState \in Interactive => flags.tty
  /\ currentState \in FromFlags => ~ flags.tty
  /\ flags.tty /\ currentState \in RegionChosen => wf.client \in Regions /\ wf.region = wf.client
  /\ flags.tty /\ currentState \in ClusterChosen => wf.cluster \in Clusters /\ Here(wf.cluster)
  /\ flags.tty /\ currentState \in TaskChosen =>
       wf.family \in Families /\ Here(wf.family) /\ wf.def.family = wf.family
  /\ flags.tty /\ currentState \in ServiceChosen => wf.svc \in Matching
  /\ currentState \in {"askClusterAndRegion", "askCluster"} => found \subseteq Clusters
  /\ currentState = "askCluster" => \A k \in found : Here(k)
  /\ currentState = "askService" => found \subseteq Matching /\ flags.service = None
  /\ currentState = "fillCluster" => flags.cluster # None
  /\ currentState \in {"fillTask", "fillService", "fillSecrets"} => flags.task # None
  /\ currentState = "fillService" => flags.service # None
  /\ currentState \in {"modify", "update"} /\ ~ flags.tty => flags.task # None
  /\ currentState \in {"fillService", "fillSecrets", "modify", "update", "wait", "poll"} => wf.def # NoDef
  /\ flags.service # None => wf.svc \in {None, flags.service}
  /\ currentState \in {"askConfirm", "modify", "update", "wait", "poll"} => ~ flags.dryRun
  /\ currentState \in {"modify", "update", "wait", "poll"} => (flags.tty => confirmed)

AgentsAtFirst(f) == FirstRevision(kind[f]).agents

(* Before the task definition is modified AWS is as the others left it,    *)
(* and the loaded revision is the newest unless somebody deployed since or *)
(* the command line names another.                                         *)
UntouchedInv ==
  /\ wf.at <= others
  /\ currentState \in Early =>
       /\ rollout = None /\ said = {}
       /\ \A f \in Families : \A i \in 1..Latest(f) :
            defs[f][i].agents = AgentsAtFirst(f) /\ defs[f][i].app <= defs[f][Latest(f)].app
       /\ wf.def # NoDef /\ wf.at = others /\ flags.revision = 0 => wf.def.rev = Latest(wf.def.family)
  /\ flags.task = None /\ currentState \in TaskChosen \ {"update"} =>
       AgentsAtFirst(wf.def.family) = 0

(* Afterwards the loaded revision is the one with the agent, and, once it  *)
(* is deployed, the one the service runs unless somebody deployed since;   *)
(* and what waitForRestart has read is so, or a poll failed.               *)
RegisteredInv ==
  /\ currentState \in {"update", "wait", "poll"} =>
       said = {} /\ defs[wf.def.family][wf.def.rev].agents > AgentsAtFirst(wf.def.family)
  /\ currentState = "update" => rollout = None
  /\ currentState \in {"wait", "poll"} =>
       /\ rollout # None /\ wf.svc # None
       /\ running[wf.svc].family = wf.def.family
       /\ others = 0 => running[wf.svc] = wf.def
  /\ currentState = "poll" =>
       \/ seen \in {"inProgress", "failed"}
       \/ seen = "completed" /\ rollout = "completed"
       \/ seen = "zero" /\ polls > 0

WorkflowIInv ==
  /\ WorkflowTypes /\ ChoiceInv /\ UntouchedInv /\ RegisteredInv
  /\ WorkflowInv /\ EndIsExplained

(* The revision a task family began with does not change. *)
LEMMA FirstStays ==
  ASSUME UNCHANGED kind
  PROVE  /\ \A f : AgentsAtFirst(f)' = AgentsAtFirst(f)
         /\ AgentsAtFirst(wf.def.family)' = AgentsAtFirst(wf'.def.family)
BY DEF AgentsAtFirst, FirstRevision

LEMMA WorkflowStarts == WorkflowInit => WorkflowIInv
<1> SUFFICES ASSUME WorkflowInit PROVE WorkflowIInv
  OBVIOUS
<1> USE DEF WorkflowInit
<1>1. \A f \in Families : FirstRevision(kind[f]) \in Revision
  BY DEF FirstRevision, Revision
<1>2. defs \in [Families -> Seq(Revision)] /\ \A f \in Families : Latest(f) = 1
  BY <1>1 DEF Latest
<1>3. running \in [Services -> [family : Families, rev : Nat]]
  BY ECSAssumption
<1>4. WorkflowTypes
  <2>1. wf \in WfType
    BY DEF WfType, NoDef
  <2>2. \A f \in Families : Latest(f) > 0
    BY <1>2
  <2> QED
    BY <1>2, <1>3, <2>1, <2>2 DEF WorkflowTypes, Early
<1>5. \A f \in Families : \A i \in 1..Latest(f) : i = 1 /\ defs[f][i] = FirstRevision(kind[f])
  BY <1>2
<1>6. ChoiceInv
  BY DEF ChoiceInv, Interactive, FromFlags, RegionChosen, ClusterChosen, TaskChosen, ServiceChosen,
     Choosing
<1>7. \A f \in Families : FirstRevision(kind[f]).agents \in Nat /\ FirstRevision(kind[f]).app \in Nat
      /\ FirstRevision(kind[f]).agents <= 1
  BY DEF FirstRevision
<1>8. UntouchedInv
  BY <1>2, <1>5, <1>7 DEF UntouchedInv, AgentsAtFirst, TaskChosen, ServiceChosen
<1>9. RegisteredInv
  BY DEF RegisteredInv
<1>10. WorkflowTypeOK
  <2>1. flags \in Flags /\ polls \in 0..MaxPolls
    BY ECSAssumption
  <2>2. \A v \in Services : running[v].rev \in 1..Latest(running[v].family)
    BY <1>2, <1>3
  <2> QED
    BY <2>1, <2>2 DEF WorkflowTypeOK
<1>11. ~ Changed
  <2>1. \A n \in Nat : ~(n > n)
    OBVIOUS
  <2> QED
    BY <1>5, <1>7, <2>1 DEF Changed
<1>12. PickedTaskHasOneAgent
  BY <1>5, <1>7 DEF PickedTaskHasOneAgent
<1>13. TargetIsConsistent /\ ChangesAreWanted /\ NoDeploymentUndone /\ OtherServicesUntouched
  BY <1>11 DEF TargetIsConsistent, ChangesAreWanted, NoDeploymentUndone, OtherServicesUntouched
<1>14. EndIsExplained
  BY DEF EndIsExplained, AnnouncedServiceWasUpdated, OrphanIsReported, SuccessIsComplete
<1> QED
  BY <1>4, <1>6, <1>8, <1>9, <1>10, <1>12, <1>13, <1>14 DEF WorkflowIInv, WorkflowInv

(* Before anything is modified AWS counts as unchanged. *)
LEMMA EarlyIsUnchanged ==
  ASSUME WorkflowTypes, UntouchedInv, currentState \in Early
  PROVE  ~ Changed
<1>1. \A f \in Families : \A i \in 1..Latest(f) : defs[f][i].agents = AgentsAtFirst(f)
                                               /\ AgentsAtFirst(f) \in Nat
  BY DEF UntouchedInv, AgentsAtFirst, FirstRevision
<1> QED
  BY <1>1 DEF Changed, UntouchedInv, AgentsAtFirst

(* A step that only makes or drops choices: what there is to show is that  *)
(* the choices are those the new state rests on, and that a revision that  *)
(* was loaded is the newest one of its family, or the one the flag names.  *)
LEMMA QuietStep ==
  ASSUME WorkflowIInv, currentState \in Early, UNCHANGED <<flags, kind, awsVars, seen, polls, said>>,
         currentState' \in Early \cup {"end"}, WorkflowTypes', ChoiceInv',
         outcome' \in {"running", "success", "error", "interrupted"},
         (currentState' = "end") = (outcome' # "running"),
         \/ wf'.def = wf.def /\ wf'.at = wf.at
         \/ \E f \in Families : \E r \in 1..Latest(f) :
              /\ wf'.def = [family |-> f, rev |-> r] /\ wf'.at = others
              /\ flags.revision = 0 => r = Latest(f),
         flags.task = None /\ currentState' \in TaskChosen => AgentsAtFirst(wf'.def.family) = 0
  PROVE  WorkflowIInv'
<1> USE DEF awsVars
<1>1. WorkflowTypes /\ UntouchedInv /\ WorkflowTypeOK /\ RegisteredInv /\ ~ Changed
      /\ PickedTaskHasOneAgent /\ OtherServicesUntouched
  BY EarlyIsUnchanged DEF WorkflowIInv, WorkflowInv
<1>2. \A f : Latest(f)' = Latest(f)
  BY DEF Latest
<1>3. Changed' = Changed
  <2>1. \A f : FirstRevision(kind[f])' = FirstRevision(kind[f])
    BY DEF FirstRevision
  <2> QED
    BY <1>2, <2>1 DEF Changed
<1>4. wf'.def # NoDef => wf'.def.family \in Families /\ wf'.def.rev \in 1..Latest(wf'.def.family)
  BY <1>1 DEF WorkflowTypeOK, WorkflowTypes, WfType, Latest
<1>5. UntouchedInv'
  <2>1. wf'.at <= others'
    BY <1>1 DEF UntouchedInv, WorkflowTypes, WfType
  <2>2. wf'.def # NoDef /\ wf'.at = others /\ flags.revision = 0 => wf'.def.rev = Latest(wf'.def.family)
    <3>1. CASE wf'.def = wf.def /\ wf'.at = wf.at
      BY <1>1, <3>1 DEF UntouchedInv
    <3>2. ASSUME NEW f \in Families, NEW r \in 1..Latest(f), wf'.def = [family |-> f, rev |-> r],
                 r = Latest(f)
          PROVE  wf'.def.rev = Latest(wf'.def.family)
      BY <3>2
    <3> QED
      BY <3>1, <3>2
  <2>3. rollout = None /\ said = {}
        /\ \A f \in Families : \A i \in 1..Latest(f) :
             defs[f][i].agents = AgentsAtFirst(f) /\ defs[f][i].app <= defs[f][Latest(f)].app
    BY <1>1 DEF UntouchedInv
  <2> QED
    BY <1>2, <2>1, <2>2, <2>3, FirstStays DEF UntouchedInv, Latest
<1>6. RegisteredInv'
  BY DEF RegisteredInv, Early, Interactive, FromFlags, Choosing
<1>7. WorkflowTypeOK'
  <2>1. wf' \in WfType
    BY DEF WorkflowTypes
  <2> QED
    BY <1>1, <1>4, <2>1 DEF WorkflowTypeOK, WfType, Latest, NoDef
<1>8. TargetIsConsistent'
  <2> SUFFICES ASSUME flags.tty, currentState' \in {"confirm", "askConfirm", "modify", "update"}
               PROVE  /\ wf'.def.family = wf'.family
                      /\ wf'.region = wf'.client
                      /\ RegionOf[wf'.cluster] = wf'.client /\ RegionOf[wf'.family] = wf'.client
                      /\ ClusterOf[wf'.svc] = wf'.cluster
                      /\ running'[wf'.svc].family = wf'.family
    BY DEF TargetIsConsistent
  <2> QED
    BY DEF ChoiceInv, ServiceChosen, TaskChosen, ClusterChosen, RegionChosen, Here, Matching
<1>9. ChangesAreWanted' /\ EndIsExplained'
  BY <1>1, <1>3 DEF ChangesAreWanted, EndIsExplained, AnnouncedServiceWasUpdated, OrphanIsReported,
     SuccessIsComplete, UntouchedInv
<1>10. PickedTaskHasOneAgent'
  BY <1>1, <1>2 DEF PickedTaskHasOneAgent
<1>11. NoDeploymentUndone' /\ OtherServicesUntouched'
  <2>1. rollout = None
    BY <1>1 DEF UntouchedInv
  <2> QED
    BY <1>1, <2>1 DEF NoDeploymentUndone, OtherServicesUntouched, Early, Interactive, FromFlags, Choosing
<1> QED
  BY <1>5, <1>6, <1>7, <1>8, <1>9, <1>10, <1>11 DEF WorkflowIInv, WorkflowInv

(* Facts about the command line and the choices that every step needs. *)
LEMMA WorkflowFacts ==
  ASSUME WorkflowIInv
  PROVE  /\ WorkflowTypes /\ ChoiceInv
         /\ flags \in Flags /\ wf \in WfType
         /\ outcome \in {"running", "success", "error", "interrupted"}
         /\ (currentState = "end") = (outcome # "running")
         /\ flags.region # None => flags.region \in Regions
         /\ flags.cluster # None => flags.cluster \in Clusters
         /\ flags.task # None => flags.task \in Families
         /\ flags.service # None => flags.service \in Services
BY DEF WorkflowIInv, WorkflowInv, WorkflowTypes, WorkflowTypeOK, Flags

(* Profile and region; nothing inner is chosen yet, or it is chosen anew. *)
LEMMA ProfileStep ==
  ASSUME WorkflowIInv, InitState \/ GetProfile \/ AnswerProfile \/ GetRegion \/ AnswerRegion \/ FindCluster
  PROVE  WorkflowIInv'
<1> USE DEF InitState, GetProfile, AnswerProfile, GetRegion, AnswerRegion, FindCluster, Quiet, Goto, End,
    CreateConfig, CreateClient
<1>1. WorkflowTypes /\ ChoiceInv
  BY WorkflowFacts
<1>2. wf \in WfType /\ (flags.region # None => flags.region \in Regions)
  BY WorkflowFacts
<1>3. currentState \in {"init", "profile", "askProfile", "region", "askRegion", "findCluster"}
      /\ currentState' \in {"profile", "fillFromFlags", "region", "askProfile", "cluster", "askRegion",
                            "findCluster", "askClusterAndRegion", "end"}
  OBVIOUS
<1>4. wf' \in WfType /\ wf'.def = wf.def /\ wf'.at = wf.at /\ wf'.svc = wf.svc
      /\ (currentState' = "cluster" => wf'.client \in Regions /\ wf'.region = wf'.client)
  <2>1. ASSUME NEW r \in Regions, wf' = [wf EXCEPT !.region = r, !.client = r]
        PROVE  wf' \in WfType /\ wf'.client = r /\ wf'.region = r /\ wf'.def = wf.def
               /\ wf'.at = wf.at /\ wf'.svc = wf.svc
    BY <1>2, <2>1 DEF WfType
  <2>2. ASSUME NEW r \in Regions, wf' = [wf EXCEPT !.region = r] \/ wf' = [wf EXCEPT !.client = r]
        PROVE  wf' \in WfType /\ wf'.def = wf.def /\ wf'.at = wf.at /\ wf'.svc = wf.svc
    BY <1>2, <2>2 DEF WfType
  <2> QED
    BY <1>2, <2>1, <2>2, ECSAssumption
<1>5. currentState' \in {"fillFromFlags"} => ~ flags.tty
  OBVIOUS
<1>6. found' \in SUBSET (Clusters \cup Services) /\ (currentState' = "askClusterAndRegion" => found' \subseteq Clusters)
  BY <1>1 DEF WorkflowTypes
<1>7. WorkflowTypes'
  BY <1>1, <1>3, <1>4, <1>6 DEF WorkflowTypes, awsVars, WfType, Early, Interactive, FromFlags, Choosing, Latest
<1>8. ChoiceInv'
  BY <1>1, <1>3, <1>4, <1>5, <1>6 DEF ChoiceInv, Interactive, FromFlags, Choosing, RegionChosen, ClusterChosen,
     TaskChosen, ServiceChosen
<1>9. currentState \in Early /\ currentState' \in Early \cup {"end"} /\ currentState' \notin TaskChosen
  BY <1>3 DEF Early, Interactive, FromFlags, Choosing, TaskChosen, ServiceChosen
<1>10. outcome' \in {"running", "success", "error", "interrupted"}
       /\ (currentState' = "end") = (outcome' # "running")
  BY WorkflowFacts
<1> QED
  BY <1>4, <1>7, <1>8, <1>9, <1>10, QuietStep

LEMMA ClusterStep ==
  ASSUME WorkflowIInv,
         AnswerClusterAndRegion \/ GetCluster \/ AnswerCluster \/ FillFromFlags \/ FillCluster
  PROVE  WorkflowIInv'
<1> USE DEF AnswerClusterAndRegion, GetCluster, AnswerCluster, FillFromFlags, FillCluster, LoadCluster,
    Quiet, Goto, End
<1>1. WorkflowTypes /\ ChoiceInv
  BY WorkflowFacts
<1>2. wf \in WfType /\ (flags.cluster # None => flags.cluster \in Clusters)
  BY WorkflowFacts
<1>3. /\ currentState \in {"askClusterAndRegion", "cluster", "askCluster", "fillFromFlags", "fillCluster"}
      /\ currentState' \in {"task", "profile", "region", "askCluster", "fillCluster", "usage",
                            "fillTask", "end"}
  OBVIOUS
<1>4. /\ flags.tty => currentState' \notin {"fillCluster", "usage", "fillTask"}
      /\ ~ flags.tty => currentState' \in {"fillCluster", "usage", "fillTask", "end"}
  BY <1>1 DEF ChoiceInv, Interactive, FromFlags, Choosing
<1>5. wf' \in WfType /\ wf'.def = wf.def /\ wf'.at = wf.at /\ wf'.svc = wf.svc
      /\ (currentState' = "task" => /\ wf'.client \in Regions /\ wf'.region = wf'.client
                                    /\ wf'.cluster \in Clusters /\ RegionOf[wf'.cluster] = wf'.client)
      /\ (currentState' = "askCluster" => wf' = wf)
  <2>1. ASSUME NEW k \in Clusters,
               wf' = [wf EXCEPT !.cluster = k, !.region = RegionOf[k], !.client = RegionOf[k]]
        PROVE  /\ wf' \in WfType /\ wf'.def = wf.def /\ wf'.at = wf.at /\ wf'.svc = wf.svc
               /\ wf'.client \in Regions /\ wf'.region = wf'.client
               /\ wf'.cluster \in Clusters /\ RegionOf[wf'.cluster] = wf'.client
    BY <1>2, <2>1, ECSAssumption DEF WfType
  <2>2. ASSUME NEW k \in Clusters, wf' = [wf EXCEPT !.cluster = k]
        PROVE  /\ wf' \in WfType /\ wf'.def = wf.def /\ wf'.at = wf.at /\ wf'.svc = wf.svc
               /\ wf'.client = wf.client /\ wf'.region = wf.region /\ wf'.cluster = k
    BY <1>2, <2>2 DEF WfType
  <2>3. ASSUME NEW r \in Regions, wf' = [wf EXCEPT !.region = r, !.client = r]
        PROVE  wf' \in WfType /\ wf'.def = wf.def /\ wf'.at = wf.at /\ wf'.svc = wf.svc
    BY <1>2, <2>3 DEF WfType
  <2>4. CASE AnswerClusterAndRegion
    BY <1>1, <2>1, <2>4 DEF ChoiceInv
  <2>5. CASE GetCluster \/ AnswerCluster
    BY <1>1, <1>2, <2>2, <2>5 DEF ChoiceInv, Here, Interactive, Choosing, RegionChosen
  <2>6. CASE FillFromFlags \/ FillCluster
    BY <1>1, <1>2, <1>4, <2>2, <2>3, <2>6, ECSAssumption DEF ChoiceInv, Interactive, FromFlags
  <2> QED
    BY <2>4, <2>5, <2>6
<1>6. /\ found' \in SUBSET (Clusters \cup Services)
      /\ currentState' = "askCluster" => found' \subseteq Clusters /\ \A k \in found' : RegionOf[k] = wf'.client
      /\ currentState' = "askCluster" => wf'.client \in Regions /\ wf'.region = wf'.client
  BY <1>1, <1>5 DEF WorkflowTypes, Here, ChoiceInv, Interactive, Choosing, RegionChosen
<1>7. WorkflowTypes'
  BY <1>1, <1>3, <1>5, <1>6 DEF WorkflowTypes, awsVars, Early, Interactive, FromFlags, Choosing, Latest
<1>8. ChoiceInv'
  <2>1. currentState' = "fillCluster" => flags.cluster # None
    BY <1>3
  <2>2. currentState' = "fillTask" => flags.task # None
    BY <1>3
  <2> QED
    BY <1>1, <1>3, <1>4, <1>5, <1>6, <2>1, <2>2 DEF ChoiceInv, Here, Interactive, FromFlags, Choosing,
       RegionChosen, ClusterChosen, TaskChosen, ServiceChosen
<1>9. currentState \in Early /\ currentState' \in Early \cup {"end"} /\ currentState' \notin TaskChosen
  BY <1>3 DEF Early, Interactive, FromFlags, Choosing, TaskChosen, ServiceChosen
<1>10. outcome' \in {"running", "success", "error", "interrupted"}
       /\ (currentState' = "end") = (outcome' # "running")
  BY WorkflowFacts
<1> QED
  BY <1>5, <1>7, <1>8, <1>9, <1>10, QuietStep

LEMMA TaskStep ==
  ASSUME WorkflowIInv, GetTask \/ AnswerTask \/ FillTask
  PROVE  WorkflowIInv'
<1> USE DEF GetTask, AnswerTask, FillTask, LoadTask, Quiet, Goto, End
<1>1. WorkflowTypes /\ ChoiceInv /\ UntouchedInv
  BY WorkflowFacts DEF WorkflowIInv
<1>2. wf \in WfType /\ (flags.task # None => flags.task \in Families)
  BY WorkflowFacts
<1>3. /\ currentState \in {"task", "askTask", "fillTask"}
      /\ currentState' \in {"task", "askTask", "profile", "cluster", "service", "usage", "fillService", "end"}
  OBVIOUS
<1>4. /\ flags.tty => currentState' \notin {"usage", "fillService"}
      /\ ~ flags.tty => currentState' \in {"usage", "fillService", "end"}
  BY <1>1 DEF ChoiceInv, Interactive, FromFlags, Choosing
<1>5. currentState \in Early /\ currentState' \in Early \cup {"end"}
  BY <1>3 DEF Early, Interactive, FromFlags, Choosing
<1>6. \A f \in Families : Latest(f) \in Nat
  BY <1>1 DEF WorkflowTypes, Latest
<1> DEFINE Loads(f) == \E r \in 1..Latest(f) :
                         /\ wf'.def = [family |-> f, rev |-> r] /\ wf'.at = others
                         /\ flags.revision = 0 => r = Latest(f)
                         /\ wf'.family = f /\ Here(f)
<1>7. /\ wf' \in WfType
      /\ wf'.svc = wf.svc /\ wf'.client = wf.client /\ wf'.region = wf.region /\ wf'.cluster = wf.cluster
      /\ \/ wf'.def = wf.def /\ wf'.at = wf.at /\ currentState' \notin {"service", "fillService"}
         \/ \E f \in Families :
              Loads(f) /\ (currentState' = "service" => Agents(f) = 0 \/ flags.task # None)
  <2>1. ASSUME NEW f \in Families, wf' = [wf EXCEPT !.family = f]
        PROVE  /\ wf' \in WfType
               /\ wf'.svc = wf.svc /\ wf'.client = wf.client /\ wf'.region = wf.region
               /\ wf'.cluster = wf.cluster /\ wf'.def = wf.def /\ wf'.at = wf.at
    BY <1>2, <2>1 DEF WfType
  <2>2. ASSUME NEW f \in Families, NEW r \in 1..Latest(f), flags.revision = 0 => r = Latest(f),
               LoadDef(f, r), Here(f)
        PROVE  /\ wf' \in WfType
               /\ wf'.svc = wf.svc /\ wf'.client = wf.client /\ wf'.region = wf.region
               /\ wf'.cluster = wf.cluster /\ Loads(f)
    <3>1. others \in Nat /\ r \in Nat /\ [family |-> f, rev |-> r] \in [family : Families \cup {None}, rev : Nat]
      BY <1>1, <1>6 DEF WorkflowTypes
    <3>2. /\ wf' \in WfType
          /\ wf'.svc = wf.svc /\ wf'.client = wf.client /\ wf'.region = wf.region
          /\ wf'.cluster = wf.cluster /\ wf'.family = f /\ wf'.at = others
          /\ wf'.def = [family |-> f, rev |-> r]
      BY <1>2, <2>2, <3>1 DEF WfType, LoadDef
    <3> QED
      BY <2>2, <3>2
  <2>3. ASSUME NEW f \in Families PROVE Agents(f) \in Nat
    <3>1. defs[f] \in Seq(Revision) /\ Latest(f) \in 1..Len(defs[f])
      BY <1>1, <1>6 DEF WorkflowTypes, Latest
    <3>2. defs[f][Latest(f)] \in Revision
      BY <3>1
    <3> QED
      BY <3>2 DEF Agents, Revision
  <2>4. \A n \in Nat : n > 0 \/ n = 0
    OBVIOUS
  <2>8. \A f \in Families : Latest(f) \in 1..Latest(f)
    BY <1>1, <1>6 DEF WorkflowTypes
  <2> HIDE DEF Loads
  <2>5. CASE GetTask
    BY <1>2, <2>2, <2>5
  <2>6. CASE AnswerTask
    BY <1>2, <2>1, <2>2, <2>3, <2>4, <2>6, <2>8
  <2>7. CASE FillTask
    BY <1>1, <1>2, <2>2, <2>7 DEF ChoiceInv
  <2> QED
    BY <2>5, <2>6, <2>7
<1>8. WorkflowTypes'
  BY <1>1, <1>5, <1>7 DEF WorkflowTypes, awsVars, Latest
<1>9. currentState' \in {"service", "fillService"} =>
        /\ wf'.family \in Families /\ RegionOf[wf'.family] = wf'.client /\ wf'.def.family = wf'.family
        /\ wf'.def # NoDef
  <2> SUFFICES ASSUME currentState' \in {"service", "fillService"}
               PROVE  /\ wf'.family \in Families /\ RegionOf[wf'.family] = wf'.client
                      /\ wf'.def.family = wf'.family /\ wf'.def # NoDef
    OBVIOUS
  <2>1. PICK f \in Families : Loads(f)
    BY <1>7
  <2>2. wf'.def.family = f /\ wf'.family = f /\ RegionOf[f] = wf'.client
    BY <1>7, <2>1 DEF Here
  <2>3. NoDef.family \notin Families
    BY ECSAssumption DEF NoDef
  <2> QED
    BY <2>2, <2>3
<1>10. ChoiceInv'
  <2>1. currentState' \in RegionChosen /\ flags.tty => wf'.client \in Regions /\ wf'.region = wf'.client
    BY <1>1, <1>3, <1>7 DEF ChoiceInv, Interactive, FromFlags, Choosing, RegionChosen, ClusterChosen
  <2>2. currentState' \in ClusterChosen /\ flags.tty => wf'.cluster \in Clusters /\ RegionOf[wf'.cluster] = wf'.client
    BY <1>1, <1>3, <1>7 DEF ChoiceInv, Here, Interactive, FromFlags, Choosing, ClusterChosen
  <2>3. currentState' = "fillService" => flags.service # None /\ flags.task # None
    BY <1>1, <1>3 DEF ChoiceInv
  <2> QED
    BY <1>1, <1>3, <1>4, <1>7, <1>9, <2>1, <2>2, <2>3 DEF ChoiceInv, Here, Interactive, FromFlags, Choosing,
       TaskChosen, ServiceChosen
<1>11. flags.task = None /\ currentState' \in TaskChosen => AgentsAtFirst(wf'.def.family) = 0
  <2>1. \A f \in Families : Agents(f) = AgentsAtFirst(f)
    <3>1. \A f \in Families : Latest(f) \in 1..Latest(f)
      BY <1>1, <1>6 DEF WorkflowTypes
    <3> QED
      BY <1>1, <1>5, <3>1 DEF UntouchedInv, Agents
  <2>2. currentState' \in TaskChosen => currentState' = "service"
    BY <1>3 DEF TaskChosen, ServiceChosen
  <2>3. ASSUME NEW f \in Families, Loads(f) PROVE wf'.def.family = f
    BY <2>3
  <2> HIDE DEF Loads
  <2> QED
    BY <1>7, <2>1, <2>2, <2>3
<1>12. outcome' \in {"running", "success", "error", "interrupted"}
       /\ (currentState' = "end") = (outcome' # "running")
  BY WorkflowFacts
<1> QED
  BY <1>5, <1>7, <1>8, <1>10, <1>11, <1>12, QuietStep

LEMMA ServiceStep ==
  ASSUME WorkflowIInv, GetService \/ AnswerService \/ FillService
  PROVE  WorkflowIInv'
<1> USE DEF GetService, AnswerService, FillService, LoadService, Quiet, Goto, End
<1>1. WorkflowTypes /\ ChoiceInv /\ UntouchedInv
  BY WorkflowFacts DEF WorkflowIInv
<1>2. wf \in WfType /\ (flags.service # None => flags.service \in Services)
  BY WorkflowFacts
<1>3. /\ currentState \in {"service", "askService", "fillService"}
      /\ currentState' \in {"task", "cluster", "confirm", "askService", "fillSecrets", "end"}
  OBVIOUS
<1>4. /\ flags.tty => currentState' # "fillSecrets"
      /\ ~ flags.tty => currentState' \in {"fillSecrets", "end"}
  BY <1>1 DEF ChoiceInv, Interactive, FromFlags, Choosing
<1>5. /\ wf' \in WfType
      /\ wf'.client = wf.client /\ wf'.region = wf.region /\ wf'.cluster = wf.cluster
      /\ wf'.family = wf.family /\ wf'.def = wf.def /\ wf'.at = wf.at
      /\ wf'.svc # wf.svc => wf'.svc \in Matching /\ (flags.service # None => wf'.svc = flags.service)
      /\ currentState' = "confirm" => wf'.svc \in Matching
  <2>1. ASSUME NEW v \in Services, wf' = [wf EXCEPT !.svc = v]
        PROVE  /\ wf' \in WfType
               /\ wf'.client = wf.client /\ wf'.region = wf.region /\ wf'.cluster = wf.cluster
               /\ wf'.family = wf.family /\ wf'.def = wf.def /\ wf'.at = wf.at /\ wf'.svc = v
    BY <1>2, <2>1 DEF WfType
  <2>2. Matching \subseteq Services
    BY DEF Matching
  <2>3. CASE GetService
    BY <1>1, <1>2, <2>1, <2>2, <2>3 DEF ChoiceInv, Interactive
  <2>4. CASE AnswerService
    BY <1>1, <1>2, <2>1, <2>2, <2>4 DEF ChoiceInv
  <2>5. CASE FillService
    BY <1>1, <1>2, <2>1, <2>2, <2>5 DEF ChoiceInv
  <2> QED
    BY <2>3, <2>4, <2>5
<1>6. Matching' = Matching
  BY <1>5 DEF Matching, awsVars
<1>7. /\ found' \in SUBSET (Clusters \cup Services)
      /\ currentState' = "askService" => found' \subseteq Matching /\ flags.service = None
  BY <1>1, <1>3, <1>5 DEF WorkflowTypes, Matching, ChoiceInv, FromFlags
<1>8. currentState \in Early /\ currentState' \in Early \cup {"end"}
  BY <1>3 DEF Early, Interactive, FromFlags, Choosing
<1>9. WorkflowTypes'
  BY <1>1, <1>5, <1>7, <1>8 DEF WorkflowTypes, awsVars, Latest
<1>10. ChoiceInv'
  <2>1. flags.tty =>
          /\ wf'.client \in Regions /\ wf'.region = wf'.client
          /\ wf'.cluster \in Clusters /\ RegionOf[wf'.cluster] = wf'.client
          /\ wf'.family \in Families /\ RegionOf[wf'.family] = wf'.client /\ wf'.def.family = wf'.family
    BY <1>1, <1>3, <1>5 DEF ChoiceInv, Here, FromFlags, RegionChosen, ClusterChosen, TaskChosen
  <2>2. currentState' = "fillSecrets" => flags.task # None /\ wf'.def # NoDef
    BY <1>1, <1>3, <1>4, <1>5 DEF ChoiceInv, Interactive, Choosing
  <2>3. flags.service # None => wf'.svc \in {None, flags.service}
    BY <1>1, <1>5 DEF ChoiceInv
  <2> QED
    BY <1>3, <1>4, <1>5, <1>6, <1>7, <2>1, <2>2, <2>3 DEF ChoiceInv, Here, Interactive, FromFlags,
       Choosing, ServiceChosen
<1>11. flags.task = None /\ currentState' \in TaskChosen => AgentsAtFirst(wf'.def.family) = 0
  <2>1. currentState' \in TaskChosen => currentState \in TaskChosen \ {"update"}
    BY <1>1, <1>3 DEF TaskChosen, ServiceChosen, ChoiceInv, FromFlags
  <2> QED
    BY <1>1, <1>5, <2>1 DEF UntouchedInv
<1>12. outcome' \in {"running", "success", "error", "interrupted"}
       /\ (currentState' = "end") = (outcome' # "running")
  BY WorkflowFacts
<1> QED
  BY <1>5, <1>8, <1>9, <1>10, <1>11, <1>12, QuietStep

(* Only consent, or a command line without a terminal, leads to a change. *)
LEMMA ConfirmStep ==
  ASSUME WorkflowIInv, Interrupt \/ Confirm \/ AnswerConfirm \/ UsageError \/ FillSecrets
  PROVE  WorkflowIInv'
<1> USE DEF Interrupt, Confirm, AnswerConfirm, UsageError, FillSecrets, Quiet, Goto, End
<1>1. WorkflowTypes /\ ChoiceInv /\ UntouchedInv
  BY WorkflowFacts DEF WorkflowIInv
<1>2. /\ currentState \in Choosing \cup {"confirm", "askConfirm", "usage", "fillSecrets"}
      /\ currentState' \in {"askConfirm", "modify", "end"}
      /\ UNCHANGED <<wf, found>>
  BY DEF Choosing
<1>3. /\ currentState' = "askConfirm" => currentState = "confirm" /\ ~ flags.dryRun
      /\ currentState' = "modify" => \/ currentState = "askConfirm" /\ confirmed'
                                     \/ currentState = "fillSecrets" /\ ~ flags.dryRun
  BY DEF Choosing
<1>4. currentState \in Early /\ currentState' \in Early \cup {"end"}
  BY <1>2 DEF Early, Interactive, FromFlags, Choosing
<1>5. WorkflowTypes'
  BY <1>1, <1>2, <1>4 DEF WorkflowTypes, awsVars, Latest
<1>6. Matching' = Matching /\ UNCHANGED <<flags, wf, found>>
  BY <1>2 DEF Matching, awsVars
<1>7. flags.tty /\ currentState' \in {"askConfirm", "modify"} => currentState \in {"confirm", "askConfirm"}
  BY <1>1, <1>3 DEF ChoiceInv, FromFlags
<1>8. ChoiceInv'
  <2>1. flags.tty /\ currentState' \in {"askConfirm", "modify"} =>
          /\ wf.client \in Regions /\ wf.region = wf.client
          /\ wf.cluster \in Clusters /\ RegionOf[wf.cluster] = wf.client
          /\ wf.family \in Families /\ RegionOf[wf.family] = wf.client /\ wf.def.family = wf.family
          /\ wf.svc \in Matching
    BY <1>1, <1>7 DEF ChoiceInv, Here, RegionChosen, ClusterChosen, TaskChosen, ServiceChosen
  <2>2. currentState' = "askConfirm" => flags.tty
    BY <1>1, <1>3 DEF ChoiceInv, Interactive
  <2>3. currentState' = "modify" => /\ wf.def # NoDef /\ ~ flags.dryRun /\ (flags.tty => confirmed')
                                    /\ (~ flags.tty => flags.task # None)
    <3>1. CASE currentState = "askConfirm" /\ confirmed'
      <4>1. wf.def.family \in Families /\ flags.tty /\ ~ flags.dryRun
        BY <1>1, <3>1 DEF ChoiceInv, Interactive, TaskChosen, ServiceChosen
      <4>2. NoDef.family \notin Families
        BY ECSAssumption DEF NoDef
      <4> QED
        BY <3>1, <4>1, <4>2
    <3>2. CASE currentState = "fillSecrets" /\ ~ flags.dryRun
      BY <1>1, <3>2 DEF ChoiceInv, FromFlags
    <3> QED
      BY <1>3, <3>1, <3>2
  <2>4. flags.service # None => wf.svc \in {None, flags.service}
    BY <1>1 DEF ChoiceInv
  <2> QED
    BY <1>2, <1>3, <1>6, <2>1, <2>2, <2>3, <2>4 DEF ChoiceInv, Here, Interactive, FromFlags, Choosing,
       RegionChosen, ClusterChosen, TaskChosen, ServiceChosen
<1>9. flags.task = None /\ currentState' \in TaskChosen => AgentsAtFirst(wf'.def.family) = 0
  <2>1. flags.task = None /\ currentState' \in TaskChosen => currentState \in {"confirm", "askConfirm"}
    BY <1>1, <1>2, <1>3 DEF TaskChosen, ServiceChosen, ChoiceInv
  <2> QED
    BY <1>1, <1>2, <2>1 DEF UntouchedInv, TaskChosen, ServiceChosen
<1>10. outcome' \in {"running", "success", "error", "interrupted"}
       /\ (currentState' = "end") = (outcome' # "running")
  BY WorkflowFacts
<1>11. UNCHANGED <<flags, kind, awsVars, seen, polls, said>>
  OBVIOUS
<1> QED
  BY <1>2, <1>4, <1>5, <1>8, <1>9, <1>10, <1>11, QuietStep

(* Waiting for the deployment changes nothing in AWS; "deployed" is said   *)
(* in the state the invariant describes.                                   *)
LEMMA WaitStep ==
  ASSUME WorkflowIInv, FindDeployment \/ PollDeployment \/ Report
  PROVE  WorkflowIInv'
<1> USE DEF FindDeployment, PollDeployment, Report, Goto, End, awsVars
<1>1. WorkflowTypes /\ ChoiceInv /\ UntouchedInv /\ RegisteredInv /\ WorkflowInv /\ EndIsExplained
  BY DEF WorkflowIInv
<1>2. /\ currentState \in {"wait", "poll"} /\ currentState' \in {"poll", "end"}
      /\ UNCHANGED <<flags, kind, defs, running, rollout, others, wf, found, confirmed>>
      /\ said' = said \/ (said' = said \cup {"deployed"} /\ currentState' = "end" /\ outcome' = "success")
      /\ outcome' = "success" => "deployed" \in said'
  BY <1>1, WorkflowFacts
<1>3. WorkflowTypes'
  BY <1>1, <1>2 DEF WorkflowTypes, Latest
<1>4. ChoiceInv'
  BY <1>1, <1>2 DEF ChoiceInv, Interactive, FromFlags, Choosing, RegionChosen, ClusterChosen, TaskChosen,
     ServiceChosen
<1>5. UntouchedInv'
  BY <1>1, <1>2 DEF UntouchedInv, Early, Interactive, FromFlags, Choosing, TaskChosen, ServiceChosen
<1>6. /\ said = {} /\ rollout # None /\ wf.svc # None
      /\ running[wf.svc].family = wf.def.family
      /\ others = 0 => running[wf.svc] = wf.def
      /\ defs[wf.def.family][wf.def.rev].agents > AgentsAtFirst(wf.def.family)
  BY <1>1, <1>2 DEF RegisteredInv
<1>12. currentState' = "poll" =>
         \/ seen' \in {"inProgress", "failed"}
         \/ seen' = "completed" /\ rollout' = "completed"
         \/ seen' = "zero" /\ polls' > 0
  <2>1. rollout \in {"inProgress", "completed", "failed"} /\ polls \in Nat
    BY <1>1, <1>6, ECSAssumption DEF WorkflowInv, WorkflowTypeOK
  <2> QED
    BY <2>1
<1>7. RegisteredInv'
  BY <1>2, <1>6, <1>12, FirstStays DEF RegisteredInv
<1>13. "deployed" \in said' => \/ seen' = "completed" /\ rollout' = "completed"
                               \/ seen' = "zero" /\ polls' > 0 /\ rollout' # None
  <2>1. Report \/ said' = {}
    BY <1>6
  <2> QED
    BY <1>1, <1>6, <2>1 DEF RegisteredInv
<1>8. WorkflowTypeOK'
  <2>1. WorkflowTypeOK
    BY <1>1 DEF WorkflowInv
  <2>2. polls' \in 0..MaxPolls /\ seen' \in {None, "inProgress", "completed", "failed", "zero"}
    BY <2>1, ECSAssumption DEF WorkflowTypeOK
  <2>3. outcome' \in {"running", "success", "error", "interrupted"}
        /\ (currentState' = "end") = (outcome' # "running")
    BY WorkflowFacts
  <2> QED
    BY <1>2, <2>1, <2>2, <2>3 DEF WorkflowTypeOK, Latest
<1>9. UNCHANGED Changed
  BY <1>2 DEF Changed, Latest, FirstRevision
<1>10. WorkflowInv'
  BY <1>1, <1>2, <1>8, <1>9 DEF WorkflowInv, TargetIsConsistent, ChangesAreWanted, PickedTaskHasOneAgent,
     NoDeploymentUndone, OtherServicesUntouched, Latest
<1>11. EndIsExplained'
  BY <1>2, <1>6, <1>13, FirstStays DEF EndIsExplained, AnnouncedServiceWasUpdated, OrphanIsReported, SuccessIsComplete,
     AgentsAtFirst
<1> QED
  BY <1>3, <1>4, <1>5, <1>7, <1>10, <1>11 DEF WorkflowIInv

LEMMA RolloutStep ==
  ASSUME WorkflowIInv, RolloutEnds
  PROVE  WorkflowIInv'
<1> USE DEF RolloutEnds, wfVars
<1>1. WorkflowTypes /\ ChoiceInv /\ UntouchedInv /\ RegisteredInv /\ WorkflowInv /\ EndIsExplained
  BY DEF WorkflowIInv
<1>2. rollout # None /\ rollout' # None /\ rollout' \in {None, "inProgress", "completed", "failed"}
      /\ currentState \notin Early
  BY <1>1 DEF UntouchedInv, None
<1>3. WorkflowTypes' /\ ChoiceInv'
  BY <1>1 DEF WorkflowTypes, ChoiceInv, Latest, Here, Matching
<1>4. UntouchedInv' /\ RegisteredInv'
  BY <1>1, <1>2, FirstStays DEF UntouchedInv, RegisteredInv, Latest
<1>5. Changed /\ Changed'
  BY <1>2 DEF Changed
<1>6. WorkflowInv'
  BY <1>1, <1>2, <1>5 DEF WorkflowInv, WorkflowTypeOK, TargetIsConsistent, ChangesAreWanted,
     PickedTaskHasOneAgent, NoDeploymentUndone, OtherServicesUntouched, Latest
<1>7. EndIsExplained'
  BY <1>1, <1>2, <1>5 DEF EndIsExplained, AnnouncedServiceWasUpdated, OrphanIsReported, SuccessIsComplete,
     FirstRevision
<1> QED
  BY <1>3, <1>4, <1>6, <1>7 DEF WorkflowIInv

(* A revision is appended to a family: what was there stays. *)
LEMMA AppendRevision ==
  ASSUME WorkflowTypes, NEW f \in Families, NEW r \in Revision,
         defs' = [defs EXCEPT ![f] = Append(@, r)]
  PROVE  /\ defs' \in [Families -> Seq(Revision)]
         /\ \A g \in Families : Latest(g) \in Nat /\ Latest(g) > 0 /\ Latest(g)' > 0
                                /\ Latest(g)' = IF g = f THEN Latest(f) + 1 ELSE Latest(g)
         /\ \A g \in Families : \A i \in 1..Latest(g) : defs'[g][i] = defs[g][i] /\ defs[g][i] \in Revision
         /\ defs'[f][Latest(f) + 1] = r
<1>1. \A g \in Families : defs[g] \in Seq(Revision) /\ Len(defs[g]) \in Nat
  BY DEF WorkflowTypes
<1>2. \A g \in Families : defs'[g] = IF g = f THEN Append(defs[f], r) ELSE defs[g]
  BY DEF WorkflowTypes
<1>3. Append(defs[f], r) \in Seq(Revision) /\ Len(Append(defs[f], r)) = Len(defs[f]) + 1
      /\ (\A i \in 1..Len(defs[f]) : Append(defs[f], r)[i] = defs[f][i])
      /\ Append(defs[f], r)[Len(defs[f]) + 1] = r
  BY <1>1
<1>4. \A g \in Families : \A i \in 1..Latest(g) : defs[g][i] \in Revision
  BY <1>1 DEF Latest
<1>5. defs' \in [Families -> Seq(Revision)]
  BY <1>1, <1>3 DEF WorkflowTypes
<1>6. \A g \in Families : Latest(g) > 0
  BY DEF WorkflowTypes
<1> QED
  BY <1>1, <1>2, <1>3, <1>4, <1>5, <1>6 DEF Latest

(* The one change of the task definition: a copy of the loaded revision    *)
(* with one agent more.                                                    *)
LEMMA ModifyStep ==
  ASSUME WorkflowIInv, ModifyTask
  PROVE  WorkflowIInv'
<1> USE DEF ModifyTask, Goto, End
<1> DEFINE f == wf.def.family
           prev == defs[f][wf.def.rev]
           new == [prev EXCEPT !.agents = @ + 1]
<1>1. WorkflowTypes /\ ChoiceInv /\ UntouchedInv /\ RegisteredInv /\ WorkflowInv /\ EndIsExplained
      /\ WorkflowTypeOK /\ wf \in WfType /\ currentState = "modify" /\ outcome = "running"
  BY WorkflowFacts DEF WorkflowIInv, WorkflowInv
<1>2. f \in Families /\ wf.def.rev \in 1..Latest(f) /\ wf.def # NoDef
  BY <1>1 DEF ChoiceInv, WorkflowTypeOK
<1>3. prev \in Revision /\ prev.agents \in Nat /\ prev.app \in Nat
  <2>1. defs[f] \in Seq(Revision) /\ wf.def.rev \in 1..Len(defs[f])
    BY <1>1, <1>2 DEF WorkflowTypes, Latest
  <2>2. prev \in Revision
    BY <2>1
  <2> QED
    BY <2>2 DEF Revision
<1>4. /\ rollout = None /\ said = {}
      /\ \A g \in Families : \A i \in 1..Latest(g) :
           defs[g][i].agents = AgentsAtFirst(g) /\ defs[g][i].app <= defs[g][Latest(g)].app
      /\ wf.at = others /\ flags.revision = 0 => wf.def.rev = Latest(f)
      /\ prev.agents = AgentsAtFirst(f)
  BY <1>1, <1>2 DEF UntouchedInv, Early
<1>5. CASE UNCHANGED <<defs, wf>> /\ End("error")
  <2>1. UNCHANGED <<flags, kind, awsVars, seen, polls, said>> /\ UNCHANGED <<wf, found, confirmed>>
        /\ currentState' = "end" /\ outcome' = "error"
    BY <1>5 DEF awsVars
  <2>2. WorkflowTypes'
    BY <1>1, <2>1 DEF WorkflowTypes, awsVars, Latest
  <2>3. ChoiceInv'
    BY <1>1, <2>1 DEF ChoiceInv, Interactive, FromFlags, Choosing, RegionChosen, ClusterChosen, TaskChosen,
       ServiceChosen
  <2>4. currentState \in Early /\ currentState' \notin TaskChosen
    BY <2>1 DEF Early, TaskChosen, ServiceChosen
  <2> HIDE DEF ModifyTask
  <2> QED
    BY <2>1, <2>2, <2>3, <2>4, QuietStep
<1>6. CASE /\ defs' = [defs EXCEPT ![f] = Append(@, new)]
           /\ wf' = [wf EXCEPT !.def.rev = Latest(f) + 1]
           /\ Goto("update")
  <2>1. new \in Revision /\ new.agents = prev.agents + 1 /\ new.app = prev.app
    BY <1>3 DEF Revision
  <2>2. /\ defs' \in [Families -> Seq(Revision)]
        /\ \A g \in Families : Latest(g) \in Nat /\ Latest(g) > 0 /\ Latest(g)' > 0
                               /\ Latest(g)' = IF g = f THEN Latest(f) + 1 ELSE Latest(g)
        /\ \A g \in Families : \A i \in 1..Latest(g) : defs'[g][i] = defs[g][i] /\ defs[g][i] \in Revision
        /\ defs'[f][Latest(f) + 1] = new
    BY <1>1, <1>2, <1>6, <2>1, AppendRevision
  <2>3. /\ wf' \in WfType /\ wf'.def = [family |-> f, rev |-> Latest(f) + 1]
        /\ wf'.at = wf.at /\ wf'.svc = wf.svc /\ wf'.client = wf.client /\ wf'.region = wf.region
        /\ wf'.cluster = wf.cluster /\ wf'.family = wf.family
    <3>1. wf.def \in [family : Families \cup {None}, rev : Nat]
      BY <1>1 DEF WfType
    <3>2. wf' = [wf EXCEPT !.def = [family |-> f, rev |-> Latest(f) + 1]]
      BY <1>6, <3>1
    <3>3. Latest(f) + 1 \in Nat
      BY <1>2, <2>2
    <3> HIDE DEF ModifyTask, new, prev
    <3> QED
      BY <1>1, <1>2, <3>2, <3>3 DEF WfType
  <2>4. wf'.def.family = f /\ wf'.def.rev = Latest(f) + 1 /\ wf'.def # NoDef
    <3>1. NoDef.family \notin Families
      BY ECSAssumption DEF NoDef
    <3> QED
      BY <1>2, <2>3, <3>1
  <2>5. UNCHANGED <<flags, kind, running, rollout, others, found, seen, polls, said, confirmed, outcome>>
        /\ currentState' = "update"
    BY <1>6
  <2>6. \A g \in Families : \A i \in 1..Latest(g)' :
           \/ i \in 1..Latest(g) /\ defs'[g][i] = defs[g][i]
           \/ g = f /\ i = Latest(f) + 1 /\ defs'[g][i] = new
    <3> SUFFICES ASSUME NEW g \in Families, NEW i \in 1..Latest(g)', i \notin 1..Latest(g)
                 PROVE  g = f /\ i = Latest(f) + 1
      BY <2>2
    <3> HIDE DEF ModifyTask, f, new, prev
    <3> QED
      BY <2>2
  <2> HIDE DEF ModifyTask, f, prev, new
  <2>7. WorkflowTypes'
    BY <1>1, <2>2, <2>3, <2>5 DEF WorkflowTypes
  <2>8. ChoiceInv'
    <3>1. Matching' = Matching
      BY <2>3, <2>5 DEF Matching
    <3> QED
      BY <1>1, <2>3, <2>4, <2>5, <3>1 DEF ChoiceInv, Here, Interactive, FromFlags, Choosing, RegionChosen,
         ClusterChosen, TaskChosen, ServiceChosen, f
  <2>9. UntouchedInv'
    BY <1>1, <2>3, <2>5 DEF UntouchedInv, Early, Interactive, FromFlags, Choosing
  <2>10. new.agents > AgentsAtFirst(f)
    BY <1>3, <1>4, <2>1
  <2>11. RegisteredInv'
    BY <1>4, <2>2, <2>4, <2>5, <2>10, FirstStays DEF RegisteredInv
  <2>12. WorkflowTypeOK'
    <3>1. \A v \in Services : running[v].family \in Families
      BY <1>1 DEF WorkflowTypes
    <3>2. ASSUME NEW v \in Services PROVE running[v].rev \in 1..Len(defs'[running[v].family])
      <4>1. running[v].rev \in 1..Latest(running[v].family)
        BY <1>1 DEF WorkflowTypeOK
      <4>2. \A g \in Families : Len(defs'[g]) \in Nat /\ Latest(g) \in Nat /\ Latest(g) <= Len(defs'[g])
        BY <2>2 DEF Latest
      <4> QED
        BY <3>1, <4>1, <4>2
    <3>3. wf'.def.family \in Families /\ wf'.def.rev \in 1..Len(defs'[wf'.def.family])
      BY <1>2, <2>2, <2>4 DEF Latest, f
    <3>4. /\ wf'.region \in Regions \cup {None} /\ wf'.client \in Regions \cup {None}
          /\ wf'.cluster \in Clusters \cup {None} /\ wf'.svc \in Services \cup {None}
          /\ wf'.family \in Families \cup {None}
      BY <2>3 DEF WfType
    <3> QED
      BY <1>1, <2>5, <3>2, <3>3, <3>4 DEF WorkflowTypeOK, Latest
  <2>13. TargetIsConsistent'
    BY <1>1, <2>3, <2>4, <2>5 DEF WorkflowInv, TargetIsConsistent, f
  <2>14. ChangesAreWanted'
    BY <1>1, <2>5 DEF ChangesAreWanted, ChoiceInv
  <2>15. PickedTaskHasOneAgent'
    <3>1. flags.task = None => AgentsAtFirst(f) = 0
      BY <1>1 DEF UntouchedInv, TaskChosen, ServiceChosen, f
    <3>2. flags.task = None => new.agents = 1
      BY <1>4, <2>1, <3>1
    <3> QED
      BY <1>1, <2>5, <2>6, <3>2 DEF WorkflowInv, PickedTaskHasOneAgent
  <2>16. NoDeploymentUndone'
    <3> SUFFICES ASSUME wf.at = others, flags.revision = 0, NEW i \in 1..(Latest(f) + 1)
                 PROVE  defs'[f][i].app <= new.app
      BY <2>2, <2>3, <2>4, <2>5 DEF NoDeploymentUndone
    <3>1. CASE i = Latest(f) + 1
      BY <1>3, <2>1, <2>2, <3>1
    <3>2. CASE i \in 1..Latest(f)
      BY <1>2, <1>4, <2>1, <2>2, <3>2 DEF prev
    <3> QED
      BY <1>2, <2>2, <3>1, <3>2
  <2>17. OtherServicesUntouched' /\ EndIsExplained'
    BY <1>1, <1>4, <2>3, <2>5 DEF WorkflowInv, OtherServicesUntouched, EndIsExplained, AnnouncedServiceWasUpdated,
       OrphanIsReported, SuccessIsComplete
  <2> QED
    BY <2>7, <2>8, <2>9, <2>11, <2>12, <2>13, <2>14, <2>15, <2>16, <2>17 DEF WorkflowIInv, WorkflowInv
<1> QED
  BY <1>5, <1>6

(* The one change of a service: to the revision with the agent, or a word  *)
(* about what is left behind.                                              *)
LEMMA UpdateStep ==
  ASSUME WorkflowIInv, UpdateService
  PROVE  WorkflowIInv'
<1> USE DEF UpdateService, Goto, End
<1>1. WorkflowTypes /\ ChoiceInv /\ UntouchedInv /\ RegisteredInv /\ WorkflowInv /\ EndIsExplained
      /\ WorkflowTypeOK /\ wf \in WfType /\ currentState = "update" /\ outcome = "running"
  BY WorkflowFacts DEF WorkflowIInv, WorkflowInv
<1>2. /\ wf.def.family \in Families /\ wf.def.rev \in 1..Latest(wf.def.family)
      /\ wf.def # NoDef /\ said = {} /\ rollout = None /\ ~ flags.dryRun /\ (flags.tty => confirmed)
      /\ defs[wf.def.family][wf.def.rev].agents > AgentsAtFirst(wf.def.family)
  BY <1>1 DEF ChoiceInv, WorkflowTypeOK, RegisteredInv
<1>3. /\ UNCHANGED <<flags, kind, defs, others, wf, found, seen, polls, confirmed>>
      /\ currentState' \in {"wait", "end"} /\ outcome' = (IF currentState' = "end" THEN "error" ELSE "running")
  BY <1>1
<1>4. \A f : Latest(f)' = Latest(f)
  BY <1>3 DEF Latest
<1>5. ChoiceInv' /\ UntouchedInv' /\ ChangesAreWanted'
  BY <1>1, <1>2, <1>3 DEF ChoiceInv, UntouchedInv, ChangesAreWanted, Early, Interactive, FromFlags, Choosing,
     RegionChosen, ClusterChosen, TaskChosen, ServiceChosen
<1>6. TargetIsConsistent' /\ PickedTaskHasOneAgent' /\ NoDeploymentUndone'
  BY <1>1, <1>3, <1>4 DEF WorkflowInv, TargetIsConsistent, PickedTaskHasOneAgent, NoDeploymentUndone
<1>7. CASE currentState' = "end"
  <2>1. UNCHANGED <<running, rollout>> /\ said' = {"orphan"} /\ outcome' = "error"
    BY <1>2, <1>7
  <2>2. WorkflowTypes' /\ RegisteredInv'
    BY <1>1, <1>3, <1>7, <2>1 DEF WorkflowTypes, RegisteredInv, Latest
  <2>3. WorkflowTypeOK'
    BY <1>1, <1>3, <1>7, <2>1 DEF WorkflowTypeOK, Latest
  <2>4. OtherServicesUntouched' /\ EndIsExplained'
    BY <1>1, <1>2, <1>3, <2>1 DEF WorkflowInv, OtherServicesUntouched, EndIsExplained,
       AnnouncedServiceWasUpdated, OrphanIsReported, SuccessIsComplete
  <2> QED
    BY <1>5, <1>6, <2>2, <2>3, <2>4 DEF WorkflowIInv, WorkflowInv
<1>8. CASE currentState' = "wait"
  <2>1. /\ wf.svc \in Services /\ wf.svc # None /\ said' = {} /\ outcome' = "running"
        /\ running' = [running EXCEPT ![wf.svc] = wf.def] /\ rollout' = "inProgress" /\ rollout' # None
    BY <1>1, <1>2, <1>8 DEF WfType, None
  <2>2. wf.def \in [family : Families, rev : Nat]
    <3>1. wf.def \in [family : Families \cup {None}, rev : Nat]
      BY <1>1 DEF WfType
    <3> QED
      BY <1>2, <3>1
  <2>3. \A v \in Services : running'[v] = IF v = wf.svc THEN wf.def ELSE running[v]
    BY <1>1, <2>1 DEF WorkflowTypes
  <2>4. WorkflowTypes'
    BY <1>1, <1>3, <1>8, <2>1, <2>2 DEF WorkflowTypes, Latest
  <2>5. RegisteredInv'
    BY <1>2, <1>3, <1>8, <2>1, <2>3, FirstStays DEF RegisteredInv
  <2>6. WorkflowTypeOK'
    <3>1. \A v \in Services : running'[v].rev \in 1..Latest(running'[v].family)
      BY <1>1, <1>2, <2>3 DEF WorkflowTypeOK
    <3> QED
      BY <1>1, <1>2, <1>3, <1>8, <2>1, <3>1 DEF WorkflowTypeOK, Latest
  <2>7. OtherServicesUntouched'
    BY <1>1, <1>2, <1>3, <2>1, <2>3 DEF WorkflowInv, OtherServicesUntouched, ChoiceInv
  <2>8. EndIsExplained'
    BY <2>1 DEF EndIsExplained, AnnouncedServiceWasUpdated, OrphanIsReported, SuccessIsComplete
  <2> QED
    BY <1>5, <1>6, <2>4, <2>5, <2>6, <2>7, <2>8 DEF WorkflowIInv, WorkflowInv
<1> QED
  BY <1>3, <1>7, <1>8

(* Somebody else's deployment keeps the families of services and every     *)
(* revision there is, and makes the loaded one out of date.                *)
LEMMA OtherDeploysStep ==
  ASSUME WorkflowIInv, NEW v \in Services, OtherDeploys(v)
  PROVE  WorkflowIInv'
<1> USE DEF OtherDeploys, wfVars
<1> DEFINE f == running[v].family
           last == defs[f][Latest(f)]
           new == [last EXCEPT !.app = @ + 1]
<1>1. WorkflowTypes /\ ChoiceInv /\ UntouchedInv /\ RegisteredInv /\ WorkflowInv /\ EndIsExplained
      /\ WorkflowTypeOK /\ wf \in WfType /\ currentState # "end" /\ outcome = "running"
  BY WorkflowFacts DEF WorkflowIInv, WorkflowInv
<1>2. f \in Families /\ others \in Nat
  BY <1>1 DEF WorkflowTypes
<1>3. last \in Revision /\ last.agents \in Nat /\ last.app \in Nat /\ Latest(f) \in 1..Latest(f)
  <2>1. defs[f] \in Seq(Revision) /\ Latest(f) \in 1..Len(defs[f]) /\ Latest(f) \in 1..Latest(f)
    BY <1>1, <1>2 DEF WorkflowTypes, Latest
  <2>2. last \in Revision
    BY <2>1
  <2> QED
    BY <2>1, <2>2 DEF Revision
<1>4. new \in Revision /\ new.agents = last.agents /\ new.app = last.app + 1
  BY <1>3 DEF Revision
<1>5. /\ defs' \in [Families -> Seq(Revision)]
      /\ \A g \in Families : Latest(g) \in Nat /\ Latest(g) > 0 /\ Latest(g)' > 0
                             /\ Latest(g)' = IF g = f THEN Latest(f) + 1 ELSE Latest(g)
      /\ \A g \in Families : \A i \in 1..Latest(g) : defs'[g][i] = defs[g][i] /\ defs[g][i] \in Revision
      /\ defs'[f][Latest(f) + 1] = new
  <2>1. defs' = [defs EXCEPT ![f] = Append(@, new)]
    OBVIOUS
  <2> HIDE DEF OtherDeploys, f, last, new
  <2> QED
    BY <1>1, <1>2, <1>4, <2>1, AppendRevision
<1>6. UNCHANGED <<flags, currentState, wf, found, seen, polls, outcome, said, confirmed, kind, rollout>>
      /\ others' = others + 1
  OBVIOUS
<1>7. \A w \in Services : running'[w] =
        IF w = v THEN [family |-> f, rev |-> Latest(f) + 1] ELSE running[w]
  <2>1. running[v] \in [family : Families, rev : Nat]
    BY <1>1 DEF WorkflowTypes
  <2> QED
    BY <1>1, <2>1 DEF WorkflowTypes
<1>8. running' \in [Services -> [family : Families, rev : Nat]]
  BY <1>1, <1>2, <1>5 DEF WorkflowTypes
<1> HIDE DEF OtherDeploys, f, last, new
<1>9. \A w \in Services : running'[w].family = running[w].family
  BY <1>7 DEF f
<1>10. \A g \in Families : \A i \in 1..Latest(g)' :
         \/ i \in 1..Latest(g) /\ defs'[g][i] = defs[g][i]
         \/ g = f /\ i = Latest(f) + 1 /\ defs'[g][i] = new
  <2> SUFFICES ASSUME NEW g \in Families, NEW i \in 1..Latest(g)', i \notin 1..Latest(g)
               PROVE  g = f /\ i = Latest(f) + 1
    BY <1>5
  <2> QED
    BY <1>5
<1>11. \A g \in Families : Len(defs'[g]) \in Nat /\ Latest(g) <= Len(defs'[g])
       /\ Len(defs'[g]) = (IF g = f THEN Latest(f) + 1 ELSE Latest(g))
  BY <1>2, <1>5 DEF Latest
<1>12. WorkflowTypes'
  BY <1>1, <1>2, <1>5, <1>6, <1>8 DEF WorkflowTypes
<1>13. ChoiceInv'
  <2>1. Matching' = Matching
    BY <1>6, <1>9 DEF Matching
  <2> QED
    BY <1>1, <1>6, <2>1 DEF ChoiceInv, Here
<1>14. wf.at < others' /\ wf.at # others' /\ others' # 0
  BY <1>1, <1>2, <1>6 DEF UntouchedInv, WfType
<1>15. UntouchedInv'
  <2>1. ASSUME currentState \in Early, NEW g \in Families, NEW i \in 1..Latest(g)'
        PROVE  defs'[g][i].agents = AgentsAtFirst(g) /\ defs'[g][i].app <= defs'[g][Len(defs'[g])].app
    <3>1. \A j \in 1..Latest(g) : /\ defs[g][j].agents = AgentsAtFirst(g)
                                  /\ defs[g][j].app <= defs[g][Latest(g)].app
                                  /\ defs[g][j].app \in Nat
      BY <1>1, <1>5, <2>1 DEF UntouchedInv, Revision
    <3>2. CASE g # f
      BY <1>5, <1>10, <1>11, <3>1, <3>2
    <3>3. CASE g = f
      <4>1. defs'[g][Len(defs'[g])].app = last.app + 1
        BY <1>4, <1>5, <1>11, <3>3
      <4>2. last.agents = AgentsAtFirst(f) /\ \A j \in 1..Latest(g) : defs[g][j].app <= last.app
        BY <1>3, <3>1, <3>3 DEF last
      <4>3. CASE i \in 1..Latest(g) /\ defs'[g][i] = defs[g][i]
        BY <1>3, <3>1, <4>1, <4>2, <4>3
      <4>4. CASE i = Latest(f) + 1 /\ defs'[g][i] = new
        BY <1>3, <1>4, <3>3, <4>1, <4>2, <4>4
      <4> QED
        BY <1>10, <4>3, <4>4
    <3> QED
      BY <3>2, <3>3
  <2>2. wf.at <= others'
    BY <1>1, <1>2, <1>6, <1>14 DEF WfType
  <2>3. flags.task = None /\ currentState \in TaskChosen \ {"update"} => AgentsAtFirst(wf.def.family) = 0
    BY <1>1 DEF UntouchedInv
  <2> QED
    BY <1>1, <1>6, <1>14, <2>1, <2>2, <2>3, FirstStays DEF UntouchedInv, Latest
<1>16. wf.def # NoDef => /\ wf.def.family \in Families /\ wf.def.rev \in 1..Latest(wf.def.family)
                         /\ wf.def.rev \in 1..Len(defs'[wf.def.family])
                         /\ defs'[wf.def.family][wf.def.rev] = defs[wf.def.family][wf.def.rev]
  BY <1>1, <1>5, <1>11 DEF WorkflowTypeOK
<1>17. said = {}
  BY <1>1 DEF WorkflowTypes, UntouchedInv, RegisteredInv
<1>18. RegisteredInv'
  <2>1. currentState \in {"update", "wait", "poll"} => wf.def # NoDef
    BY <1>1 DEF ChoiceInv
  <2>2. wf.svc # None => running'[wf.svc].family = running[wf.svc].family
    BY <1>1, <1>9 DEF WfType
  <2> QED
    BY <1>1, <1>6, <1>14, <1>16, <2>1, <2>2, FirstStays DEF RegisteredInv
<1>19. WorkflowTypeOK'
  <2>1. ASSUME NEW w \in Services PROVE running'[w].rev \in 1..Len(defs'[running'[w].family])
    <3>1. CASE w = v
      BY <1>2, <1>5, <1>7, <1>11, <3>1
    <3>2. CASE w # v
      <4>1. running'[w] = running[w] /\ running[w].family \in Families
            /\ running[w].rev \in 1..Latest(running[w].family)
        BY <1>1, <1>7, <3>2 DEF WorkflowTypeOK, WorkflowTypes
      <4> QED
        BY <1>5, <1>11, <4>1
    <3> QED
      BY <3>1, <3>2
  <2> QED
    BY <1>1, <1>6, <1>16, <2>1 DEF WorkflowTypeOK, Latest
<1>20. TargetIsConsistent'
  <2>1. flags.tty /\ currentState \in {"confirm", "askConfirm", "modify", "update"} => wf.svc \in Services
    BY <1>1 DEF ChoiceInv, ServiceChosen, Matching
  <2> QED
    BY <1>1, <1>6, <1>9, <2>1 DEF WorkflowInv, TargetIsConsistent
<1>21. ChangesAreWanted'
  <2>1. Changed' => Changed
    <3>1. ASSUME NEW g \in Families, NEW i \in 1..Latest(g)', defs'[g][i].agents > FirstRevision(kind[g]).agents
          PROVE  \E j \in 1..Latest(g) : defs[g][j].agents > FirstRevision(kind[g]).agents
      <4>1. CASE i \in 1..Latest(g) /\ defs'[g][i] = defs[g][i]
        BY <3>1, <4>1
      <4>2. CASE g = f /\ i = Latest(f) + 1 /\ defs'[g][i] = new
        BY <1>3, <1>4, <3>1, <4>2 DEF last
      <4> QED
        BY <1>10, <4>1, <4>2
    <3>2. \A g : FirstRevision(kind[g])' = FirstRevision(kind[g])
      BY <1>6 DEF FirstRevision
    <3> QED
      BY <1>6, <3>1, <3>2 DEF Changed
  <2> QED
    BY <1>1, <1>6, <2>1 DEF WorkflowInv, ChangesAreWanted
<1>22. PickedTaskHasOneAgent'
  <2>1. flags.task = None => new.agents <= 1
    BY <1>1, <1>2, <1>3, <1>4 DEF WorkflowInv, PickedTaskHasOneAgent, last
  <2> QED
    BY <1>1, <1>6, <1>10, <2>1 DEF WorkflowInv, PickedTaskHasOneAgent
<1>23. NoDeploymentUndone' /\ OtherServicesUntouched'
  BY <1>1, <1>6, <1>14 DEF WorkflowInv, NoDeploymentUndone, OtherServicesUntouched
<1>24. EndIsExplained'
  BY <1>1, <1>6, <1>17 DEF EndIsExplained, AnnouncedServiceWasUpdated, OrphanIsReported, SuccessIsComplete
<1> QED
  BY <1>12, <1>13, <1>15, <1>18, <1>19, <1>20, <1>21, <1>22, <1>23, <1>24 DEF WorkflowIInv, WorkflowInv

LEMMA WorkflowStep == WorkflowIInv /\ [WorkflowNext]_workflowVars => WorkflowIInv'
<1> SUFFICES ASSUME WorkflowIInv, [WorkflowNext]_workflowVars PROVE WorkflowIInv'
  OBVIOUS
<1>1. CASE UNCHANGED workflowVars
  <2>1. UNCHANGED <<flags, currentState, wf, found, seen, polls, outcome, said, confirmed, kind, defs, running,
                    rollout, others>>
    BY <1>1 DEF workflowVars, wfVars, awsVars
  <2>2. WorkflowTypes' /\ ChoiceInv'
    BY <2>1 DEF WorkflowIInv, WorkflowTypes, ChoiceInv, Latest, Here, Matching
  <2>3. UntouchedInv' /\ RegisteredInv'
    BY <2>1, FirstStays DEF WorkflowIInv, UntouchedInv, RegisteredInv, Latest
  <2>4. UNCHANGED Changed
    BY <2>1 DEF Changed, Latest, FirstRevision
  <2>5. WorkflowInv'
    BY <2>1, <2>4 DEF WorkflowIInv, WorkflowInv, WorkflowTypeOK, TargetIsConsistent, ChangesAreWanted,
       PickedTaskHasOneAgent, NoDeploymentUndone, OtherServicesUntouched, Latest
  <2>6. EndIsExplained'
    BY <2>1, <2>4 DEF WorkflowIInv, EndIsExplained, AnnouncedServiceWasUpdated, OrphanIsReported,
       SuccessIsComplete, FirstRevision
  <2> QED
    BY <2>2, <2>3, <2>5, <2>6 DEF WorkflowIInv
<1>2. CASE Step
  BY <1>2, ProfileStep, ClusterStep, TaskStep, ServiceStep, ConfirmStep, ModifyStep, UpdateStep, WaitStep DEF Step
<1>3. CASE User
  BY <1>3, ProfileStep, ClusterStep, TaskStep, ServiceStep, ConfirmStep DEF User
<1> QED
  BY <1>1, <1>2, <1>3, RolloutStep, OtherDeploysStep DEF WorkflowNext

(* However often the user of "ecs add" went back, and whoever deploys      *)
(* beside it, what the workflow is about to change fits together, and AWS  *)
(* is changed only as wanted.                                              *)
THEOREM WorkflowTheorem == WorkflowSpec => [](WorkflowIInv /\ WorkflowInv)
<1>1. WorkflowIInv => WorkflowInv
  BY DEF WorkflowIInv
<1> QED
  BY <1>1, WorkflowStarts, WorkflowStep, PTL DEF WorkflowSpec

(* "ecs add" announces only a deployment that it began and that was        *)
(* completed when it last looked, or whose last poll failed; it mentions a *)
(* revision it leaves behind, and never ends without an error after a      *)
(* change it says nothing of.                                              *)
THEOREM ExplainedTheorem == WorkflowSpec => []EndIsExplained
<1>1. WorkflowIInv => EndIsExplained
  BY DEF WorkflowIInv
<1> QED
  BY <1>1, WorkflowStarts, WorkflowStep, PTL DEF WorkflowSpec
=============================================================================
