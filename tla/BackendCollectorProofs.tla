----------------------- MODULE BackendCollectorProofs -----------------------
(***************************************************************************)
(* Proofs about BackendCollector, for any keys, reports, expiration, batch *)
(* size and number of sessions: what the three goroutines do to an entry   *)
(* of pairCache neither loses a half nor uploads it more than twice, and   *)
(* what was uploaded is true.                                              *)
(***************************************************************************)
EXTENDS BackendCollector, FiniteSetTheorems, TLAPS

(* Which halves an object holds: its own once it is stored, both once they *)
(* are merged; no half is in two objects.                                  *)
ContentInv ==
  /\ \A o \in Objects : content[o] # {} => o[2] \in content[o]
  /\ \A o \in Objects : \A h \in content[o] : <<o[1], h>> \in captured
  /\ \A o, p \in Objects : o[1] = p[1] /\ content[o] \cap content[p] # {} => o = p
  /\ \A o \in Objects : content[o] = Halves /\ src[o] # "client" => proc = "flipping" /\ merged = o

(* An entry of the cache holds its own half only, and no other entry has   *)
(* its key.                                                                *)
EntryInv ==
  /\ \A o \in cache : /\ content[o] = {o[2]}
                      /\ src[o] = IF o[2] = "request" THEN "client" ELSE "server"
  /\ \A o, p \in cache : o[1] = p[1] => o = p

(* The capture goroutine holds a pair that it has yet to report. *)
Pairing == proc \in {"flipping", "uploading"}

(* Where the capture goroutine and the flusher that Close runs are. *)
ProcInv ==
  /\ Pairing => merged \in Objects \ cache /\ content[merged] = Halves
  /\ proc = "flipping" => src[merged] = "server"
  /\ ~ Pairing => merged = NoObject
  /\ batchClosed <=> proc = "closed"
  /\ proc \in {"idle", "flipping", "uploading", "closed"} => fl["closer"].pc = "idle"
  /\ fl["closer"].pc \in {"idle", "scan", "upload", "delete"}
  /\ fl["closer"].pc = "idle" => fl["closer"].todo = {}
  /\ \A f \in Flushers : fl[f].pc \in {"upload", "delete"} => fl[f].cur \in Objects

Holds(f, o) == fl[f].pc \in {"upload", "delete"} /\ fl[f].cur = o

(* A half was given to the batcher in time or dropped for a reason. *)
Accounted(o) == queued[o] > 0 \/ o \in rejected

(* An object that a flusher has loaded is still the entry of its key, or   *)
(* there is none; while packets come, it left the cache only for its pair. *)
FlushInv ==
  \A f \in Flushers : \A o \in Objects : Holds(f, o) =>
    /\ content[o] # {}
    /\ \A p \in cache : p[1] = o[1] => p = o
    /\ f = "periodic" /\ proc \in {"idle", "flipping", "uploading"} => o \in cache \/ content[o] = Halves
    /\ fl[f].pc = "delete" /\ o \in cache => Accounted(o) \/ proc = "closed"

(* What Close has yet to flush. *)
CloserInv ==
  proc \in {"closing", "closed"} =>
    \A o \in cache : \/ obs[o] >= fl["closer"].cutoff
                     \/ o[1] \in fl["closer"].todo
                     \/ Holds("closer", o)

(* Where a captured half is. *)
LossInv ==
  \A o \in captured \cap Objects :
    \/ Accounted(o)
    \/ o \in cache
    \/ Pairing /\ o[1] = merged[1]
    \/ proc = "closed" /\ obs[o] >= fl["closer"].cutoff

(* Uploads of an object that may still come: one by periodicFlush, one by  *)
(* the capture goroutine, of the pair or in Close.                         *)
MayFlush(o) ==
  IF \/ o \in cache /\ ~(fl["periodic"].pc = "delete" /\ fl["periodic"].cur = o)
     \/ fl["periodic"].pc = "upload" /\ fl["periodic"].cur = o
  THEN 1 ELSE 0

MayUpload(o) ==
  IF \/ o \in cache /\ ~(fl["closer"].pc = "delete" /\ fl["closer"].cur = o)
     \/ fl["closer"].pc = "upload" /\ fl["closer"].cur = o
     \/ Pairing /\ merged = o
  THEN 1 ELSE 0

(* Half o is in some object. *)
Stored(o) == \E x \in Objects : x[1] = o[1] /\ o[2] \in content[x]

CopiesInv ==
  /\ \A o \in Objects : queued[o] # 0 => Stored(o)
  /\ \A o \in Objects : \A h \in content[o] :
       queued[<<o[1], h>>] + MayFlush(o) + MayUpload(o) <= 2

(* What periodicFlush has loaded is old enough. *)
AgeInv ==
  /\ fl["periodic"].pc \in {"scan", "upload", "delete"} => fl["periodic"].cutoff + Expiration <= now
  /\ \A o \in Objects : fl["periodic"].pc = "upload" /\ fl["periodic"].cur = o
                          => obs[o] < fl["periodic"].cutoff
  /\ early = {}

(* A report is true of what was captured, and stays so. *)
TrueReport(r) ==
  /\ r.objects \subseteq captured
  /\ Cardinality(r.objects) = 2 /\ r.src = "server" =>
       \/ merged # NoObject /\ merged[1] = r.id
       \/ r.id \in resolved

TrueBatch(reports) ==
  /\ reports \in Seq(Reports)
  /\ \A i \in 1..Len(reports) : TrueReport(reports[i])

TrueDeliveries(ds) ==
  /\ ds \subseteq [report : Reports, session : 1..MaxSession]
  /\ \A d \in ds : /\ TrueReport(d.report)
                   /\ \A o \in d.report.objects : sessionAt[o] <= d.session

ReportInv ==
  /\ \A o \in Objects : sessionAt[o] <= session
  /\ TrueBatch(batch)
  /\ TrueDeliveries(delivered)

IInv == /\ TypeOK /\ ContentInv /\ EntryInv /\ ProcInv /\ FlushInv /\ CloserInv
        /\ LossInv /\ CopiesInv /\ AgeInv /\ ReportInv

-----------------------------------------------------------------------------
(* An object is its key and its half. *)
LEMMA Pairs ==
  /\ \A o \in Objects : o[1] \in Keys /\ o[2] \in Halves /\ o = <<o[1], o[2]>>
  /\ \A k \in Keys, h \in Halves : /\ <<k, h>> \in Objects
                                   /\ <<k, h>>[1] = k /\ <<k, h>>[2] = h
  /\ \A o, p \in Objects : o[1] = p[1] /\ o[2] = p[2] => o = p
  BY DEF Objects

(* reportBuffer.Flush: what is delivered is true if the batch is, whatever *)
(* becomes of the upload.                                                  *)
LEMMA UploadKeeps ==
  ASSUME TypeOK, ReportInv, NEW reports, TrueBatch(reports), NEW ok \in BOOLEAN,
         UploadBatch(reports, ok)
  PROVE  /\ TrueDeliveries(delivered')
         /\ rejected' \subseteq Objects /\ rejected \subseteq rejected'
<1>1. \A i \in 1..Len(reports) : reports[i] \in Reports /\ TrueReport(reports[i])
  BY DEF TrueBatch
<1>2. \A r \in Reports : r.objects \subseteq Objects
  BY DEF Reports
<1>3. CASE ok
  <2>1. delivered' = delivered \cup {[report |-> reports[i], session |-> session] : i \in 1..Len(reports)}
        /\ rejected' = rejected
    BY <1>3 DEF UploadBatch
  <2>2. ASSUME NEW i \in 1..Len(reports)
        PROVE  /\ [report |-> reports[i], session |-> session] \in [report : Reports, session : 1..MaxSession]
               /\ \A o \in reports[i].objects : sessionAt[o] <= session
    BY <1>1, <1>2 DEF TypeOK, ReportInv
  <2>3. TrueDeliveries(delivered')
    BY <2>1, <2>2, <1>1 DEF TrueDeliveries, ReportInv
  <2> QED
    BY <2>1, <2>3 DEF TypeOK
<1>4. CASE ~ok
  <2>1. delivered' = delivered /\ rejected' = rejected \cup UNION {reports[i].objects : i \in 1..Len(reports)}
    BY <1>4 DEF UploadBatch
  <2>2. UNION {reports[i].objects : i \in 1..Len(reports)} \subseteq Objects
    BY <1>1, <1>2
  <2> QED
    BY <2>1, <2>2 DEF TypeOK, ReportInv
<1> QED
  BY <1>3, <1>4

(* batcher.Add keeps the buffer below its size and true. *)
LEMMA AddKeeps ==
  ASSUME TypeOK, ReportInv, NEW r \in Reports, TrueReport(r), AddReport(r)
  PROVE  /\ TrueBatch(batch') /\ Len(batch') < MaxBatch
         /\ TrueDeliveries(delivered')
         /\ rejected' \subseteq Objects /\ rejected \subseteq rejected'
<1>1. /\ Append(batch, r) \in Seq(Reports) /\ Len(Append(batch, r)) = Len(batch) + 1
      /\ \A i \in 1..Len(batch) : Append(batch, r)[i] = batch[i]
      /\ Append(batch, r)[Len(batch) + 1] = r
  BY DEF TypeOK
<1>2. Len(batch) \in Nat /\ 1..(Len(batch) + 1) = 1..Len(batch) \cup {Len(batch) + 1}
  BY DEF TypeOK
<1>3. TrueBatch(Append(batch, r))
  BY <1>1, <1>2 DEF TrueBatch, ReportInv
<1>4. TrueBatch(<<>>) /\ Len(<<>>) < MaxBatch
  BY BackendAssumption DEF TrueBatch, BackendAssumption
<1>5. CASE batchClosed
  BY <1>5 DEF AddReport, TypeOK, ReportInv
<1>6. CASE ~batchClosed /\ Len(batch) + 1 >= MaxBatch
  <2>1. batch' = <<>>
    BY <1>6 DEF AddReport
  <2>2. PICK ok \in BOOLEAN : UploadBatch(Append(batch, r), ok)
    BY <1>6 DEF AddReport
  <2> QED
    BY <2>1, <2>2, <1>3, <1>4, UploadKeeps
<1>7. CASE ~batchClosed /\ ~(Len(batch) + 1 >= MaxBatch)
  <2>1. batch' = Append(batch, r) /\ delivered' = delivered /\ rejected' = rejected
    BY <1>7 DEF AddReport
  <2>2. Len(batch') < MaxBatch
    BY <2>1, <1>1, <1>2, <1>7, BackendAssumption DEF BackendAssumption
  <2> QED
    BY <2>1, <2>2, <1>3 DEF TypeOK, ReportInv
<1> QED
  BY <1>5, <1>6, <1>7

(* The witness of an object: it is reported with two halves only once both *)
(* are merged.                                                             *)
LEMMA WitnessIsTrue ==
  ASSUME TypeOK, ContentInv, NEW o \in Objects
  PROVE  WitnessReport(o) \in Reports /\ TrueReport(WitnessReport(o))
<1> DEFINE objs == {<<o[1], h>> : h \in content[o]}
<1>1. content[o] \subseteq Halves /\ src[o] \in {"client", "server"} /\ o[1] \in Keys
  BY Pairs DEF TypeOK
<1>2. objs \subseteq Objects
  BY <1>1, Pairs
<1>3. objs \subseteq captured
  BY DEF ContentInv
<1>4. content[o] # Halves => Cardinality(objs) # 2
  <2>1. CASE content[o] = {}
    BY <2>1, FS_EmptySet
  <2>2. ASSUME NEW h, content[o] = {h}
        PROVE  Cardinality(objs) # 2
    <3>1. objs = {<<o[1], h>>}
      BY <2>2
    <3>2. Cardinality({<<o[1], h>>}) = 1
      BY FS_Singleton, Zenon
    <3> HIDE DEF objs
    <3> QED
      BY <3>1, <3>2
  <2>3. content[o] \in {{}, {"request"}, {"response"}, Halves}
    BY <1>1 DEF Halves
  <2> QED
    BY <2>1, <2>2, <2>3
<1>5. content[o] = Halves /\ src[o] # "client" => merged # NoObject /\ merged[1] = o[1]
  <2>1. o # NoObject
    BY DEF Objects, NoObject
  <2> QED
    BY <2>1 DEF ContentInv
<1>6. /\ WitnessReport(o).id = o[1]
      /\ WitnessReport(o).objects = objs
      /\ WitnessReport(o).src = src[o]
  BY DEF WitnessReport
<1>7. WitnessReport(o) \in Reports
  BY <1>1, <1>2 DEF WitnessReport, Reports
<1>8. TrueReport(WitnessReport(o))
  BY <1>3, <1>4, <1>5, <1>6 DEF TrueReport
<1> QED
  BY <1>7, <1>8

(* queueUpload: the halves of the object are counted once, or dropped; the *)
(* other halves are left alone.                                            *)
LEMMA UploadCounts ==
  ASSUME TypeOK, ContentInv, ReportInv, NEW o \in Objects, QueueUpload(o)
  PROVE  /\ TrueBatch(batch') /\ Len(batch') < MaxBatch
         /\ TrueDeliveries(delivered')
         /\ rejected' \subseteq Objects /\ rejected \subseteq rejected'
         /\ batchClosed' = batchClosed
         /\ queued' \in [Objects -> Nat]
         /\ \A p \in Objects : /\ queued'[p] \in {queued[p], queued[p] + 1}
                               /\ queued'[p] # queued[p] => p[1] = o[1] /\ p[2] \in content[o]
         /\ ~batchClosed => \A p \in Objects : p[1] = o[1] /\ p[2] \in content[o]
                                             => queued'[p] > 0 \/ p \in rejected'
<1>1. /\ WitnessReport(o) \in Reports /\ TrueReport(WitnessReport(o))
      /\ WitnessReport(o).objects = {<<o[1], h>> : h \in content[o]}
      /\ WitnessReport(o).objects \subseteq Objects
  BY WitnessIsTrue DEF WitnessReport, Reports
<1>2. CASE CountUpload(o) /\ AddReport(WitnessReport(o)) /\ UNCHANGED batchClosed
  <2>1. /\ TrueBatch(batch') /\ Len(batch') < MaxBatch
        /\ TrueDeliveries(delivered')
        /\ rejected' \subseteq Objects /\ rejected \subseteq rejected'
    BY <1>1, <1>2, AddKeeps
  <2>2. \A p \in Objects : queued[p] \in Nat
    BY DEF TypeOK
  <2>3. queued' = [p \in Objects |-> IF ~batchClosed /\ p[1] = o[1] /\ p[2] \in content[o]
                                     THEN queued[p] + 1 ELSE queued[p]]
    BY <1>2 DEF CountUpload
  <2> QED
    BY <1>2, <2>1, <2>2, <2>3
<1>3. CASE /\ rejected' = rejected \cup WitnessReport(o).objects
           /\ UNCHANGED <<queued, batch, batchClosed, delivered>>
  <2>1. \A p \in Objects : p[1] = o[1] /\ p[2] \in content[o] => p \in rejected'
    BY <1>1, <1>3, Pairs
  <2>2. \A p \in Objects : queued[p] \in Nat
    BY DEF TypeOK
  <2> QED
    BY <1>1, <1>3, <2>1, <2>2 DEF TypeOK, ReportInv
<1> QED
  BY <1>2, <1>3 DEF QueueUpload

(* What is true of the reports stays so while more is captured. *)
LEMMA TruthStays ==
  ASSUME TypeOK, TrueBatch(batch'), TrueDeliveries(delivered'),
         captured \subseteq captured', resolved \subseteq resolved',
         merged # NoObject => merged' = merged \/ merged[1] \in resolved',
         \A x \in captured \cap Objects : sessionAt'[x] = sessionAt[x],
         session' \in 1..MaxSession, \A x \in Objects : sessionAt'[x] <= session'
  PROVE  ReportInv'
<1>1. ASSUME NEW r, TrueReport(r)
      PROVE  TrueReport(r)'
  BY <1>1 DEF TrueReport
<1>2. TrueBatch(batch)'
  BY <1>1 DEF TrueBatch
<1>3. \A d \in delivered' : /\ d.report.objects \subseteq captured \cap Objects
                            /\ TrueReport(d.report)
  BY DEF TrueDeliveries, TrueReport, Reports
<1>4. TrueDeliveries(delivered)'
  BY <1>1, <1>3 DEF TrueDeliveries
<1> QED
  BY <1>2, <1>4 DEF ReportInv

CachePart == /\ ContentInv /\ EntryInv /\ ProcInv /\ FlushInv /\ CloserInv
             /\ LossInv /\ CopiesInv /\ AgeInv

(* Steps that leave the cache and the goroutines alone: only time passes,  *)
(* a report is dropped, or something other than a half is captured.        *)
LEMMA CacheFrame ==
  ASSUME TypeOK, CachePart,
         UNCHANGED <<cache, content, src, obs, proc, merged, fl, batchClosed, queued, early>>,
         captured \subseteq captured', captured' \cap Objects \subseteq captured,
         rejected \subseteq rejected',
         now' \in Nat, now <= now'
  PROVE  CachePart'
<1> USE DEF Pairing
<1>1. ContentInv'
  BY DEF CachePart, ContentInv
<1>2. EntryInv' /\ ProcInv'
  BY DEF CachePart, EntryInv, ProcInv
<1>3. FlushInv' /\ CloserInv'
  BY DEF CachePart, FlushInv, CloserInv, Holds, Accounted
<1>4. LossInv'
  BY DEF CachePart, LossInv, Accounted
<1>5. CopiesInv'
  BY DEF CachePart, CopiesInv, Stored, MayFlush, MayUpload
<1>6. AgeInv'
  BY BackendAssumption DEF CachePart, AgeInv, TypeOK, BackendAssumption, Flushers
<1> QED
  BY <1>1, <1>2, <1>3, <1>4, <1>5, <1>6 DEF CachePart

(* Tick, SwitchLearnSession, FlushBatch and ProcessOther. *)
LEMMA QuietSteps ==
  ASSUME IInv, \/ Tick \/ SwitchLearnSession \/ FlushBatch \/ \E r \in Others : ProcessOther(r)
  PROVE  IInv'
<1> USE DEF cacheVars, batchVars, Pairing
<1>0. TypeOK /\ CachePart /\ ReportInv
  BY DEF IInv, CachePart
<1>t. now \in Nat /\ session \in 1..MaxSession /\ MaxSession \in Nat /\ sessionAt \in [Objects -> 0..MaxSession]
  BY <1>0, BackendAssumption DEF TypeOK, BackendAssumption
<1>1. CASE Tick
  <2>1. CachePart'
    BY <1>0, <1>1, <1>t, CacheFrame DEF Tick
  <2>2. TypeOK'
    BY <1>0, <1>1 DEF Tick, TypeOK
  <2>3. ReportInv'
    BY <1>0, <1>1 DEF Tick, ReportInv, TrueBatch, TrueDeliveries, TrueReport
  <2> QED
    BY <2>1, <2>2, <2>3 DEF IInv, CachePart
<1>2. CASE SwitchLearnSession
  <2>1. CachePart'
    BY <1>0, <1>2, <1>t, CacheFrame DEF SwitchLearnSession
  <2>2. TypeOK'
    BY <1>0, <1>2, <1>t DEF SwitchLearnSession, TypeOK
  <2>3. session' \in 1..MaxSession /\ \A x \in Objects : sessionAt'[x] <= session'
    BY <1>0, <1>2, <1>t DEF SwitchLearnSession, ReportInv
  <2>4. TrueBatch(batch') /\ TrueDeliveries(delivered')
    BY <1>0, <1>2 DEF SwitchLearnSession, ReportInv
  <2>5. ReportInv'
    BY <1>0, <1>2, <2>3, <2>4, TruthStays DEF SwitchLearnSession
  <2> QED
    BY <2>1, <2>2, <2>5 DEF IInv, CachePart
<1>3. CASE FlushBatch
  <2>1. PICK ok \in BOOLEAN : UploadBatch(batch, ok)
    BY <1>3 DEF FlushBatch
  <2>2. TrueDeliveries(delivered') /\ rejected' \subseteq Objects /\ rejected \subseteq rejected'
    BY <1>0, <2>1, UploadKeeps DEF ReportInv
  <2>3. TrueBatch(batch') /\ Len(batch') < MaxBatch
    BY <1>3, BackendAssumption DEF FlushBatch, TrueBatch, BackendAssumption
  <2>4. CachePart'
    BY <1>0, <1>3, <1>t, <2>2, CacheFrame DEF FlushBatch
  <2>5. TypeOK'
    BY <1>0, <1>3, <2>2, <2>3 DEF FlushBatch, TypeOK, TrueBatch, TrueDeliveries
  <2>6. ReportInv'
    BY <1>0, <1>3, <1>t, <2>2, <2>3, TruthStays DEF FlushBatch, ReportInv
  <2> QED
    BY <2>4, <2>5, <2>6 DEF IInv, CachePart
<1>4. ASSUME NEW r \in Others, ProcessOther(r)
      PROVE  IInv'
  <2> DEFINE rep == [id |-> r, objects |-> {}, src |-> "client"]
  <2>1. rep \in Reports /\ TrueReport(rep)
    BY FS_EmptySet DEF Reports, TrueReport
  <2>2. /\ TrueBatch(batch') /\ Len(batch') < MaxBatch
        /\ TrueDeliveries(delivered')
        /\ rejected' \subseteq Objects /\ rejected \subseteq rejected'
    BY <1>0, <1>4, <2>1, AddKeeps DEF ProcessOther
  <2>3. captured' = captured \cup {r} /\ r \notin Objects
    BY <1>4, BackendAssumption DEF ProcessOther, BackendAssumption
  <2>4. CachePart'
    BY <1>0, <1>4, <1>t, <2>2, <2>3, CacheFrame DEF ProcessOther
  <2>5. TypeOK'
    BY <1>0, <1>4, <2>2, <2>3 DEF ProcessOther, TypeOK, TrueBatch, TrueDeliveries
  <2>6. ReportInv'
    BY <1>0, <1>4, <1>t, <2>2, <2>3, TruthStays DEF ProcessOther, ReportInv
  <2> QED
    BY <2>4, <2>5, <2>6 DEF IInv, CachePart
<1> QED
  BY <1>1, <1>2, <1>3, <1>4

(* Steps that upload nothing leave the reports as they are. *)
LEMMA ReportsFrame ==
  ASSUME ReportInv, UNCHANGED <<captured, session, sessionAt, batch, delivered, merged, resolved>>
  PROVE  ReportInv'
  BY DEF ReportInv, TrueBatch, TrueDeliveries, TrueReport

(* flushPairCache starts and returns: what was in the cache at its start   *)
(* is what it has to visit.                                                *)
LEMMA FlusherStartsAndReturns ==
  ASSUME IInv, \/ PeriodicTick \/ PeriodicReturns \/ CloseBegin
               \/ \E f \in Flushers : FlushReturns(f)
  PROVE  IInv'
<1> USE DEF cacheVars, batchVars, Pairing
<1> DEFINE Places == [pc : {"idle", "scan", "upload", "delete", "done"}, todo : SUBSET Keys,
                      cur : Objects \cup {NoObject}, cutoff : Int]
<1>t. /\ TypeOK /\ fl \in [Flushers -> Places] /\ CacheKeys \subseteq Keys
      /\ now \in Nat /\ Expiration \in Nat /\ cache \subseteq Objects
  BY Pairs, BackendAssumption DEF IInv, TypeOK, CacheKeys, BackendAssumption
<1>u. /\ UNCHANGED <<cacheVars, batchVars, now, session, sessionAt, merged, resolved, early>>
      /\ flushDone' \in BOOLEAN
  BY <1>t DEF PeriodicTick, PeriodicReturns, CloseBegin, FlushReturns, TypeOK
<1>f. proc' = "flipping" <=> proc = "flipping"
  BY DEF PeriodicTick, PeriodicReturns, CloseBegin, FlushReturns
<1>r. ReportInv' /\ ContentInv' /\ EntryInv'
  BY <1>u, <1>f, ReportsFrame DEF IInv, ContentInv, EntryInv
<1>1. CASE PeriodicTick
  <2>1. /\ fl["periodic"].pc = "idle" /\ proc' = proc
        /\ fl'["periodic"] = [pc |-> "scan", todo |-> CacheKeys, cur |-> NoObject, cutoff |-> now - Expiration]
        /\ fl'["closer"] = fl["closer"]
        /\ fl' \in [Flushers -> Places]
    BY <1>1, <1>t DEF PeriodicTick, Flushers
  <2>2. TypeOK'
    BY <1>t, <1>u, <2>1 DEF TypeOK
  <2>3. ProcInv'
    BY <1>u, <2>1 DEF IInv, ProcInv, Flushers
  <2>4. FlushInv'
    BY <1>u, <2>1 DEF IInv, FlushInv, Holds, Accounted, Flushers
  <2>5. CloserInv' /\ LossInv'
    BY <1>u, <2>1 DEF IInv, CloserInv, LossInv, Holds, Accounted
  <2>6. CopiesInv'
    BY <1>u, <2>1 DEF IInv, CopiesInv, Stored, MayFlush, MayUpload
  <2>7. AgeInv'
    BY <1>t, <1>u, <2>1 DEF IInv, AgeInv
  <2> QED
    BY <1>r, <2>2, <2>3, <2>4, <2>5, <2>6, <2>7 DEF IInv
<1>2. CASE PeriodicReturns
  <2>1. /\ fl["periodic"].pc = "idle" /\ proc' = proc
        /\ fl'["periodic"] = [fl["periodic"] EXCEPT !.pc = "done"]
        /\ fl'["closer"] = fl["closer"]
        /\ fl' \in [Flushers -> Places]
    BY <1>2, <1>t DEF PeriodicReturns, Flushers
  <2>a. fl'["periodic"].pc = "done"
    BY <1>t, <2>1 DEF Flushers
  <2>2. TypeOK'
    BY <1>t, <1>u, <2>1 DEF TypeOK
  <2>3. ProcInv'
    BY <1>u, <2>1, <2>a DEF IInv, ProcInv, Flushers
  <2>4. FlushInv'
    BY <1>u, <2>1, <2>a DEF IInv, FlushInv, Holds, Accounted, Flushers
  <2>5. CloserInv' /\ LossInv'
    BY <1>u, <2>1 DEF IInv, CloserInv, LossInv, Holds, Accounted
  <2>6. CopiesInv'
    BY <1>u, <2>1, <2>a DEF IInv, CopiesInv, Stored, MayFlush, MayUpload
  <2>7. AgeInv'
    BY <1>t, <1>u, <2>1, <2>a DEF IInv, AgeInv
  <2> QED
    BY <1>r, <2>2, <2>3, <2>4, <2>5, <2>6, <2>7 DEF IInv
<1>3. CASE CloseBegin
  <2>1. /\ proc = "idle" /\ proc' = "closing"
        /\ fl'["closer"] = [pc |-> "scan", todo |-> CacheKeys, cur |-> NoObject, cutoff |-> now]
        /\ fl'["periodic"] = fl["periodic"]
        /\ fl' \in [Flushers -> Places]
    BY <1>3, <1>t DEF CloseBegin, Flushers
  <2>a. fl["closer"].pc = "idle"
    BY <2>1 DEF IInv, ProcInv
  <2>2. TypeOK'
    BY <1>t, <1>u, <2>1 DEF TypeOK
  <2>3. ProcInv'
    BY <1>u, <2>1 DEF IInv, ProcInv, Flushers
  <2>4. FlushInv'
    BY <1>u, <2>1 DEF IInv, FlushInv, Holds, Accounted, Flushers
  <2>5. CloserInv' /\ LossInv'
    BY <1>u, <2>1 DEF IInv, CloserInv, LossInv, Holds, Accounted, CacheKeys
  <2>6. CopiesInv'
    BY <1>u, <2>1, <2>a DEF IInv, CopiesInv, Stored, MayFlush, MayUpload
  <2>7. AgeInv'
    BY <1>t, <1>u, <2>1 DEF IInv, AgeInv
  <2> QED
    BY <1>r, <2>2, <2>3, <2>4, <2>5, <2>6, <2>7 DEF IInv
<1>4. ASSUME NEW f \in Flushers, FlushReturns(f)
      PROVE  IInv'
  <2>1. /\ fl[f].pc = "scan" /\ fl[f].todo = {} /\ proc' = proc
        /\ fl'[f] = [fl[f] EXCEPT !.pc = "idle"]
        /\ \A g \in Flushers : g # f => fl'[g] = fl[g]
        /\ fl' \in [Flushers -> Places]
    BY <1>4, <1>t DEF FlushReturns
  <2>a. /\ fl'[f].pc = "idle" /\ fl'[f].todo = {}
        /\ fl'[f].cutoff = fl[f].cutoff /\ fl'[f].cur = fl[f].cur
    BY <1>t, <2>1
  <2>2. TypeOK'
    BY <1>t, <1>u, <2>1 DEF TypeOK
  <2>3. ProcInv'
    BY <1>u, <2>1, <2>a DEF IInv, ProcInv, Flushers
  <2>4. FlushInv'
    BY <1>u, <2>1, <2>a DEF IInv, FlushInv, Holds, Accounted, Flushers
  <2>5. CloserInv' /\ LossInv'
    BY <1>u, <2>1, <2>a DEF IInv, CloserInv, LossInv, Holds, Accounted, Flushers
  <2>6. CopiesInv'
    BY <1>u, <2>1, <2>a DEF IInv, CopiesInv, Stored, MayFlush, MayUpload, Flushers
  <2>7. AgeInv'
    BY <1>t, <1>u, <2>1, <2>a DEF IInv, AgeInv, Flushers
  <2> QED
    BY <1>r, <2>2, <2>3, <2>4, <2>5, <2>6, <2>7 DEF IInv
<1> QED
  BY <1>1, <1>2, <1>3, <1>4

(* The flusher's steps: load, upload and delete of one entry. *)
LEMMA FlusherVisits ==
  ASSUME IInv, NEW f \in Flushers, FlushVisit(f)
  PROVE  IInv'
<1> USE DEF cacheVars, batchVars, Pairing
<1> DEFINE Places == [pc : {"idle", "scan", "upload", "delete", "done"}, todo : SUBSET Keys,
                      cur : Objects \cup {NoObject}, cutoff : Int]
<1>t. TypeOK /\ fl \in [Flushers -> Places] /\ cache \subseteq Objects
  BY DEF IInv, TypeOK
<1>u. UNCHANGED <<cacheVars, batchVars, now, proc, flushDone, session, sessionAt, merged, resolved, early>>
  BY DEF FlushVisit
<1>r. ReportInv' /\ ContentInv' /\ EntryInv'
  BY <1>u, ReportsFrame DEF IInv, ContentInv, EntryInv
<1>1. PICK k \in fl[f].todo :
        LET found == {o \in cache : o[1] = k /\ Expired(o, fl[f].cutoff)} IN
        fl' = [fl EXCEPT ![f].todo = @ \ {k},
                         ![f].pc = IF found = {} THEN "scan" ELSE "upload",
                         ![f].cur = IF found = {} THEN NoObject ELSE CHOOSE o \in found : TRUE]
  BY DEF FlushVisit
<1> DEFINE found == {o \in cache : o[1] = k /\ Expired(o, fl[f].cutoff)}
           c == CHOOSE o \in found : TRUE
<1>2. found # {} => c \in found
  BY Zenon
<1>3. found # {} => /\ c \in cache /\ c \in Objects /\ c[1] = k /\ obs[c] < fl[f].cutoff
                    /\ \A p \in cache : p[1] = c[1] => p = c
  BY <1>2, <1>t DEF Expired, IInv, EntryInv
<1>4. \A o \in cache : o[1] = k /\ obs[o] < fl[f].cutoff => found # {} /\ o = c
  BY <1>3 DEF Expired
<1>5. /\ fl'[f].todo = fl[f].todo \ {k}
      /\ fl'[f].pc = IF found = {} THEN "scan" ELSE "upload"
      /\ fl'[f].cur = IF found = {} THEN NoObject ELSE c
      /\ fl'[f].cutoff = fl[f].cutoff
      /\ \A g \in Flushers : g # f => fl'[g] = fl[g]
      /\ DOMAIN fl' = Flushers
  BY <1>1, <1>t
<1> HIDE DEF found, c
<1>6. fl' \in [Flushers -> Places]
  <2>1. fl' = [fl EXCEPT ![f] = [fl[f] EXCEPT !.todo = fl'[f].todo, !.pc = fl'[f].pc, !.cur = fl'[f].cur]]
    BY <1>1, <1>5, <1>t DEF found, c
  <2>2. fl'[f].pc \in {"scan", "upload"} /\ fl'[f].todo \subseteq Keys /\ fl'[f].cur \in Objects \cup {NoObject}
        /\ fl'[f].cutoff \in Int
    BY <1>3, <1>5, <1>t
  <2> QED
    BY <2>1, <2>2, <1>t
<1>s. fl[f].pc = "scan" /\ fl'[f].pc # "delete"
      /\ (fl'[f].pc = "upload" => found # {} /\ fl'[f].cur = c)
  BY <1>5 DEF FlushVisit
<1>7. TypeOK'
  BY <1>t, <1>u, <1>6 DEF TypeOK
<1>8. ProcInv'
  BY <1>u, <1>3, <1>5, <1>s DEF IInv, ProcInv, Flushers
<1>9. FlushInv'
  <2> SUFFICES ASSUME NEW g \in Flushers, NEW o \in Objects, Holds(g, o)'
               PROVE  /\ content[o] # {}
                      /\ \A p \in cache : p[1] = o[1] => p = o
                      /\ g = "periodic" /\ proc \in {"idle", "flipping", "uploading"} => o \in cache \/ content[o] = Halves
                      /\ fl'[g].pc = "delete" /\ o \in cache => Accounted(o) \/ proc = "closed"
    BY <1>u DEF FlushInv, Accounted
  <2>1. CASE g # f
    BY <2>1, <1>5 DEF IInv, FlushInv, Holds
  <2>2. CASE g = f
    <3>1. o = c /\ found # {} /\ fl'[g].pc # "delete"
      BY <2>2, <1>s DEF Holds
    <3>2. content[o] # {}
      BY <3>1, <1>3 DEF IInv, EntryInv
    <3> QED
      BY <3>1, <3>2, <1>3
  <2> QED
    BY <2>1, <2>2
<1>10. CloserInv'
  <2> SUFFICES ASSUME proc \in {"closing", "closed"}, NEW o \in cache
               PROVE  \/ obs[o] >= fl'["closer"].cutoff
                      \/ o[1] \in fl'["closer"].todo
                      \/ Holds("closer", o)'
    BY <1>u DEF CloserInv
  <2>1. CASE f # "closer"
    BY <2>1, <1>5 DEF IInv, CloserInv, Holds, Flushers
  <2>2. CASE f = "closer"
    <3>1. obs[o] \in Int /\ fl[f].cutoff \in Int
      BY <1>t DEF TypeOK
    <3>2. CASE o[1] = k /\ obs[o] < fl[f].cutoff
      BY <3>2, <2>2, <1>4, <1>5 DEF Holds
    <3>3. CASE o[1] # k
      BY <3>3, <2>2, <1>5, <1>s DEF IInv, CloserInv, Holds
    <3> QED
      BY <3>1, <3>2, <3>3, <2>2, <1>5
  <2> QED
    BY <2>1, <2>2
<1>11. LossInv'
  <2>1. fl'["closer"].cutoff = fl["closer"].cutoff
    BY <1>5 DEF Flushers
  <2> QED
    BY <1>u, <2>1 DEF IInv, LossInv, Accounted
<1>12. CopiesInv'
  <2>1. \A o \in Objects : (MayFlush(o)' = 1 => MayFlush(o) = 1) /\ (MayUpload(o)' = 1 => MayUpload(o) = 1)
    BY <1>u, <1>3, <1>5, <1>s DEF MayFlush, MayUpload, Flushers
  <2>2. \A o \in Objects : /\ MayFlush(o) \in {0, 1} /\ MayUpload(o) \in {0, 1}
                           /\ MayFlush(o)' \in {0, 1} /\ MayUpload(o)' \in {0, 1}
    BY DEF MayFlush, MayUpload
  <2>3. \A o \in Objects : \A h \in content[o] : queued[<<o[1], h>>] \in Nat
    BY <1>t, Pairs DEF TypeOK
  <2> QED
    BY <1>u, <2>1, <2>2, <2>3 DEF IInv, CopiesInv, Stored
<1>13. AgeInv'
  <2>1. CASE f = "periodic"
    BY <2>1, <1>u, <1>3, <1>5, <1>s DEF IInv, AgeInv
  <2>2. CASE f # "periodic"
    BY <2>2, <1>u, <1>5 DEF IInv, AgeInv, Flushers
  <2> QED
    BY <2>1, <2>2
<1> QED
  BY <1>r, <1>7, <1>8, <1>9, <1>10, <1>11, <1>12, <1>13 DEF IInv

LEMMA FlusherUploads ==
  ASSUME IInv, NEW f \in Flushers, FlushUpload(f)
  PROVE  IInv'
<1> USE DEF cacheVars, batchVars, Pairing
<1> DEFINE Places == [pc : {"idle", "scan", "upload", "delete", "done"}, todo : SUBSET Keys,
                      cur : Objects \cup {NoObject}, cutoff : Int]
<1>t. TypeOK /\ ContentInv /\ ReportInv /\ fl \in [Flushers -> Places] /\ cache \subseteq Objects
  BY DEF IInv, TypeOK
<1>u. UNCHANGED <<cacheVars, now, proc, flushDone, session, sessionAt, merged, resolved>>
  BY DEF FlushUpload
<1>0. PICK o \in Objects : o = fl[f].cur /\ fl[f].pc = "upload" /\ QueueUpload(o)
  BY DEF FlushUpload, IInv, ProcInv
<1>1. /\ TrueBatch(batch') /\ Len(batch') < MaxBatch
      /\ TrueDeliveries(delivered')
      /\ rejected' \subseteq Objects /\ rejected \subseteq rejected'
      /\ batchClosed' = batchClosed
      /\ queued' \in [Objects -> Nat]
      /\ \A p \in Objects : /\ queued'[p] \in {queued[p], queued[p] + 1}
                            /\ queued'[p] # queued[p] => p[1] = o[1] /\ p[2] \in content[o]
      /\ ~batchClosed => \A p \in Objects : p[1] = o[1] /\ p[2] \in content[o]
                                          => queued'[p] > 0 \/ p \in rejected'
  BY <1>t, <1>0, UploadCounts
<1>2. /\ fl' = [fl EXCEPT ![f].pc = "delete"]
      /\ fl'[f].pc = "delete" /\ fl'[f].cur = o
      /\ fl'[f].todo = fl[f].todo /\ fl'[f].cutoff = fl[f].cutoff
      /\ \A g \in Flushers : g # f => fl'[g] = fl[g]
      /\ fl' \in [Flushers -> Places]
  BY <1>0, <1>t DEF FlushUpload
<1>3. \A g \in Flushers, x \in Objects : Holds(g, x)' <=> Holds(g, x)
  BY <1>0, <1>2 DEF Holds
<1>q. \A x \in Objects : /\ queued[x] \in Nat
                         /\ queued'[x] = queued[x] \/ queued'[x] = queued[x] + 1
                         /\ queued'[x] # queued[x] => x[1] = o[1] /\ x[2] \in content[o]
  <2>1. \A x \in Objects : queued[x] \in Nat
    BY <1>t DEF TypeOK
  <2> QED
    BY <2>1, <1>1
<1>4. \A x \in Objects : queued[x] \in Nat /\ (Accounted(x) => Accounted(x)')
  BY <1>1, <1>q DEF Accounted
<1>5. early' = {}
  <2>1. CASE f = "periodic"
    <3>1. /\ fl[f].cutoff + Expiration <= now /\ obs[o] < fl[f].cutoff /\ early = {}
          /\ obs[o] \in Int /\ fl[f].cutoff \in Int /\ now \in Nat /\ Expiration \in Nat
      BY <2>1, <1>0, <1>t, BackendAssumption DEF IInv, AgeInv, TypeOK, BackendAssumption
    <3>2. ~(obs[o] + Expiration >= now)
      BY <3>1
    <3> QED
      BY <3>1, <3>2, <1>0 DEF FlushUpload
  <2>2. CASE f # "periodic"
    BY <2>2 DEF FlushUpload, IInv, AgeInv
  <2> QED
    BY <2>1, <2>2
<1>6. ReportInv'
  BY <1>t, <1>u, <1>1, TruthStays DEF TypeOK, ReportInv
<1>7. TypeOK'
  BY <1>t, <1>u, <1>1, <1>2, <1>5 DEF TypeOK, TrueBatch, TrueDeliveries
<1>8. ContentInv' /\ EntryInv'
  BY <1>u DEF IInv, ContentInv, EntryInv
<1>9. ProcInv'
  BY <1>u, <1>0, <1>1, <1>2 DEF IInv, ProcInv, Flushers
<1>10. FlushInv'
  <2> SUFFICES ASSUME NEW g \in Flushers, NEW x \in Objects, Holds(g, x)
               PROVE  /\ content[x] # {}
                      /\ \A p \in cache : p[1] = x[1] => p = x
                      /\ g = "periodic" /\ proc \in {"idle", "flipping", "uploading"} => x \in cache \/ content[x] = Halves
                      /\ fl'[g].pc = "delete" /\ x \in cache => Accounted(x)' \/ proc = "closed"
    BY <1>u, <1>3 DEF FlushInv
  <2>1. /\ content[x] # {}
        /\ \A p \in cache : p[1] = x[1] => p = x
        /\ g = "periodic" /\ proc \in {"idle", "flipping", "uploading"} => x \in cache \/ content[x] = Halves
    BY DEF IInv, FlushInv
  <2>2. ASSUME fl'[g].pc = "delete", x \in cache
        PROVE  Accounted(x)' \/ proc = "closed"
    <3>1. CASE g # f
      BY <2>2, <3>1, <1>2, <1>4 DEF IInv, FlushInv
    <3>2. CASE g = f
      <4>1. x = o /\ x[2] \in content[x]
        BY <2>2, <3>2, <1>0 DEF Holds, IInv, EntryInv
      <4>2. batchClosed => proc = "closed"
        BY DEF IInv, ProcInv
      <4> QED
        BY <4>1, <4>2, <1>1 DEF Accounted
    <3> QED
      BY <3>1, <3>2
  <2> QED
    BY <2>1, <2>2
<1>11. CloserInv'
  <2>1. fl'["closer"].cutoff = fl["closer"].cutoff /\ fl'["closer"].todo = fl["closer"].todo
    BY <1>2 DEF Flushers
  <2>2. \A x \in cache : Holds("closer", x)' <=> Holds("closer", x)
    BY <1>3, <1>t DEF Flushers
  <2> QED
    BY <1>u, <2>1, <2>2 DEF IInv, CloserInv
<1>12. LossInv'
  <2>1. fl'["closer"].cutoff = fl["closer"].cutoff
    BY <1>2 DEF Flushers
  <2> QED
    BY <1>u, <1>4, <2>1 DEF IInv, LossInv
<1>13. CopiesInv'
  <2>1. \A x \in Objects : queued'[x] # 0 => Stored(x)'
    BY <1>q, <1>u DEF IInv, CopiesInv, Stored
  <2>2. \A x \in Objects : (MayFlush(x)' = 1 => MayFlush(x) = 1) /\ (MayUpload(x)' = 1 => MayUpload(x) = 1)
    BY <1>u, <1>0, <1>2 DEF MayFlush, MayUpload, Flushers
  <2>3. \/ MayFlush(o) = 1 /\ MayFlush(o)' = 0
        \/ MayUpload(o) = 1 /\ MayUpload(o)' = 0
    <3>1. CASE f = "periodic"
      BY <3>1, <1>u, <1>0, <1>2 DEF MayFlush
    <3>2. CASE f = "closer"
      <4>1. ~ Pairing
        BY <3>2, <1>0 DEF IInv, ProcInv, Pairing
      <4> QED
        BY <3>2, <4>1, <1>u, <1>0, <1>2 DEF MayUpload, Pairing
    <3> QED
      BY <3>1, <3>2 DEF Flushers
  <2>4. \A x \in Objects : /\ MayFlush(x) \in {0, 1} /\ MayUpload(x) \in {0, 1}
                           /\ MayFlush(x)' \in {0, 1} /\ MayUpload(x)' \in {0, 1}
    BY DEF MayFlush, MayUpload
  <2>5. ASSUME NEW x \in Objects, NEW h \in content[x]
        PROVE  queued'[<<x[1], h>>] + MayFlush(x)' + MayUpload(x)' <= 2
    <3>1. /\ <<x[1], h>> \in Objects /\ <<x[1], h>>[1] = x[1] /\ <<x[1], h>>[2] = h
      BY <1>t, Pairs DEF TypeOK
    <3>2. queued[<<x[1], h>>] \in Nat /\ queued[<<x[1], h>>] + MayFlush(x) + MayUpload(x) <= 2
      BY <3>1, <1>4 DEF IInv, CopiesInv
    <3>3. CASE queued'[<<x[1], h>>] = queued[<<x[1], h>>]
      BY <3>2, <3>3, <2>2, <2>4
    <3>4. CASE queued'[<<x[1], h>>] # queued[<<x[1], h>>]
      <4>1. x = o
        <5>1. x[1] = o[1] /\ h \in content[o]
          BY <3>1, <3>4, <1>q
        <5> QED
          BY <5>1, <1>0, <1>t DEF ContentInv
      <4>2. queued'[<<x[1], h>>] = queued[<<x[1], h>>] + 1
        BY <3>1, <3>4, <1>q
      <4>3. \/ MayFlush(x) = 1 /\ MayFlush(x)' = 0
            \/ MayUpload(x) = 1 /\ MayUpload(x)' = 0
        BY <4>1, <2>3
      <4> QED
        BY <4>2, <4>3, <3>2, <2>2, <2>4
    <3> QED
      BY <3>3, <3>4
  <2> QED
    BY <1>u, <2>1, <2>5 DEF CopiesInv
<1>14. AgeInv'
  <2>1. CASE f = "periodic"
    BY <2>1, <1>u, <1>0, <1>2, <1>5 DEF IInv, AgeInv
  <2>2. CASE f # "periodic"
    BY <2>2, <1>u, <1>2, <1>5 DEF IInv, AgeInv, Flushers
  <2> QED
    BY <2>1, <2>2
<1> QED
  BY <1>6, <1>7, <1>8, <1>9, <1>10, <1>11, <1>12, <1>13, <1>14 DEF IInv

LEMMA FlusherDeletes ==
  ASSUME IInv, NEW f \in Flushers, FlushDelete(f)
  PROVE  IInv'
<1> USE DEF cacheVars, batchVars, Pairing
<1> DEFINE Places == [pc : {"idle", "scan", "upload", "delete", "done"}, todo : SUBSET Keys,
                      cur : Objects \cup {NoObject}, cutoff : Int]
<1>t. TypeOK /\ fl \in [Flushers -> Places] /\ cache \subseteq Objects
  BY DEF IInv, TypeOK
<1>u. UNCHANGED <<content, src, obs, captured, batchVars, now, proc, flushDone, session, sessionAt, merged,
                  resolved, early>>
  BY DEF FlushDelete
<1>0. PICK o \in Objects : o = fl[f].cur /\ fl[f].pc = "delete" /\ Holds(f, o)
  BY DEF FlushDelete, IInv, ProcInv, Holds
<1>1. /\ cache' = {x \in cache : x[1] # o[1]}
      /\ \A x \in cache \ cache' : x = o
  BY <1>0, <1>t DEF FlushDelete, IInv, FlushInv
<1>2. /\ fl'[f].pc = "scan" /\ fl'[f].cur = NoObject
      /\ fl'[f].todo = fl[f].todo /\ fl'[f].cutoff = fl[f].cutoff
      /\ \A g \in Flushers : g # f => fl'[g] = fl[g]
      /\ fl' \in [Flushers -> Places]
  BY <1>t DEF FlushDelete
<1>r. ReportInv' /\ ContentInv' /\ EntryInv'
  BY <1>u, <1>1, ReportsFrame DEF IInv, ContentInv, EntryInv
<1>h. \A g \in Flushers, x \in Objects : Holds(g, x)' => g # f /\ Holds(g, x) /\ fl'[g] = fl[g]
  BY <1>2 DEF Holds
<1>3. TypeOK'
  BY <1>t, <1>u, <1>1, <1>2 DEF TypeOK
<1>4. ProcInv'
  BY <1>u, <1>0, <1>1, <1>2 DEF IInv, ProcInv, Flushers
<1>5. FlushInv'
  <2> SUFFICES ASSUME NEW g \in Flushers, NEW x \in Objects, Holds(g, x)'
               PROVE  /\ content[x] # {}
                      /\ \A p \in cache' : p[1] = x[1] => p = x
                      /\ g = "periodic" /\ proc \in {"idle", "flipping", "uploading"} => x \in cache' \/ content[x] = Halves
                      /\ fl'[g].pc = "delete" /\ x \in cache' => Accounted(x) \/ proc = "closed"
    BY <1>u DEF FlushInv, Accounted
  <2>1. g # f /\ Holds(g, x) /\ fl'[g] = fl[g]
    BY <1>h
  <2>2. g = "periodic" => proc \notin {"idle", "flipping", "uploading"}
    BY <2>1, <1>0 DEF IInv, ProcInv, Flushers
  <2> QED
    BY <2>1, <2>2, <1>1 DEF IInv, FlushInv
<1>6. CloserInv'
  <2> SUFFICES ASSUME proc \in {"closing", "closed"}, NEW x \in cache'
               PROVE  \/ obs[x] >= fl'["closer"].cutoff
                      \/ x[1] \in fl'["closer"].todo
                      \/ Holds("closer", x)'
    BY <1>u DEF CloserInv
  <2>1. x \in cache /\ x[1] # o[1]
    BY <1>1
  <2>2. fl'["closer"].cutoff = fl["closer"].cutoff /\ fl'["closer"].todo = fl["closer"].todo
    BY <1>2 DEF Flushers
  <2>3. Holds("closer", x) => Holds("closer", x)'
    BY <2>1, <1>0, <1>2 DEF Holds, Flushers
  <2> QED
    BY <2>1, <2>2, <2>3 DEF IInv, CloserInv
<1>7. LossInv'
  <2>1. o \in cache => Accounted(o) \/ (proc = "closed" /\ obs[o] >= fl["closer"].cutoff)
    <3>1. ASSUME o \in cache, proc = "closed"
          PROVE  obs[o] >= fl["closer"].cutoff
      <4>1. fl["closer"].pc = "idle" /\ fl["closer"].todo = {}
        BY <3>1 DEF IInv, ProcInv
      <4> QED
        BY <3>1, <4>1 DEF IInv, CloserInv, Holds
    <3> QED
      BY <3>1, <1>0 DEF IInv, FlushInv
  <2>2. fl'["closer"].cutoff = fl["closer"].cutoff
    BY <1>2 DEF Flushers
  <2> QED
    BY <1>u, <1>1, <2>1, <2>2 DEF IInv, LossInv, Accounted
<1>8. CopiesInv'
  <2>1. \A x \in Objects : (MayFlush(x)' = 1 => MayFlush(x) = 1) /\ (MayUpload(x)' = 1 => MayUpload(x) = 1)
    BY <1>u, <1>0, <1>1, <1>2 DEF MayFlush, MayUpload, Flushers
  <2>2. \A x \in Objects : /\ MayFlush(x) \in {0, 1} /\ MayUpload(x) \in {0, 1}
                           /\ MayFlush(x)' \in {0, 1} /\ MayUpload(x)' \in {0, 1}
    BY DEF MayFlush, MayUpload
  <2>3. \A x \in Objects : \A h \in content[x] : queued[<<x[1], h>>] \in Nat
    BY <1>t, Pairs DEF TypeOK
  <2> QED
    BY <1>u, <2>1, <2>2, <2>3 DEF IInv, CopiesInv, Stored
<1>9. AgeInv'
  <2>1. CASE f = "periodic"
    BY <2>1, <1>u, <1>0, <1>2 DEF IInv, AgeInv
  <2>2. CASE f # "periodic"
    BY <2>2, <1>u, <1>2 DEF IInv, AgeInv, Flushers
  <2> QED
    BY <2>1, <2>2
<1> QED
  BY <1>r, <1>3, <1>4, <1>5, <1>6, <1>7, <1>8, <1>9 DEF IInv

(* What is known of a half that is captured now: no object holds it, and   *)
(* it was never counted.                                                   *)
LEMMA NewHalf ==
  ASSUME IInv, NEW o \in Objects, o \notin captured
  PROVE  /\ o \notin cache /\ content[o] = {} /\ queued[o] = 0
         /\ \A x \in Objects : x[1] = o[1] => o[2] \notin content[x]
<1>1. \A x \in Objects : x[1] = o[1] => o[2] \notin content[x]
  BY Pairs DEF IInv, ContentInv
<1>2. content[o] = {}
  BY <1>1 DEF IInv, ContentInv
<1>3. o \notin cache
  BY <1>2 DEF IInv, EntryInv
<1> QED
  BY <1>1, <1>2, <1>3 DEF IInv, CopiesInv, Stored

LEMMA CaptureStores ==
  ASSUME IInv, NEW o \in Objects, StorePartial(o)
  PROVE  IInv'
<1> USE DEF cacheVars, batchVars, Pairing
<1>t. TypeOK /\ ReportInv /\ cache \subseteq Objects /\ now \in Nat
  BY DEF IInv, TypeOK
<1>u. UNCHANGED <<now, proc, merged, resolved, fl, flushDone, session, batchVars, early>>
  BY DEF StorePartial, Capture
<1>0. /\ proc = "idle" /\ o \notin captured
      /\ \A x \in cache : x[1] # o[1]
      /\ captured' = captured \cup {o}
      /\ cache' = cache \cup {o}
  BY DEF StorePartial, Capture
<1>1. /\ content'[o] = {o[2]} /\ obs'[o] \in Int
      /\ src'[o] = IF o[2] = "request" THEN "client" ELSE "server"
      /\ sessionAt'[o] = session
      /\ \A x \in Objects : x # o => /\ content'[x] = content[x] /\ obs'[x] = obs[x]
                                     /\ src'[x] = src[x] /\ sessionAt'[x] = sessionAt[x]
  BY <1>t DEF StorePartial, Capture, TypeOK
<1>n. /\ o \notin cache /\ content[o] = {} /\ queued[o] = 0
      /\ \A x \in Objects : x[1] = o[1] => o[2] \notin content[x]
  BY <1>0, NewHalf
<1>c. fl["closer"].pc = "idle"
  BY <1>0 DEF IInv, ProcInv
<1>h. \A g \in Flushers, x \in Objects :
        Holds(g, x) => /\ g = "periodic" /\ x # o
                       /\ x \in cache \/ content[x] = Halves
  BY <1>0, <1>n, <1>c DEF Holds, IInv, FlushInv, Flushers
<1>2. TypeOK'
  <2>1. content' \in [Objects -> SUBSET Halves] /\ src' \in [Objects -> {"client", "server"}]
    BY <1>t, Pairs DEF StorePartial, TypeOK
  <2>2. obs' \in [Objects -> Int] /\ sessionAt' \in [Objects -> 0..MaxSession]
    <3>1. session \in 0..MaxSession
      BY <1>t, BackendAssumption DEF TypeOK, BackendAssumption
    <3> QED
      BY <3>1, <1>t DEF StorePartial, Capture, TypeOK
  <2> QED
    BY <2>1, <2>2, <1>t, <1>u, <1>0 DEF TypeOK
<1>3. ReportInv'
  <2>1. session' \in 1..MaxSession /\ \A x \in Objects : sessionAt'[x] <= session'
    <3>1. session' = session /\ session \in 1..MaxSession /\ \A x \in Objects : sessionAt[x] <= session
      BY <1>t, <1>u DEF TypeOK, ReportInv
    <3>2. \A x \in Objects : sessionAt'[x] = session \/ sessionAt'[x] = sessionAt[x]
      BY <1>1
    <3> QED
      BY <3>1, <3>2, BackendAssumption DEF BackendAssumption
  <2>2. TrueBatch(batch') /\ TrueDeliveries(delivered')
    BY <1>t, <1>u DEF ReportInv
  <2> QED
    BY <1>t, <1>u, <1>0, <1>1, <2>1, <2>2, TruthStays
<1>4. ContentInv'
  <2>1. \A x \in Objects : content'[x] # {} => x[2] \in content'[x]
    BY <1>1 DEF IInv, ContentInv
  <2>2. \A x \in Objects : \A h \in content'[x] : <<x[1], h>> \in captured'
    <3>1. <<o[1], o[2]>> \in captured'
      BY <1>0, Pairs
    <3> QED
      BY <3>1, <1>0, <1>1 DEF IInv, ContentInv
  <2>3. \A x, y \in Objects : x[1] = y[1] /\ content'[x] \cap content'[y] # {} => x = y
    BY <1>1, <1>n DEF IInv, ContentInv
  <2>4. \A x \in Objects : content'[x] = Halves /\ src'[x] # "client" => proc' = "flipping" /\ merged' = x
    BY <1>1, <1>u DEF IInv, ContentInv, Halves
  <2> QED
    BY <2>1, <2>2, <2>3, <2>4 DEF ContentInv
<1>5. EntryInv'
  BY <1>t, <1>0, <1>1, <1>n DEF IInv, EntryInv
<1>6. ProcInv'
  BY <1>u, <1>0, <1>c DEF IInv, ProcInv
<1>7. FlushInv'
  <2> SUFFICES ASSUME NEW g \in Flushers, NEW x \in Objects, Holds(g, x)
               PROVE  /\ content'[x] # {}
                      /\ \A y \in cache' : y[1] = x[1] => y = x
                      /\ x \in cache' \/ content'[x] = Halves
                      /\ fl[g].pc = "delete" /\ x \in cache' => Accounted(x)
    BY <1>u, <1>0 DEF FlushInv, Holds, Accounted
  <2>1. x # o /\ (x \in cache \/ content[x] = Halves) /\ content'[x] = content[x]
    BY <1>h, <1>1
  <2>2. x[1] # o[1]
    BY <2>1, <1>0, <1>n, Pairs
  <2> QED
    BY <2>1, <2>2, <1>0 DEF IInv, FlushInv
<1>8. CloserInv' /\ LossInv'
  BY <1>t, <1>u, <1>0, <1>1 DEF IInv, CloserInv, LossInv, Accounted
<1>9. CopiesInv'
  <2>1. \A x \in Objects : queued'[x] # 0 => Stored(x)'
    <3>1. \A y \in Objects : content[y] \subseteq content'[y]
      BY <1>1, <1>n
    <3> QED
      BY <3>1, <1>u DEF IInv, CopiesInv, Stored
  <2>2. ASSUME NEW x \in Objects, NEW h \in content'[x]
        PROVE  queued'[<<x[1], h>>] + MayFlush(x)' + MayUpload(x)' <= 2
    <3>1. CASE x = o
      <4>1. <<x[1], h>> = o
        BY <3>1, <2>2, <1>1, Pairs
      <4>2. MayFlush(x)' \in {0, 1} /\ MayUpload(x)' \in {0, 1}
        BY DEF MayFlush, MayUpload
      <4>3. queued'[<<x[1], h>>] = 0
        BY <4>1, <1>n, <1>u
      <4> QED
        BY <4>2, <4>3
    <3>2. CASE x # o
      <4>1. MayFlush(x)' = MayFlush(x) /\ MayUpload(x)' = MayUpload(x)
        BY <3>2, <1>u, <1>0 DEF MayFlush, MayUpload
      <4>2. h \in content[x]
        BY <3>2, <1>1, <2>2
      <4> QED
        BY <4>1, <4>2, <1>u DEF IInv, CopiesInv
    <3> QED
      BY <3>1, <3>2
  <2> QED
    BY <2>1, <2>2 DEF CopiesInv
<1>10. AgeInv'
  <2>1. \A x \in Objects : fl["periodic"].pc = "upload" /\ fl["periodic"].cur = x => obs'[x] = obs[x]
    BY <1>1, <1>h DEF Holds, Flushers
  <2> QED
    BY <1>u, <2>1 DEF IInv, AgeInv
<1> QED
  BY <1>2, <1>3, <1>4, <1>5, <1>6, <1>7, <1>8, <1>9, <1>10 DEF IInv

LEMMA CaptureMerges ==
  ASSUME IInv, NEW o \in Objects, MergePair(o)
  PROVE  IInv'
<1> USE DEF cacheVars, batchVars, Pairing
<1>t. TypeOK /\ ReportInv /\ cache \subseteq Objects
  BY DEF IInv, TypeOK
<1>0. PICK p \in cache :
        /\ p[1] = o[1]
        /\ Capture(o)
        /\ cache' = cache \ {p}
        /\ content' = [content EXCEPT ![p] = @ \cup {o[2]}]
        /\ merged' = p /\ proc' = IF o[2] = "request" THEN "flipping" ELSE "uploading"
        /\ UNCHANGED <<src, obs, resolved>>
  BY DEF MergePair
<1>u. UNCHANGED <<now, obs, fl, flushDone, session, batchVars, early>>
  BY <1>0 DEF Capture
<1>1. proc = "idle" /\ o \notin captured /\ captured' = captured \cup {o}
      /\ sessionAt' = [sessionAt EXCEPT ![o] = session]
  BY <1>0 DEF Capture
<1>n. /\ o \notin cache /\ content[o] = {} /\ queued[o] = 0
      /\ \A x \in Objects : x[1] = o[1] => o[2] \notin content[x]
  BY <1>1, NewHalf
<1>p. /\ p \in Objects /\ p # o /\ content[p] = {p[2]} /\ p[2] # o[2]
      /\ src[p] = IF p[2] = "request" THEN "client" ELSE "server"
      /\ p[2] \in Halves /\ o[2] \in Halves
  BY <1>t, <1>0, <1>n, Pairs DEF IInv, EntryInv
<1>2. /\ content'[p] = Halves
      /\ \A x \in Objects : x # p => content'[x] = content[x]
      /\ content' \in [Objects -> SUBSET Halves]
      /\ src[p] = IF o[2] = "request" THEN "server" ELSE "client"
  <2>1. content \in [Objects -> SUBSET Halves]
    BY <1>t DEF TypeOK
  <2>2. {p[2]} \cup {o[2]} = Halves
    BY <1>p DEF Halves
  <2> QED
    BY <2>1, <2>2, <1>0, <1>p DEF Halves
<1>c. fl["closer"].pc = "idle" /\ batchClosed = FALSE
  BY <1>1, <1>t DEF IInv, ProcInv, TypeOK
<1>3. TypeOK'
  <2>1. sessionAt' \in [Objects -> 0..MaxSession]
    <3>1. session \in 0..MaxSession
      BY <1>t, BackendAssumption DEF TypeOK, BackendAssumption
    <3> QED
      BY <3>1, <1>t, <1>1 DEF TypeOK
  <2> QED
    BY <2>1, <1>t, <1>u, <1>0, <1>1, <1>p, <1>2 DEF TypeOK
<1>4. ReportInv'
  <2>1. session' \in 1..MaxSession /\ \A x \in Objects : sessionAt'[x] <= session'
    BY <1>t, <1>u, <1>1, BackendAssumption DEF TypeOK, ReportInv, BackendAssumption
  <2>2. TrueBatch(batch') /\ TrueDeliveries(delivered')
    BY <1>t, <1>u DEF ReportInv
  <2>3. \A x \in captured \cap Objects : sessionAt'[x] = sessionAt[x]
    BY <1>t, <1>1 DEF TypeOK
  <2>4. merged = NoObject
    BY <1>1 DEF IInv, ProcInv
  <2> QED
    BY <1>t, <1>0, <1>1, <2>1, <2>2, <2>3, <2>4, TruthStays
<1>5. ContentInv'
  <2>1. \A x \in Objects : content'[x] # {} => x[2] \in content'[x]
    BY <1>2, <1>p DEF IInv, ContentInv
  <2>2. \A x \in Objects : \A h \in content'[x] : <<x[1], h>> \in captured'
    <3>1. <<p[1], p[2]>> \in captured
      BY <1>p DEF IInv, ContentInv
    <3>2. <<p[1], o[2]>> \in captured'
      BY <1>0, <1>1, Pairs
    <3>3. \A h \in Halves : h = p[2] \/ h = o[2]
      BY <1>p DEF Halves
    <3> QED
      BY <3>1, <3>2, <3>3, <1>1, <1>2 DEF IInv, ContentInv
  <2>3. \A x, y \in Objects : x[1] = y[1] /\ content'[x] \cap content'[y] # {} => x = y
    <3>1. ASSUME NEW x \in Objects, x # p, x[1] = p[1]
          PROVE  content[x] = {}
      <4>1. p[2] \notin content[x]
        BY <3>1, <1>p DEF IInv, ContentInv
      <4>2. o[2] \notin content[x]
        BY <3>1, <1>0, <1>n
      <4>3. content[x] \subseteq {p[2], o[2]}
        BY <1>t, <1>p DEF TypeOK, Halves
      <4> QED
        BY <4>1, <4>2, <4>3
    <3> QED
      BY <3>1, <1>2, <1>p DEF IInv, ContentInv
  <2>4. \A x \in Objects : content'[x] = Halves /\ src'[x] # "client" => proc' = "flipping" /\ merged' = x
    BY <1>0, <1>1, <1>2 DEF IInv, ContentInv
  <2> QED
    BY <2>1, <2>2, <2>3, <2>4 DEF ContentInv
<1>6. EntryInv'
  BY <1>t, <1>0, <1>2 DEF IInv, EntryInv
<1>7. ProcInv'
  BY <1>t, <1>u, <1>0, <1>1, <1>2, <1>p, <1>c DEF IInv, ProcInv
<1>8. FlushInv'
  <2> SUFFICES ASSUME NEW g \in Flushers, NEW x \in Objects, Holds(g, x)
               PROVE  /\ content'[x] # {}
                      /\ \A y \in cache' : y[1] = x[1] => y = x
                      /\ x \in cache' \/ content'[x] = Halves
                      /\ fl[g].pc = "delete" /\ x \in cache' => Accounted(x)
    BY <1>u, <1>0 DEF FlushInv, Holds, Accounted
  <2>1. g = "periodic" /\ (x \in cache \/ content[x] = Halves)
    BY <1>1, <1>c DEF Holds, IInv, FlushInv, Flushers
  <2>2. x = p \/ content'[x] = content[x]
    BY <1>2
  <2>3. content'[x] # {}
    BY <2>2, <1>2 DEF IInv, FlushInv, Halves
  <2>4. x \in cache' \/ content'[x] = Halves
    BY <2>1, <2>2, <1>0, <1>2
  <2> QED
    BY <2>3, <2>4, <1>0, <1>1 DEF IInv, FlushInv
<1>9. CloserInv' /\ LossInv'
  BY <1>t, <1>u, <1>0, <1>1 DEF IInv, CloserInv, LossInv, Accounted
<1>10. CopiesInv'
  <2>1. \A x \in Objects : queued'[x] # 0 => Stored(x)'
    <3>1. \A y \in Objects : content[y] \subseteq content'[y]
      BY <1>t, <1>2 DEF TypeOK
    <3> QED
      BY <3>1, <1>u DEF IInv, CopiesInv, Stored
  <2>2. ASSUME NEW x \in Objects, NEW h \in content'[x]
        PROVE  queued'[<<x[1], h>>] + MayFlush(x)' + MayUpload(x)' <= 2
    <3>1. MayFlush(x)' \in {0, 1} /\ MayUpload(x)' \in {0, 1} /\ MayFlush(x) \in {0, 1}
      BY DEF MayFlush, MayUpload
    <3>2. MayFlush(x)' = 1 => MayFlush(x) = 1
      BY <1>u, <1>0 DEF MayFlush
    <3>3. CASE x = p
      <4>1. MayUpload(x) = 1
        BY <3>3, <1>c, <1>0 DEF MayUpload
      <4>2. CASE h = p[2]
        <5>1. /\ queued[<<x[1], h>>] + MayFlush(x) + 1 <= 2
          BY <3>3, <4>1, <4>2, <1>p DEF IInv, CopiesInv
        <5>2. queued[<<x[1], h>>] \in Nat
          BY <3>3, <4>2, <1>p, <1>t, Pairs DEF TypeOK
        <5> QED
          BY <5>1, <5>2, <3>1, <3>2, <1>u
      <4>3. CASE h = o[2]
        <5>1. <<x[1], h>> = o
          BY <3>3, <4>3, <1>0, Pairs
        <5>2. queued'[<<x[1], h>>] = 0
          BY <5>1, <1>n, <1>u
        <5> QED
          BY <5>2, <3>1
      <4> QED
        BY <2>2, <3>3, <4>2, <4>3, <1>2, <1>p DEF Halves
    <3>4. CASE x # p
      <4>1. MayFlush(x)' = MayFlush(x) /\ MayUpload(x)' = MayUpload(x)
        BY <3>4, <1>u, <1>0, <1>1 DEF MayFlush, MayUpload
      <4>2. h \in content[x]
        BY <3>4, <1>2, <2>2
      <4> QED
        BY <4>1, <4>2, <1>u DEF IInv, CopiesInv
    <3> QED
      BY <3>3, <3>4
  <2> QED
    BY <2>1, <2>2 DEF CopiesInv
<1>11. AgeInv'
  BY <1>u DEF IInv, AgeInv
<1> QED
  BY <1>3, <1>4, <1>5, <1>6, <1>7, <1>8, <1>9, <1>10, <1>11 DEF IInv

(* The flip: only the source of the pair in hand changes. *)
LEMMA CaptureFlips ==
  ASSUME IInv, FlipPair
  PROVE  IInv'
<1> USE DEF cacheVars, batchVars, Pairing
<1>t. TypeOK /\ ReportInv /\ src \in [Objects -> {"client", "server"}]
  BY DEF IInv, TypeOK
<1>u. UNCHANGED <<now, cache, content, obs, captured, merged, resolved, fl, flushDone, session,
                  batchVars, early, sessionAt>>
  BY DEF FlipPair
<1>1. /\ proc = "flipping" /\ proc' = "uploading"
      /\ merged \in Objects \ cache /\ content[merged] = Halves /\ src[merged] = "server"
  BY DEF FlipPair, IInv, ProcInv
<1>2. /\ src' \in [Objects -> {"client", "server"}] /\ src'[merged] = "client"
      /\ \A x \in Objects : x # merged => src'[x] = src[x]
  BY <1>t, <1>1 DEF FlipPair
<1>3. TypeOK'
  BY <1>t, <1>u, <1>1, <1>2 DEF TypeOK
<1>4. ReportInv'
  BY <1>t, <1>u, ReportsFrame
<1>5. ContentInv'
  BY <1>u, <1>1, <1>2 DEF IInv, ContentInv
<1>6. EntryInv'
  <2>1. \A x \in cache : x \in Objects /\ x # merged
    BY <1>t, <1>1 DEF TypeOK
  <2> QED
    BY <1>u, <1>2, <2>1 DEF IInv, EntryInv
<1>7. ProcInv'
  BY <1>u, <1>1 DEF IInv, ProcInv
<1>8. FlushInv'
  BY <1>u, <1>1 DEF IInv, FlushInv, Holds, Accounted
<1>9. CloserInv' /\ LossInv'
  BY <1>u, <1>1 DEF IInv, CloserInv, LossInv, Holds, Accounted
<1>10. CopiesInv'
  <2>1. \A x \in Objects : MayFlush(x)' = MayFlush(x) /\ MayUpload(x)' = MayUpload(x)
    BY <1>u, <1>1 DEF MayFlush, MayUpload
  <2> QED
    BY <1>u, <2>1 DEF IInv, CopiesInv, Stored
<1>11. AgeInv'
  BY <1>u DEF IInv, AgeInv
<1> QED
  BY <1>3, <1>4, <1>5, <1>6, <1>7, <1>8, <1>9, <1>10, <1>11 DEF IInv

(* learn.ParseHTTP fails: the half is dropped for a reason. *)
LEMMA CaptureDrops ==
  ASSUME IInv, NEW o \in Objects, ProcessUnparsable(o)
  PROVE  IInv'
<1> USE DEF cacheVars, batchVars, Pairing
<1>t. TypeOK /\ ReportInv
  BY DEF IInv
<1>u. /\ UNCHANGED <<now, cache, content, src, obs, proc, merged, resolved, fl, flushDone, session,
                     batch, batchClosed, delivered, queued, early, sessionAt>>
      /\ captured' = captured \cup {o} /\ rejected' = rejected \cup {o}
  BY DEF ProcessUnparsable
<1>1. TypeOK'
  BY <1>t, <1>u DEF TypeOK
<1>2. ReportInv'
  <2>1. TrueBatch(batch') /\ TrueDeliveries(delivered')
        /\ session' \in 1..MaxSession /\ \A x \in Objects : sessionAt'[x] <= session'
    BY <1>t, <1>u DEF ReportInv, TypeOK
  <2> QED
    BY <1>t, <1>u, <2>1, TruthStays
<1>3. ContentInv' /\ EntryInv' /\ ProcInv'
  BY <1>u DEF IInv, ContentInv, EntryInv, ProcInv
<1>4. FlushInv'
  BY <1>u DEF IInv, FlushInv, Holds, Accounted
<1>5. CloserInv' /\ LossInv'
  BY <1>u DEF IInv, CloserInv, LossInv, Holds, Accounted
<1>6. CopiesInv' /\ AgeInv'
  BY <1>u DEF IInv, CopiesInv, AgeInv, Stored, MayFlush, MayUpload
<1> QED
  BY <1>1, <1>2, <1>3, <1>4, <1>5, <1>6 DEF IInv

LEMMA CaptureUploads ==
  ASSUME IInv, UploadPair
  PROVE  IInv'
<1> USE DEF cacheVars, batchVars, Pairing
<1>t. TypeOK /\ ContentInv /\ ReportInv
  BY DEF IInv
<1>u. UNCHANGED <<now, cache, content, src, obs, captured, fl, flushDone, session, early, sessionAt>>
  BY DEF UploadPair
<1>0. PICK o \in Objects : o = merged /\ QueueUpload(o)
  BY DEF UploadPair, IInv, ProcInv
<1>1. /\ proc = "uploading" /\ proc' = "idle" /\ merged' = NoObject
      /\ resolved' = (IF src[o] = "client" THEN resolved \cup {o[1]} ELSE resolved)
      /\ o \notin cache /\ content[o] = Halves
      /\ fl["closer"].pc = "idle" /\ ~batchClosed
  BY <1>0 DEF UploadPair, IInv, ProcInv
<1>2. /\ TrueBatch(batch') /\ Len(batch') < MaxBatch
      /\ TrueDeliveries(delivered')
      /\ rejected' \subseteq Objects /\ rejected \subseteq rejected'
      /\ batchClosed' = batchClosed
      /\ queued' \in [Objects -> Nat]
      /\ \A p \in Objects : /\ queued'[p] \in {queued[p], queued[p] + 1}
                            /\ queued'[p] # queued[p] => p[1] = o[1] /\ p[2] \in content[o]
      /\ ~batchClosed => \A p \in Objects : p[1] = o[1] /\ p[2] \in content[o]
                                             => queued'[p] > 0 \/ p \in rejected'
  BY <1>t, <1>0, UploadCounts
<1>q. \A x \in Objects : /\ queued[x] \in Nat
                         /\ queued'[x] = queued[x] \/ queued'[x] = queued[x] + 1
                         /\ queued'[x] # queued[x] => x[1] = o[1] /\ x[2] \in content[o]
  <2>1. \A x \in Objects : queued[x] \in Nat
    BY <1>t DEF TypeOK
  <2> QED
    BY <2>1, <1>2
<1>a. /\ \A x \in Objects : Accounted(x) => Accounted(x)'
      /\ \A x \in Objects : x[1] = o[1] => Accounted(x)'
  <2>1. \A x \in Objects : Accounted(x) => Accounted(x)'
    BY <1>2, <1>q DEF Accounted
  <2>2. \A x \in Objects : x[1] = o[1] => Accounted(x)'
    BY <1>1, <1>2, Pairs DEF Accounted
  <2> QED
    BY <2>1, <2>2
<1>s. src[o] = "client" /\ resolved' = resolved \cup {o[1]} /\ o[1] \in Keys
  BY <1>t, <1>1, Pairs DEF ContentInv
<1>3. TypeOK'
  BY <1>t, <1>u, <1>1, <1>2, <1>s DEF TypeOK, TrueBatch, TrueDeliveries
<1>4. ReportInv'
  <2>1. merged[1] \in resolved' /\ resolved \subseteq resolved'
    BY <1>0, <1>s
  <2> QED
    BY <1>t, <1>u, <1>2, <2>1, TruthStays DEF TypeOK, ReportInv
<1>5. ContentInv' /\ EntryInv'
  BY <1>u, <1>1 DEF IInv, ContentInv, EntryInv
<1>6. ProcInv'
  BY <1>u, <1>1, <1>2 DEF IInv, ProcInv
<1>7. FlushInv'
  BY <1>u, <1>1, <1>a DEF IInv, FlushInv, Holds
<1>8. CloserInv' /\ LossInv'
  BY <1>u, <1>0, <1>1, <1>a DEF IInv, CloserInv, LossInv
<1>9. CopiesInv'
  <2>1. \A x \in Objects : queued'[x] # 0 => Stored(x)'
    BY <1>q, <1>u DEF IInv, CopiesInv, Stored
  <2>2. MayUpload(o) = 1 /\ MayUpload(o)' = 0
    BY <1>u, <1>0, <1>1 DEF MayUpload
  <2>3. \A x \in Objects : MayFlush(x)' = MayFlush(x) /\ (MayUpload(x)' = 1 => MayUpload(x) = 1)
    BY <1>u, <1>1 DEF MayFlush, MayUpload
  <2>4. \A x \in Objects : MayFlush(x) \in {0, 1} /\ MayUpload(x) \in {0, 1} /\ MayUpload(x)' \in {0, 1}
    BY DEF MayFlush, MayUpload
  <2>5. ASSUME NEW x \in Objects, NEW h \in content[x]
        PROVE  queued'[<<x[1], h>>] + MayFlush(x)' + MayUpload(x)' <= 2
    <3>1. <<x[1], h>> \in Objects /\ <<x[1], h>>[1] = x[1] /\ <<x[1], h>>[2] = h
      BY <1>t, Pairs DEF TypeOK
    <3>2. queued[<<x[1], h>>] \in Nat /\ queued[<<x[1], h>>] + MayFlush(x) + MayUpload(x) <= 2
      BY <3>1, <1>q DEF IInv, CopiesInv
    <3>3. CASE queued'[<<x[1], h>>] = queued[<<x[1], h>>]
      BY <3>2, <3>3, <2>3, <2>4
    <3>4. CASE queued'[<<x[1], h>>] # queued[<<x[1], h>>]
      <4>1. x = o
        <5>1. x[1] = o[1] /\ h \in content[o]
          BY <3>1, <3>4, <1>q
        <5> QED
          BY <5>1, <1>t DEF ContentInv
      <4>2. queued'[<<x[1], h>>] = queued[<<x[1], h>>] + 1
        BY <3>1, <3>4, <1>q
      <4>3. MayUpload(x) = 1 /\ MayUpload(x)' = 0
        BY <4>1, <2>2
      <4> QED
        BY <4>2, <4>3, <3>2, <2>3, <2>4
    <3> QED
      BY <3>3, <3>4
  <2> QED
    BY <1>u, <2>1, <2>5 DEF CopiesInv
<1>10. AgeInv'
  BY <1>u DEF IInv, AgeInv
<1> QED
  BY <1>3, <1>4, <1>5, <1>6, <1>7, <1>8, <1>9, <1>10 DEF IInv

LEMMA CaptureCloses ==
  ASSUME IInv, CloseEnd
  PROVE  IInv'
<1> USE DEF cacheVars, batchVars, Pairing
<1>t. TypeOK /\ ReportInv
  BY DEF IInv
<1>u. UNCHANGED <<now, cache, content, src, obs, captured, merged, resolved, fl, flushDone, session, queued, early, sessionAt>>
  BY DEF CloseEnd
<1>1. /\ proc = "closing" /\ proc' = "closed" /\ fl["closer"].pc = "idle"
      /\ batchClosed' = TRUE /\ batch' = <<>>
  BY DEF CloseEnd
<1>2. PICK ok \in BOOLEAN : UploadBatch(batch, ok)
  BY DEF CloseEnd
<1>3. TrueDeliveries(delivered') /\ rejected' \subseteq Objects /\ rejected \subseteq rejected'
  BY <1>t, <1>2, UploadKeeps DEF ReportInv
<1>4. TrueBatch(batch') /\ Len(batch') < MaxBatch
  BY <1>1, BackendAssumption DEF TrueBatch, BackendAssumption
<1>5. TypeOK'
  BY <1>t, <1>u, <1>1, <1>3, <1>4 DEF TypeOK, TrueBatch, TrueDeliveries
<1>6. ReportInv'
  BY <1>t, <1>u, <1>3, <1>4, TruthStays DEF TypeOK, ReportInv
<1>7. ContentInv' /\ EntryInv' /\ ProcInv'
  BY <1>u, <1>1 DEF IInv, ContentInv, EntryInv, ProcInv
<1>8. FlushInv'
  BY <1>u, <1>1, <1>3 DEF IInv, FlushInv, Holds, Accounted
<1>9. CloserInv' /\ LossInv'
  BY <1>u, <1>1, <1>3 DEF IInv, CloserInv, LossInv, Holds, Accounted
<1>10. CopiesInv' /\ AgeInv'
  BY <1>u, <1>1 DEF IInv, CopiesInv, AgeInv, Stored, MayFlush, MayUpload
<1> QED
  BY <1>5, <1>6, <1>7, <1>8, <1>9, <1>10 DEF IInv

(* The inductive invariant holds at the start, every step keeps it, and it *)
(* says what the properties say.                                           *)
LEMMA BackendStarts == Init => IInv
<1> SUFFICES ASSUME Init PROVE IInv
  OBVIOUS
<1> USE DEF Init, Pairing
<1>1. TypeOK
  <2>1. fl \in [Flushers -> [pc : {"idle", "scan", "upload", "delete", "done"}, todo : SUBSET Keys,
                             cur : Objects \cup {NoObject}, cutoff : Int]]
    BY DEF IdleFlusher
  <2>2. batch \in Seq(Reports) /\ Len(batch) < MaxBatch
    BY BackendAssumption DEF BackendAssumption
  <2>3. session \in 1..MaxSession /\ sessionAt \in [Objects -> 0..MaxSession]
    BY BackendAssumption DEF BackendAssumption
  <2>4. obs \in [Objects -> Int] /\ content \in [Objects -> SUBSET Halves]
    OBVIOUS
  <2>5. /\ now \in Nat /\ proc = "idle" /\ merged = NoObject /\ resolved \subseteq Keys
        /\ src \in [Objects -> {"client", "server"}]
    OBVIOUS
  <2>6. /\ cache \subseteq Objects /\ captured \subseteq Objects \cup Others
        /\ flushDone \in BOOLEAN /\ batchClosed \in BOOLEAN
        /\ delivered \subseteq [report : Reports, session : 1..MaxSession]
        /\ rejected \subseteq Objects /\ early \subseteq Objects
        /\ queued \in [Objects -> Nat]
    OBVIOUS
  <2> HIDE DEF Init
  <2> QED
    BY <2>1, <2>2, <2>3, <2>4, <2>5, <2>6 DEF TypeOK
<1>2. fl["closer"].pc = "idle" /\ fl["periodic"].pc = "idle" /\ fl["closer"].todo = {}
      /\ \A f \in Flushers : fl[f].pc = "idle"
  BY DEF IdleFlusher, Flushers
<1>3. ContentInv /\ EntryInv /\ ProcInv
  BY <1>2 DEF ContentInv, EntryInv, ProcInv, Halves
<1>4. FlushInv /\ CloserInv /\ LossInv
  BY <1>2 DEF FlushInv, CloserInv, LossInv, Holds
<1>5. CopiesInv /\ AgeInv
  BY <1>2 DEF CopiesInv, AgeInv
<1>6. ReportInv
  BY DEF ReportInv, TrueBatch, TrueDeliveries
<1> QED
  BY <1>1, <1>3, <1>4, <1>5, <1>6 DEF IInv

LEMMA BackendSteps == IInv /\ [Next]_vars => IInv'
<1> SUFFICES ASSUME IInv, [Next]_vars PROVE IInv'
  OBVIOUS
<1>1. CASE Tick \/ SwitchLearnSession \/ FlushBatch \/ \E r \in Others : ProcessOther(r)
  BY <1>1, QuietSteps
<1>2. CASE PeriodicTick \/ PeriodicReturns \/ CloseBegin \/ \E f \in Flushers : FlushReturns(f)
  BY <1>2, FlusherStartsAndReturns
<1>3. ASSUME NEW f \in Flushers, FlushVisit(f) \/ FlushUpload(f) \/ FlushDelete(f)
      PROVE  IInv'
  BY <1>3, FlusherVisits, FlusherUploads, FlusherDeletes
<1>4. ASSUME NEW o \in Objects, StorePartial(o) \/ MergePair(o) \/ ProcessUnparsable(o)
      PROVE  IInv'
  BY <1>4, CaptureStores, CaptureMerges, CaptureDrops
<1>5. CASE FlipPair \/ UploadPair
  BY <1>5, CaptureFlips, CaptureUploads
<1>6. CASE CloseEnd
  BY <1>6, CaptureCloses
<1>7. CASE UNCHANGED vars
  <2>1. UNCHANGED <<now, cache, content, src, obs, captured, proc, merged, resolved, fl, flushDone, session,
                    batch, batchClosed, delivered, rejected, queued, early, sessionAt>>
    BY <1>7 DEF vars, cacheVars, batchVars
  <2>2. TypeOK' /\ CachePart' /\ ReportInv'
    <3>1. TypeOK /\ CachePart /\ ReportInv /\ now \in Nat
      BY DEF IInv, CachePart, TypeOK
    <3>2. TypeOK'
      BY <2>1, <3>1 DEF TypeOK
    <3>3. CachePart'
      BY <2>1, <3>1, CacheFrame
    <3> QED
      BY <2>1, <3>1, <3>2, <3>3, ReportsFrame
  <2> QED
    BY <2>2 DEF IInv, CachePart
<1> QED
  BY <1>1, <1>2, <1>3, <1>4, <1>5, <1>6, <1>7 DEF Next, FlushStep

LEMMA BackendMeans == IInv => CacheInv /\ ClosedLosesNothing /\ DeliveredIsTrue
<1> SUFFICES ASSUME IInv PROVE CacheInv /\ ClosedLosesNothing /\ DeliveredIsTrue
  OBVIOUS
<1>1. AtMostTwoCopies
  <2> SUFFICES ASSUME NEW o \in Objects, queued[o] # 0 PROVE queued[o] <= 2
    BY DEF AtMostTwoCopies
  <2>1. PICK x \in Objects : x[1] = o[1] /\ o[2] \in content[x]
    BY DEF IInv, CopiesInv, Stored
  <2>2. <<x[1], o[2]>> = o /\ queued[o] \in Nat
    BY <2>1, Pairs DEF IInv, TypeOK
  <2>3. MayFlush(x) \in {0, 1} /\ MayUpload(x) \in {0, 1}
    BY DEF MayFlush, MayUpload
  <2>4. queued[o] + MayFlush(x) + MayUpload(x) <= 2
    BY <2>1, <2>2 DEF IInv, CopiesInv
  <2> QED
    BY <2>2, <2>3, <2>4
<1>2. CacheInv
  BY <1>1 DEF CacheInv, IInv, AgeInv, NoEarlyFlush
<1>3. ClosedLosesNothing
  <2> SUFFICES ASSUME proc = "closed", NEW o \in captured \cap Objects
               PROVE  queued[o] > 0 \/ o \in rejected \/ obs[o] >= fl["closer"].cutoff
    BY DEF ClosedLosesNothing
  <2>1. fl["closer"].pc = "idle" /\ fl["closer"].todo = {}
    BY DEF IInv, ProcInv
  <2>2. o \in cache => obs[o] >= fl["closer"].cutoff
    BY <2>1 DEF IInv, CloserInv, Holds
  <2> QED
    BY <2>2 DEF IInv, LossInv, Accounted, Pairing
<1>4. DeliveredIsTrue
  BY DEF DeliveredIsTrue, PairedSourceIsClient, SessionNotEarlier, IInv, ReportInv,
         TrueDeliveries, TrueReport
<1> QED
  BY <1>2, <1>3, <1>4

(* However Process, periodicFlush, Close and the session switches          *)
(* interleave, the pair cache is well formed, periodicFlush uploads no     *)
(* half before its time and no half is queued more than twice, although    *)
(* load, upload and delete of an entry are three steps (flushPairCache).   *)
THEOREM CacheTheorem == Spec => [](IInv /\ CacheInv)
<1>1. Init => IInv
  BY BackendStarts
<1>2. IInv /\ [Next]_vars => IInv'
  BY BackendSteps
<1>3. IInv => CacheInv
  BY BackendMeans
<1> QED
  BY <1>1, <1>2, <1>3, PTL DEF Spec

(* Once Close has returned, every half captured before Close began was     *)
(* given to the open batcher or dropped for a reason (Close,               *)
(* flushPairCache).                                                        *)
THEOREM CloseTheorem == Spec => []ClosedLosesNothing
<1>1. Init => IInv
  BY BackendStarts
<1>2. IInv /\ [Next]_vars => IInv'
  BY BackendSteps
<1>3. IInv => ClosedLosesNothing
  BY BackendMeans
<1> QED
  BY <1>1, <1>2, <1>3, PTL DEF Spec

(* A pair is delivered with the server as its source only by a flush that  *)
(* caught it between MergeWitness and the flip, and Process then reports   *)
(* it the right way round; no report goes to a learn session older than    *)
(* its halves (Process, flushPairCache, SwitchLearnSession).               *)
THEOREM DeliveryTheorem == Spec => []DeliveredIsTrue
<1>1. Init => IInv
  BY BackendStarts
<1>2. IInv /\ [Next]_vars => IInv'
  BY BackendSteps
<1>3. IInv => DeliveredIsTrue
  BY BackendMeans
<1> QED
  BY <1>1, <1>2, <1>3, PTL DEF Spec
=============================================================================
