-------------------------- MODULE BackendCollector --------------------------
(***************************************************************************)
(* trace/backend_collector.go and trace/report_buffer.go: pairing of       *)
(* requests with responses in pairCache, expiry of unpaired halves by the  *)
(* periodicFlush goroutine, Close, learn-session switches, and the batch   *)
(* of reports uploaded to the back end.                                    *)
(*                                                                         *)
(* Three goroutines run: the capture goroutine (Process, then Close),      *)
(* periodicFlush, and the one that rotates learn sessions.  flushPairCache *)
(* loads, uploads and deletes an entry in three steps, and the entry is a  *)
(* pointer: whoever holds it sees what another goroutine merged into it.   *)
(*                                                                         *)
(* A pair key has two halves, each captured at most once.  The object made *)
(* by half h of key k is <<k, h>>.  The batcher is a library: Add appends  *)
(* to the buffer and flushes it when it is full, Close flushes it a last   *)
(* time, and what is added afterwards is never sent.                       *)
(***************************************************************************)
EXTENDS Integers, Sequences, FiniteSets

CONSTANTS
  Keys,            \* pair keys (witness IDs)
  Others,          \* TCP-connection and TLS-handshake reports
  Expiration,      \* pairCacheExpiration
  MaxBatch,        \* uploadBatchMaxSize_bytes, in reports
  MaxLag,          \* how far an ObservationTime may lie in the past
  MaxCapture,      \* no packet arrives after this time (bound)
  MaxTime,         \* bound on time
  MaxSession       \* bound on learn sessions

Halves   == {"request", "response"}
Objects  == Keys \X Halves

ASSUME BackendAssumption ==
  /\ Expiration \in Nat
  /\ MaxBatch \in Nat \ {0}
  /\ MaxLag \in Nat /\ MaxCapture \in Nat /\ MaxTime \in Nat /\ MaxSession \in Nat \ {0}
  /\ Others \cap Objects = {}

Flushers == {"periodic", "closer"}
NoObject == <<>>

VARIABLES
  now,         \* the wall clock
  cache,       \* pairCache: the stored objects, at most one per key
  content,     \* halves merged into each object's witness
  src,         \* who the object's srcIP and srcPort are: client or server
  obs,         \* observationTime of each object
  captured,    \* halves and other reports that reached Process so far
  proc,        \* capture goroutine: idle, flipping, uploading, closing, closed
  merged,      \* the object Process holds between LoadAndDelete and upload
  resolved,    \* history: keys whose pair Process has handed to queueUpload
               \* with the client as its source
  fl,          \* flushPairCache of each flusher: pc, todo, cur, cutoff
  flushDone,   \* flushDone is closed
  session,     \* learnSessionID
  batch,       \* reports in the buffer
  batchClosed, \* uploadReportBatch.Close() has run
  delivered,   \* reports uploaded, with their session
  rejected,    \* halves dropped by a plugin, by size or by a failed upload
  queued,      \* history: how often the open batcher was given each half
  early,       \* history: objects that periodicFlush uploaded unpaired
               \* although they were younger than Expiration
  sessionAt    \* history: session in which each half was captured

cacheVars == <<cache, content, src, obs, captured>>
batchVars == <<batch, batchClosed, delivered, rejected, queued>>
vars == <<now, cacheVars, proc, merged, resolved, fl, flushDone, session, batchVars, early, sessionAt>>

IdleFlusher == [pc |-> "idle", todo |-> {}, cur |-> NoObject, cutoff |-> 0]

Init ==
  /\ now = 1
  /\ cache = {}
  /\ content = [o \in Objects |-> {}]
  /\ src = [o \in Objects |-> "client"]
  /\ obs = [o \in Objects |-> 0]
  /\ captured = {}
  /\ proc = "idle" /\ merged = NoObject /\ resolved = {}
  /\ fl = [f \in Flushers |-> IdleFlusher]
  /\ flushDone = FALSE
  /\ session = 1
  /\ batch = <<>> /\ batchClosed = FALSE
  /\ delivered = {} /\ rejected = {}
  /\ queued = [o \in Objects |-> 0]
  /\ early = {}
  /\ sessionAt = [o \in Objects |-> 0]

Tick ==
  /\ now < MaxTime
  /\ now' = now + 1
  /\ UNCHANGED <<cacheVars, proc, merged, resolved, fl, flushDone, session, batchVars, early, sessionAt>>

-----------------------------------------------------------------------------
(* The batcher and reportBuffer. *)

(* reportBuffer.Flush: uploads in the current session, clears the buffer   *)
(* whether the upload worked or not.                                       *)
UploadBatch(reports, ok) ==
  /\ delivered' = IF ok THEN delivered \cup {[report |-> reports[i], session |-> session]
                                              : i \in 1..Len(reports)}
                  ELSE delivered
  /\ rejected' = IF ok THEN rejected
                 ELSE rejected \cup UNION {reports[i].objects : i \in 1..Len(reports)}

(* batcher.Add of a report: into the buffer, flushed when full. *)
AddReport(r) ==
  IF batchClosed THEN UNCHANGED <<batch, delivered, rejected>>
  ELSE IF Len(batch) + 1 >= MaxBatch
  THEN /\ batch' = <<>>
       /\ \E ok \in BOOLEAN : UploadBatch(Append(batch, r), ok)
  ELSE /\ batch' = Append(batch, r)
       /\ UNCHANGED <<delivered, rejected>>

WitnessReport(o) ==
  [id |-> o[1], objects |-> {<<o[1], h>> : h \in content[o]}, src |-> src[o]]

CountUpload(o) ==
  queued' = [p \in Objects |-> IF ~batchClosed /\ p[1] = o[1] /\ p[2] \in content[o]
                               THEN queued[p] + 1 ELSE queued[p]]

(* queueUpload: a plugin's error or reportBuffer.Add's size limit drops    *)
(* the witness.                                                            *)
QueueUpload(o) ==
  \/ /\ CountUpload(o)
     /\ AddReport(WitnessReport(o))
     /\ UNCHANGED batchClosed
  \/ /\ rejected' = rejected \cup WitnessReport(o).objects
     /\ UNCHANGED <<queued, batch, batchClosed, delivered>>

(* The batcher's own timer. *)
FlushBatch ==
  /\ ~batchClosed /\ batch # <<>>
  /\ batch' = <<>>
  /\ \E ok \in BOOLEAN : UploadBatch(batch, ok)
  /\ UNCHANGED <<now, cacheVars, proc, merged, resolved, fl, flushDone, session, batchClosed, queued,
                 early, sessionAt>>

-----------------------------------------------------------------------------
(* The capture goroutine. *)

Capture(o) ==
  /\ proc = "idle" /\ now <= MaxCapture
  /\ o \notin captured
  /\ captured' = captured \cup {o}
  /\ sessionAt' = [sessionAt EXCEPT ![o] = session]
  /\ UNCHANGED <<now, fl, flushDone, session, batchVars, early>>

(* learn.ParseHTTP fails: the half is skipped. *)
ProcessUnparsable(o) ==
  /\ proc = "idle" /\ now <= MaxCapture
  /\ o \notin captured
  /\ captured' = captured \cup {o}
  /\ rejected' = rejected \cup {o}
  /\ UNCHANGED <<now, cache, content, src, obs, proc, merged, resolved, fl, flushDone, session,
                 batch, batchClosed, delivered, queued, early, sessionAt>>

(* No partner in the cache: Store. *)
StorePartial(o) ==
  /\ Capture(o)
  /\ \A p \in cache : p[1] # o[1]
  /\ cache' = cache \cup {o}
  /\ content' = [content EXCEPT ![o] = {o[2]}]
  /\ src' = [src EXCEPT ![o] = IF o[2] = "request" THEN "client" ELSE "server"]
  /\ \E lag \in 0..MaxLag : obs' = [obs EXCEPT ![o] = now - lag]
  /\ UNCHANGED <<proc, merged, resolved>>

(* LoadAndDelete finds the partner p and MergeWitness merges into it.      *)
(* Whoever loaded p before sees both halves from now on.                   *)
MergePair(o) ==
  \E p \in cache :
    /\ p[1] = o[1]
    /\ Capture(o)
    /\ cache' = cache \ {p}
    /\ content' = [content EXCEPT ![p] = @ \cup {o[2]}]
    /\ merged' = p
    /\ proc' = IF o[2] = "request" THEN "flipping" ELSE "uploading"
    /\ UNCHANGED <<src, obs, resolved>>

(* Mutant: the flip of source and destination is left out. *)
FlipPairNoFlip ==
  /\ proc = "flipping" /\ proc' = "uploading"
  /\ UNCHANGED <<now, cacheVars, merged, resolved, fl, flushDone, session, batchVars, early, sessionAt>>

(* The request came second: source and destination are exchanged, some     *)
(* time after the merge.                                                   *)
FlipPair ==
  /\ proc = "flipping" /\ proc' = "uploading"
  /\ src' = [src EXCEPT ![merged] = IF @ = "client" THEN "server" ELSE "client"]
  /\ UNCHANGED <<now, cache, content, obs, captured, merged, resolved, fl, flushDone, session,
                 batchVars, early, sessionAt>>

UploadPair ==
  /\ proc = "uploading"
  /\ proc' = "idle" /\ merged' = NoObject
  /\ resolved' = IF src[merged] = "client" THEN resolved \cup {merged[1]} ELSE resolved
  /\ QueueUpload(merged)
  /\ UNCHANGED <<now, cacheVars, fl, flushDone, session, early, sessionAt>>

(* processTCPConnection and processTLSHandshake. *)
ProcessOther(r) ==
  /\ proc = "idle" /\ now <= MaxCapture
  /\ r \notin captured
  /\ captured' = captured \cup {r}
  /\ AddReport([id |-> r, objects |-> {}, src |-> "client"])
  /\ UNCHANGED <<now, cache, content, src, obs, proc, merged, resolved, fl, flushDone, session,
                 batchClosed, queued, early, sessionAt>>

CacheKeys == {o[1] : o \in cache}

(* Close: close(flushDone), then flushPairCache(now) in this goroutine. *)
CloseBegin ==
  /\ proc = "idle"
  /\ proc' = "closing"
  /\ flushDone' = TRUE
  /\ fl' = [fl EXCEPT !["closer"] =
              [pc |-> "scan", todo |-> CacheKeys, cur |-> NoObject, cutoff |-> now]]
  /\ UNCHANGED <<now, cacheVars, merged, resolved, session, batchVars, early, sessionAt>>

CloseEnd ==
  /\ proc = "closing" /\ fl["closer"].pc = "idle"
  /\ proc' = "closed"
  /\ batchClosed' = TRUE
  /\ batch' = <<>>
  /\ \E ok \in BOOLEAN : UploadBatch(batch, ok)
  /\ UNCHANGED <<now, cacheVars, merged, resolved, fl, flushDone, session, queued, early, sessionAt>>

-----------------------------------------------------------------------------
(* periodicFlush and flushPairCache. *)

(* Mutant: the expiration is subtracted twice. *)
PeriodicTickTwice ==
  /\ fl["periodic"].pc = "idle"
  /\ fl' = [fl EXCEPT !["periodic"] =
              [pc |-> "scan", todo |-> CacheKeys, cur |-> NoObject, cutoff |-> now - 2 * Expiration]]
  /\ UNCHANGED <<now, cacheVars, proc, merged, resolved, flushDone, session, batchVars, early, sessionAt>>

(* select may still take the ticker's case after flushDone was closed. *)
PeriodicTick ==
  /\ fl["periodic"].pc = "idle"
  /\ fl' = [fl EXCEPT !["periodic"] =
              [pc |-> "scan", todo |-> CacheKeys, cur |-> NoObject, cutoff |-> now - Expiration]]
  /\ UNCHANGED <<now, cacheVars, proc, merged, resolved, flushDone, session, batchVars, early, sessionAt>>

PeriodicReturns ==
  /\ fl["periodic"].pc = "idle" /\ flushDone
  /\ fl' = [fl EXCEPT !["periodic"].pc = "done"]
  /\ UNCHANGED <<now, cacheVars, proc, merged, resolved, flushDone, session, batchVars, early, sessionAt>>

Expired(o, cutoff) == obs[o] < cutoff

(* Mutant: the entry leaves the cache as soon as it is found. *)
FlushVisitDeletesFirst(f) ==
  /\ fl[f].pc = "scan" /\ fl[f].todo # {}
  /\ \E k \in fl[f].todo :
       LET found == {o \in cache : o[1] = k /\ Expired(o, fl[f].cutoff)} IN
       /\ fl' = [fl EXCEPT ![f].todo = @ \ {k},
                           ![f].pc = IF found = {} THEN "scan" ELSE "upload",
                           ![f].cur = IF found = {} THEN NoObject ELSE CHOOSE o \in found : TRUE]
       /\ cache' = cache \ found
  /\ UNCHANGED <<now, content, src, obs, captured, proc, merged, resolved, flushDone, session, batchVars,
                 early, sessionAt>>

(* Range visits a key: the value it holds now, if any. *)
FlushVisit(f) ==
  /\ fl[f].pc = "scan" /\ fl[f].todo # {}
  /\ \E k \in fl[f].todo :
       LET found == {o \in cache : o[1] = k /\ Expired(o, fl[f].cutoff)} IN
       fl' = [fl EXCEPT ![f].todo = @ \ {k},
                        ![f].pc = IF found = {} THEN "scan" ELSE "upload",
                        ![f].cur = IF found = {} THEN NoObject ELSE CHOOSE o \in found : TRUE]
  /\ UNCHANGED <<now, cacheVars, proc, merged, resolved, flushDone, session, batchVars, early, sessionAt>>

FlushUpload(f) ==
  /\ fl[f].pc = "upload"
  /\ fl' = [fl EXCEPT ![f].pc = "delete"]
  /\ early' = IF f = "periodic" /\ content[fl[f].cur] # Halves
                 /\ obs[fl[f].cur] + Expiration >= now
              THEN early \cup {fl[f].cur} ELSE early
  /\ QueueUpload(fl[f].cur)
  /\ UNCHANGED <<now, cacheVars, proc, merged, resolved, flushDone, session, sessionAt>>

(* Mutant: the entry stays in the cache. *)
FlushForgetsDelete(f) ==
  /\ fl[f].pc = "delete"
  /\ fl' = [fl EXCEPT ![f].pc = "scan", ![f].cur = NoObject]
  /\ UNCHANGED <<now, cacheVars, proc, merged, resolved, flushDone, session, batchVars, early, sessionAt>>

FlushDelete(f) ==
  /\ fl[f].pc = "delete"
  /\ fl' = [fl EXCEPT ![f].pc = "scan", ![f].cur = NoObject]
  /\ cache' = {o \in cache : o[1] # fl[f].cur[1]}
  /\ UNCHANGED <<now, content, src, obs, captured, proc, merged, resolved, flushDone, session,
                 batchVars, early, sessionAt>>

FlushReturns(f) ==
  /\ fl[f].pc = "scan" /\ fl[f].todo = {}
  /\ fl' = [fl EXCEPT ![f].pc = "idle"]
  /\ UNCHANGED <<now, cacheVars, proc, merged, resolved, flushDone, session, batchVars, early, sessionAt>>

FlushStep(f) == FlushVisit(f) \/ FlushUpload(f) \/ FlushDelete(f) \/ FlushReturns(f)

SwitchLearnSession ==
  /\ session < MaxSession
  /\ session' = session + 1
  /\ UNCHANGED <<now, cacheVars, proc, merged, resolved, fl, flushDone, batchVars, early, sessionAt>>

Next ==
  \/ Tick \/ FlushBatch \/ SwitchLearnSession
  \/ \E o \in Objects : StorePartial(o) \/ MergePair(o) \/ ProcessUnparsable(o)
  \/ FlipPair \/ UploadPair
  \/ \E r \in Others : ProcessOther(r)
  \/ CloseBegin \/ CloseEnd
  \/ PeriodicTick \/ PeriodicReturns
  \/ \E f \in Flushers : FlushStep(f)

Spec == Init /\ [][Next]_vars

(* The goroutines keep running; packets, switches and Close need not come. *)
Fairness ==
  /\ WF_vars(Tick)
  /\ WF_vars(PeriodicTick) /\ WF_vars(FlipPair \/ UploadPair) /\ WF_vars(CloseEnd) /\ WF_vars(FlushBatch)
  /\ \A f \in Flushers : WF_vars(FlushStep(f))

FairSpec == Spec /\ Fairness

-----------------------------------------------------------------------------
(* Properties *)

Reports == [id : Keys \cup Others, objects : SUBSET Objects, src : {"client", "server"}]

(* Type invariant of the cache, the flushers and the batch. *)
TypeOK ==
  /\ now \in Nat
  /\ cache \subseteq Objects
  /\ content \in [Objects -> SUBSET Halves]
  /\ src \in [Objects -> {"client", "server"}]
  /\ obs \in [Objects -> Int]
  /\ captured \subseteq Objects \cup Others
  /\ proc \in {"idle", "flipping", "uploading", "closing", "closed"}
  /\ merged \in Objects \cup {NoObject} /\ resolved \subseteq Keys
  /\ fl \in [Flushers -> [pc : {"idle", "scan", "upload", "delete", "done"}, todo : SUBSET Keys,
                          cur : Objects \cup {NoObject}, cutoff : Int]]
  /\ flushDone \in BOOLEAN /\ batchClosed \in BOOLEAN
  /\ session \in 1..MaxSession
  /\ batch \in Seq(Reports) /\ Len(batch) < MaxBatch
  /\ delivered \subseteq [report : Reports, session : 1..MaxSession]
  /\ rejected \subseteq Objects /\ early \subseteq Objects
  /\ queued \in [Objects -> Nat] /\ sessionAt \in [Objects -> 0..MaxSession]

(* Once Close returned, every half observed before Close began was given   *)
(* to the batcher before the batch was closed, or dropped for a reason:    *)
(* no interleaving of Process, periodicFlush and Close loses one           *)
(* (flushPairCache, Close).                                                *)
ClosedLosesNothing ==
  proc = "closed" =>
    \A o \in captured \cap Objects :
      \/ queued[o] > 0
      \/ o \in rejected
      \/ obs[o] >= fl["closer"].cutoff

(* "If partial is the request, flip the src/dst in the pair before          *)
(* reporting": Process does, but a periodicFlush that loaded the entry      *)
(* earlier may report it between the merge and the flip, both halves with  *)
(* the server as source.  Such a copy is never the only one: Process still *)
(* has the pair in hand, or has handed it to queueUpload the right way.    *)
PairedSourceIsClient ==
  \A d \in delivered :
    Cardinality(d.report.objects) = 2 /\ d.report.src = "server" =>
      \/ merged # NoObject /\ merged[1] = d.report.id
      \/ d.report.id \in resolved

(* periodicFlush uploads an unpaired half only when it is older than       *)
(* pairCacheExpiration.                                                    *)
NoEarlyFlush == early = {}

(* A half is given to the batcher at most twice: only periodicFlush and    *)
(* the capture goroutine can hold the same entry.                          *)
AtMostTwoCopies == \A o \in Objects : queued[o] <= 2

(* A report goes to the session it was captured in or to a later one       *)
(* (SwitchLearnSession, getLearnSession).                                  *)
SessionNotEarlier ==
  \A d \in delivered : \A o \in d.report.objects : sessionAt[o] <= d.session

(* A half that stays unpaired does not stay in the cache for ever, unless  *)
(* the collector is closed (periodicFlush).                                *)
EveryPartialLeaves ==
  \A k \in Keys : k \in CacheKeys ~> (k \notin CacheKeys \/ proc = "closed")

(* What the flushers do to the cache: periodicFlush takes no half before   *)
(* its time, and although load, upload and delete are separate steps no    *)
(* half is queued more than twice (flushPairCache).                        *)
CacheInv == TypeOK /\ NoEarlyFlush /\ AtMostTwoCopies

(* A report that was uploaded is true of what was captured: its session is *)
(* not older than its halves, and a pair with the wrong source comes from  *)
(* a flush and is followed by the right one (Process, flushPairCache).     *)
DeliveredIsTrue == PairedSourceIsClient /\ SessionNotEarlier
=============================================================================
