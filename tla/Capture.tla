------------------------------- MODULE Capture ------------------------------
(***************************************************************************)
(* The pipeline of goroutines behind pcap.Collect on one interface,        *)
(* pcap/pcap.go, net_parse.go and run.go:                                  *)
(*                                                                         *)
(*   pktChan --> capturePackets --wrappedChan--> ParseFromInterface        *)
(*                                                     --out--> Collect    *)
(*                                                                         *)
(* A packet is its number.  pktChan is filled by gopacket, a library, as   *)
(* is the assembler: it holds packets until their content is complete, is  *)
(* flushed by the ticker, or at EOF.  An item on out is the set of packets *)
(* it was made from.                                                       *)
(***************************************************************************)
EXTENDS Integers, Sequences, FiniteSets

CONSTANTS
  WrappedCap,    \* capacity of wrappedChan
  OutCap,        \* capacity of out
  MaxPackets     \* bound on packets

ASSUME CaptureAssumption ==
  WrappedCap \in Nat \ {0} /\ OutCap \in Nat \ {0} /\ MaxPackets \in Nat \ {0}

VARIABLES
  source,       \* gopacket's goroutine: none, open, ended (pktChan is closed)
  arrived,      \* packets it has put into pktChan
  capture,      \* capturePackets' goroutine: opening, select, sending, closing, closed
  next,         \* packets read from pktChan so far
  wrappedChan, wrappedClosed,
  parser,       \* ParseFromInterface's goroutine: select, packet, tick, eof, returned
  held,         \* packets held by the assembler
  pend,         \* items the parser has yet to send
  out, outClosed,
  collect,      \* Collect: starting, running, returned, failed
  stop,         \* signalClose is closed
  processed,    \* history: packets the collector was given
  lost          \* history: packets given up: no network layer, or a panic

sourceVars  == <<source, arrived>>
captureVars == <<capture, next>>
parserVars  == <<parser, held, pend>>
vars == <<sourceVars, captureVars, wrappedChan, wrappedClosed, parserVars, out, outClosed,
          collect, stop, processed, lost>>

Packets == 1..MaxPackets

Init ==
  /\ source = "none" /\ arrived = 0
  /\ capture = "opening" /\ next = 0
  /\ wrappedChan = <<>> /\ wrappedClosed = FALSE
  /\ parser = "select" /\ held = {} /\ pend = <<>>
  /\ out = <<>> /\ outClosed = FALSE
  /\ collect = "starting" /\ stop = FALSE
  /\ processed = {} /\ lost = {}

(* The caller closes stop. *)
Stop ==
  /\ ~ stop /\ stop' = TRUE
  /\ UNCHANGED <<sourceVars, captureVars, wrappedChan, wrappedClosed, parserVars, out, outClosed, collect, processed, lost>>

-----------------------------------------------------------------------------
(* capturePackets *)

(* The interface cannot be opened, or its filter not set: Collect fails;   *)
(* else the goroutines are started.                                        *)
OpenLive ==
  /\ capture = "opening"
  /\ \/ capture' = "select" /\ collect' = "running" /\ source' = "open"
     \/ capture' = "closed" /\ collect' = "failed" /\ UNCHANGED source
  /\ UNCHANGED <<arrived, next, wrappedChan, wrappedClosed, parserVars, out, outClosed, stop, processed, lost>>

(* gopacket: packets arrive until the source ends or the handle is closed. *)
PacketArrives ==
  /\ source = "open" /\ capture # "closed" /\ arrived < MaxPackets
  /\ arrived' = arrived + 1
  /\ UNCHANGED <<source, captureVars, wrappedChan, wrappedClosed, parserVars, out, outClosed, collect, stop, processed, lost>>

SourceEnds ==
  /\ source = "open" /\ source' = "ended"
  /\ UNCHANGED <<arrived, captureVars, wrappedChan, wrappedClosed, parserVars, out, outClosed, collect, stop, processed, lost>>

(* The goroutine selects on done and pktChan.  Having read a packet it     *)
(* sends it, without looking at done.                                      *)
ReadPacket ==
  /\ capture = "select" /\ next < arrived
  /\ next' = next + 1 /\ capture' = "sending"
  /\ UNCHANGED <<sourceVars, wrappedChan, wrappedClosed, parserVars, out, outClosed, collect, stop, processed, lost>>

SendPacket ==
  /\ capture = "sending" /\ Len(wrappedChan) < WrappedCap
  /\ wrappedChan' = Append(wrappedChan, next) /\ capture' = "select"
  /\ UNCHANGED <<sourceVars, next, wrappedClosed, parserVars, out, outClosed, collect, stop, processed, lost>>

(* done is closed, or pktChan is closed and drained: wrappedChan is closed *)
(* before the handle.                                                      *)
CaptureReturns ==
  /\ capture = "select"
  /\ stop \/ (source = "ended" /\ next = arrived)
  /\ capture' = "closing" /\ wrappedClosed' = TRUE
  /\ UNCHANGED <<sourceVars, next, wrappedChan, parserVars, out, outClosed, collect, stop, processed, lost>>

CloseHandle ==
  /\ capture = "closing" /\ capture' = "closed"
  /\ UNCHANGED <<sourceVars, next, wrappedChan, wrappedClosed, parserVars, out, outClosed, collect, stop, processed, lost>>

-----------------------------------------------------------------------------
(* ParseFromInterface *)

(* packetToParsedNetworkTraffic: nothing is sent of a packet without a     *)
(* network layer; content outside TCP is sent as it is; a TCP packet's     *)
(* metadata are sent and its data go to the assembler, which may complete  *)
(* a content.                                                              *)
HandlePacket ==
  /\ parser = "select" /\ wrappedChan # <<>>
  /\ wrappedChan' = Tail(wrappedChan)
  /\ parser' = "packet"
  /\ LET p == Head(wrappedChan) IN
       \/ pend' = <<>> /\ lost' = lost \cup {p} /\ UNCHANGED held
       \/ pend' = <<{p}>> /\ UNCHANGED <<held, lost>>
       \/ pend' = <<{}>> /\ held' = held \cup {p} /\ UNCHANGED lost
       \/ pend' = <<{}, held \cup {p}>> /\ held' = {} /\ UNCHANGED lost
  /\ UNCHANGED <<sourceVars, captureVars, wrappedClosed, out, outClosed, collect, stop, processed>>

(* A panic while a packet is handled is recovered: the rest is not sent. *)
RecoverPanic ==
  /\ parser = "packet" /\ pend # <<>>
  /\ lost' = lost \cup UNION {pend[i] : i \in 1..Len(pend)}
  /\ parser' = "select" /\ pend' = <<>>
  /\ UNCHANGED <<sourceVars, captureVars, wrappedChan, wrappedClosed, held, out, outClosed, collect, stop, processed>>

(* The ticker: what is too old is flushed. *)
FlushOld ==
  /\ parser = "select" /\ capture # "opening" /\ held # {}
  /\ \E s \in SUBSET held \ {{}} : pend' = <<s>> /\ held' = held \ s
  /\ parser' = "tick"
  /\ UNCHANGED <<sourceVars, captureVars, wrappedChan, wrappedClosed, out, outClosed, collect, stop, processed, lost>>

(* Mutant: the assembler is not flushed at the end. *)
FlushAllSkipped ==
  /\ parser = "select" /\ wrappedClosed /\ wrappedChan = <<>>
  /\ parser' = "eof"
  /\ UNCHANGED <<sourceVars, captureVars, wrappedChan, wrappedClosed, held, pend, out, outClosed, collect, stop, processed, lost>>

(* packets is closed: all that the assembler holds is flushed. *)
FlushAll ==
  /\ parser = "select" /\ wrappedClosed /\ wrappedChan = <<>>
  /\ pend' = IF held = {} THEN <<>> ELSE <<held>>
  /\ held' = {} /\ parser' = "eof"
  /\ UNCHANGED <<sourceVars, captureVars, wrappedChan, wrappedClosed, out, outClosed, collect, stop, processed, lost>>

SendItem ==
  /\ pend # <<>> /\ Len(out) < OutCap
  /\ out' = Append(out, Head(pend)) /\ pend' = Tail(pend)
  /\ UNCHANGED <<sourceVars, captureVars, wrappedChan, wrappedClosed, parser, held, outClosed, collect, stop, processed, lost>>

Handled ==
  /\ parser \in {"packet", "tick"} /\ pend = <<>>
  /\ parser' = "select"
  /\ UNCHANGED <<sourceVars, captureVars, wrappedChan, wrappedClosed, held, pend, out, outClosed, collect, stop, processed, lost>>

(* Mutant: out is never closed. *)
ParserReturnsSilently ==
  /\ parser = "eof" /\ pend = <<>>
  /\ parser' = "returned" /\ UNCHANGED outClosed
  /\ UNCHANGED <<sourceVars, captureVars, wrappedChan, wrappedClosed, held, pend, out, collect, stop, processed, lost>>

(* defer close(out) *)
ParserReturns ==
  /\ parser = "eof" /\ pend = <<>>
  /\ parser' = "returned" /\ outClosed' = TRUE
  /\ UNCHANGED <<sourceVars, captureVars, wrappedChan, wrappedClosed, held, pend, out, collect, stop, processed, lost>>

-----------------------------------------------------------------------------
(* Collect *)

(* Process of the next item succeeds, or fails and Collect returns.        *)
(* proc.Close is deferred: it is the end of either return.                 *)
ProcessItem ==
  /\ collect = "running" /\ out # <<>>
  /\ out' = Tail(out)
  /\ processed' = processed \cup Head(out)
  /\ collect' \in {"running", "failed"}
  /\ UNCHANGED <<sourceVars, captureVars, wrappedChan, wrappedClosed, parserVars, outClosed, stop, lost>>

CollectReturns ==
  /\ collect = "running" /\ out = <<>> /\ outClosed
  /\ collect' = "returned"
  /\ UNCHANGED <<sourceVars, captureVars, wrappedChan, wrappedClosed, parserVars, out, outClosed, stop, processed, lost>>

CaptureStep == OpenLive \/ ReadPacket \/ SendPacket \/ CaptureReturns \/ CloseHandle
ParserStep  == HandlePacket \/ FlushAll \/ SendItem \/ Handled \/ ParserReturns
CollectStep == ProcessItem \/ CollectReturns

Next ==
  \/ Stop \/ PacketArrives \/ SourceEnds \/ CaptureStep
  \/ ParserStep \/ FlushOld \/ RecoverPanic
  \/ CollectStep

Spec == Init /\ [][Next]_vars

(* Each goroutine goes on while it can.  Once done is closed a select that *)
(* finds a packet too still chooses done some time: Go's select picks at   *)
(* random, hence strong fairness.                                          *)
Fairness ==
  /\ WF_vars(CaptureStep) /\ WF_vars(ParserStep) /\ WF_vars(CollectStep)
  /\ SF_vars(stop /\ CaptureReturns)

FairSpec == Spec /\ Fairness

-----------------------------------------------------------------------------
(* Type correctness; the channels keep within their capacities. *)
TypeOK ==
  /\ source \in {"none", "open", "ended"} /\ arrived \in 0..MaxPackets
  /\ capture \in {"opening", "select", "sending", "closing", "closed"} /\ next \in 0..arrived
  /\ wrappedChan \in Seq(Packets) /\ Len(wrappedChan) <= WrappedCap
  /\ parser \in {"select", "packet", "tick", "eof", "returned"}
  /\ held \subseteq Packets /\ processed \subseteq Packets /\ lost \subseteq Packets
  /\ pend \in Seq(SUBSET Packets)
  /\ out \in Seq(SUBSET Packets) /\ Len(out) <= OutCap
  /\ wrappedClosed \in BOOLEAN /\ outClosed \in BOOLEAN /\ stop \in BOOLEAN
  /\ collect \in {"starting", "running", "returned", "failed"}

(* When Collect returns without an error, and so closes its collector, it  *)
(* has processed every packet that capturePackets read, those included     *)
(* that were in the channels or in the assembler when stop was closed;     *)
(* given up are only packets without a network layer or whose handling     *)
(* panicked.  Packets that had arrived are left in pktChan only if stop    *)
(* was closed: a source that ends is drained.                              *)
EverythingProcessed ==
  collect = "returned" =>
    /\ 1..next \subseteq processed \cup lost
    /\ next < arrived => stop

(* The pipeline drains: channels keep within their capacity and nothing    *)
(* that was read is left in them when Collect returns.                     *)
PipelineInv == TypeOK /\ EverythingProcessed

(* The pipeline implements the collector that apidump.Run knows: it        *)
(* returns only when nothing is owed, and once stop is closed it returns   *)
(* and releases the handle, unless Process fails: then the goroutines and  *)
(* the handle may be left behind for ever (Collect, capturePackets,        *)
(* ParseFromInterface).                                                    *)
Life == INSTANCE CollectorLife WITH
  phase  <- CASE collect \in {"starting", "running"} -> "running"
              [] collect = "returned" -> "done"
              [] OTHER -> "failed",
  owed   <- (1..next) \ (processed \cup lost),
  handle <- capture # "closed"

ImplementsCollectorLife == Life!FairSpec
=============================================================================
