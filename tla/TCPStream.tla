----------------------------- MODULE TCPStream ------------------------------
(***************************************************************************)
(* One reassembled TCP connection, pcap/stream.go: a tcpStream and its two *)
(* tcpFlows, which choose a parser for the data of each direction, feed    *)
(* it, and report what it returns on outChan.                              *)
(*                                                                         *)
(* Data are byte counts.  The assembler, the factory selector and the      *)
(* parsers are libraries: any answer they may give is tried.  From how the *)
(* flow uses them: the assembler presents again what KeepFrom kept, but    *)
(* only together with new data; Reject discards all input; Parse returns   *)
(* on error every byte it was given, on success a rest of the latest input *)
(* and, at the end of the stream, one of the two.                          *)
(* A call of reassembled is the steps from ReassembledSG to NoCall.        *)
(***************************************************************************)
EXTENDS Integers

CONSTANTS
  Dirs,        \* the two directions of the connection
  MaxChunk,    \* bound on new bytes per call
  MaxBytes     \* bound on bytes per direction

ASSUME StreamAssumption == "none" \notin Dirs /\ MaxChunk \in Nat /\ MaxBytes \in Nat

VARIABLES
  opened,      \* the first packet was accepted: both flows exist
  parser,      \* directions with a currentParser
  held,        \* bytes given to currentParser
  unused,      \* length of unusedAcceptBuf
  kept,        \* bytes the assembler keeps (KeepFrom)
  call,        \* reassembledWithIgnore in progress: direction, bytes left, isEnd
  ended,       \* directions whose isEnd was delivered
  complete,    \* ReassemblyComplete was called
  delivered,   \* history: bytes delivered
  parsed,      \* history: bytes in parsed content
  dropped,     \* history: bytes reported as DroppedBytes
  behind       \* history: directions whose kept bytes follow parsed content

streamVars == <<opened, parser, held, unused, kept, call, ended, complete,
                delivered, parsed, dropped, behind>>

NoDir  == "none"
NoCall == [dir |-> NoDir, len |-> 0, end |-> FALSE]
Zero   == [d \in Dirs |-> 0]

StreamInit ==
  /\ opened = FALSE /\ parser = {} /\ held = Zero /\ unused = Zero /\ kept = Zero
  /\ call = NoCall /\ ended = {} /\ complete = FALSE
  /\ delivered = Zero /\ parsed = Zero /\ dropped = Zero /\ behind = {}

Add(f, d, n) == [f EXCEPT ![d] = @ + n]
Set(f, d, n) == [f EXCEPT ![d] = n]

(* tcpStream.Accept: the first packet creates both flows.  The metadata    *)
(* that every packet sends to outChan are left out.                        *)
Accept ==
  /\ call = NoCall /\ ~ complete /\ ~ opened
  /\ opened' = TRUE
  /\ UNCHANGED <<parser, held, unused, kept, call, ended, complete, delivered, parsed, dropped, behind>>

(* The assembler delivers n new bytes behind the kept ones. *)
ReassembledSG(d, n, end) ==
  /\ call = NoCall /\ ~ complete /\ opened /\ d \notin ended
  /\ n > 0 \/ end
  /\ delivered[d] + n <= MaxBytes
  /\ call' = [dir |-> d, len |-> kept[d] + n, end |-> end]
  /\ kept' = Set(kept, d, 0) /\ behind' = behind \ {d}
  /\ delivered' = Add(delivered, d, n)
  /\ ended' = IF end THEN ended \cup {d} ELSE ended
  /\ UNCHANGED <<opened, parser, held, unused, complete, parsed, dropped>>

-----------------------------------------------------------------------------
(* reassembledWithIgnore without a parser: Select. *)

Selecting(d) == call # NoCall /\ call.dir = d /\ d \notin parser

(* Mutant: unusedAcceptBuf is not updated. *)
NeedMoreDataKeepsBuf(d, k) ==
  /\ Selecting(d) /\ k <= call.len
  /\ dropped' = Add(dropped, d, k)
  /\ kept' = Set(kept, d, call.len - k)
  /\ call' = NoCall
  /\ UNCHANGED <<opened, parser, held, unused, ended, complete, delivered, parsed, behind>>

(* NeedMoreData, after k bytes all parsers discarded. *)
NeedMoreData(d, k) ==
  /\ Selecting(d) /\ k <= call.len
  /\ dropped' = Add(dropped, d, k)
  /\ kept' = Set(kept, d, call.len - k)
  /\ unused' = Set(unused, d, call.len - k)
  /\ call' = NoCall
  /\ UNCHANGED <<opened, parser, held, ended, complete, delivered, parsed, behind>>

Reject(d) ==
  /\ Selecting(d)
  /\ dropped' = Add(dropped, d, call.len)
  /\ unused' = Set(unused, d, 0)
  /\ call' = NoCall
  /\ UNCHANGED <<opened, parser, held, kept, ended, complete, delivered, parsed, behind>>

(* Accept: a parser is created, and Parse follows. *)
AcceptBy(d, k) ==
  /\ Selecting(d) /\ k < call.len
  /\ dropped' = Add(dropped, d, k)
  /\ unused' = Set(unused, d, 0)
  /\ call' = [call EXCEPT !.len = @ - k]
  /\ parser' = parser \cup {d}
  /\ UNCHANGED <<opened, held, kept, ended, complete, delivered, parsed, behind>>

(* Accept, but the first byte has no AssemblerContext with TCP sequence    *)
(* numbers: everything is raw bytes.                                       *)
AcceptWithoutContext(d) ==
  /\ Selecting(d) /\ call.len > 0
  /\ dropped' = Add(dropped, d, call.len)
  /\ unused' = Set(unused, d, 0)
  /\ call' = NoCall
  /\ UNCHANGED <<opened, parser, held, kept, ended, complete, delivered, parsed, behind>>

-----------------------------------------------------------------------------
(* reassembledWithIgnore with a parser: Parse. *)

Parsing(d) == call # NoCall /\ call.dir = d /\ d \in parser

ParseFails(d) ==
  /\ Parsing(d)
  /\ dropped' = Add(dropped, d, held[d] + call.len)
  /\ parser' = parser \ {d} /\ held' = Set(held, d, 0)
  /\ call' = NoCall
  /\ UNCHANGED <<opened, unused, kept, ended, complete, delivered, parsed, behind>>

(* Mutant: the rest of the last data is not parsed. *)
ParseCompletesOnce(d, u) ==
  /\ Parsing(d) /\ u <= call.len /\ u < held[d] + call.len
  /\ parsed' = Add(parsed, d, held[d] + call.len - u)
  /\ parser' = parser \ {d} /\ held' = Set(held, d, 0)
  /\ call' = NoCall
  /\ IF u > 0 /\ ~ call.end
     THEN kept' = Set(kept, d, u) /\ behind' = behind \cup {d}
     ELSE UNCHANGED <<kept, behind>>
  /\ UNCHANGED <<opened, unused, ended, complete, delivered, dropped>>

(* Content is complete, u bytes are left: at the end of the stream they    *)
(* are handled at once, else the assembler keeps them.                     *)
ParseCompletes(d, u) ==
  /\ Parsing(d) /\ u <= call.len /\ u < held[d] + call.len
  /\ parsed' = Add(parsed, d, held[d] + call.len - u)
  /\ parser' = parser \ {d} /\ held' = Set(held, d, 0)
  /\ call' = IF u > 0 /\ call.end THEN [call EXCEPT !.len = u] ELSE NoCall
  /\ IF u > 0 /\ ~ call.end
     THEN kept' = Set(kept, d, u) /\ behind' = behind \cup {d}
     ELSE UNCHANGED <<kept, behind>>
  /\ UNCHANGED <<opened, unused, ended, complete, delivered, dropped>>

(* The parser wants more and holds all it was given. *)
ParseContinues(d) ==
  /\ Parsing(d) /\ ~ call.end
  /\ held' = Add(held, d, call.len)
  /\ call' = NoCall
  /\ UNCHANGED <<opened, parser, unused, kept, ended, complete, delivered, parsed, dropped, behind>>

-----------------------------------------------------------------------------
(* reassemblyComplete of one flow: the active parser fails or completes,   *)
(* leaving rest[d] bytes; without a parser unusedAcceptBuf is flushed.     *)
FlowParsed(d, ok, rest)  == IF d \in parser /\ d \in ok THEN held[d] - rest[d] ELSE 0

FlowDropped(d, ok, rest) ==
  IF d \in parser THEN (IF d \in ok THEN rest[d] ELSE held[d]) ELSE unused[d]

(* ReassemblyComplete: both flows are finished. *)
ReassemblyComplete ==
  /\ call = NoCall /\ ~ complete
  /\ complete' = TRUE
  /\ \E ok \in SUBSET Dirs : \E rest \in [Dirs -> 0..MaxBytes] :
       /\ \A d \in Dirs : rest[d] <= held[d]
       /\ parsed'  = [d \in Dirs |-> parsed[d] + FlowParsed(d, ok, rest)]
       /\ dropped' = [d \in Dirs |-> dropped[d] + FlowDropped(d, ok, rest)]
  /\ parser' = {} /\ held' = Zero
  /\ UNCHANGED <<opened, unused, kept, call, ended, delivered, behind>>

StreamNext ==
  \/ \E d \in Dirs :
       \/ Reject(d) \/ AcceptWithoutContext(d) \/ ParseFails(d) \/ ParseContinues(d)
       \/ \E n \in 0..MaxChunk, end \in BOOLEAN : ReassembledSG(d, n, end)
       \/ \E k \in 0..MaxBytes : NeedMoreData(d, k) \/ AcceptBy(d, k) \/ ParseCompletes(d, k)
  \/ Accept \/ ReassemblyComplete

StreamSpec == StreamInit /\ [][StreamNext]_streamVars

-----------------------------------------------------------------------------
(* Type correctness. *)
StreamTypeOK ==
  /\ opened \in BOOLEAN
  /\ parser \in SUBSET Dirs /\ ended \in SUBSET Dirs /\ behind \in SUBSET Dirs
  /\ held \in [Dirs -> Nat] /\ unused \in [Dirs -> Nat] /\ kept \in [Dirs -> Nat]
  /\ delivered \in [Dirs -> Nat] /\ parsed \in [Dirs -> Nat] /\ dropped \in [Dirs -> Nat]
  /\ call \in [dir : Dirs \cup {NoDir}, len : Nat, end : BOOLEAN]
  /\ complete \in BOOLEAN

(* Bytes of direction d the call in progress has yet to handle. *)
InCall(d) == IF call.dir = d THEN call.len ELSE 0

(* While the stream lives, every byte delivered was reported once, is in   *)
(* the hands of the parser, or will be presented again.                    *)
BytesConserved ==
  ~ complete => \A d \in Dirs :
    delivered[d] = parsed[d] + dropped[d] + held[d] + kept[d] + InCall(d)

(* No byte is reported twice, the flush of unusedAcceptBuf at the end of   *)
(* the stream included.                                                    *)
NothingReportedTwice == \A d \in Dirs : parsed[d] + dropped[d] <= delivered[d]

(* At the end of the stream all bytes were reported, except those that     *)
(* followed parsed content in the last data delivered.                     *)
LossOnlyBehindContent ==
  complete => \A d \in Dirs : d \in behind \/ parsed[d] + dropped[d] = delivered[d]

(* What outChan reports of a direction's bytes: never more than came, and  *)
(* at the end all of them but those behind parsed content.                 *)
ReportsAreSound == NothingReportedTwice /\ LossOnlyBehindContent
=============================================================================
