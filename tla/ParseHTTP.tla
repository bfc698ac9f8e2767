----------------------------- MODULE ParseHTTP -----------------------------
(***************************************************************************)
(* learn/parse_http.go: what becomes of the body of a captured request or  *)
(* response.                                                               *)
(*                                                                         *)
(* A message has the compressions really applied to its body (layers, the  *)
(* first one innermost), its Content-Encoding header lines, each a list of *)
(* names (encodings), its media type and charset, which header names are   *)
(* spelled canonically, whether the decoded body is valid for its type,    *)
(* and whether it is too big for a trial decompression.  What HTTP calls   *)
(* deflate is a zlib stream; some senders leave the zlib wrapper out, and  *)
(* their layer is "flate".                                                 *)
(*                                                                         *)
(* damage says what carrying the body as a string did to its bytes: none,  *)
(* or some changed, early enough to spoil a gzip header or only later.  A  *)
(* captured body is never damaged.  A stream is the body as a reader sees  *)
(* it: the layers left, whether it is UTF-8, its damage, and whether       *)
(* reading it fails at once.  Data that a parser accepts is the content or *)
(* garbled; cookies and values are left out, and so is BodyDecompressed,   *)
(* which skips the decompressions.                                         *)
(***************************************************************************)
EXTENDS Integers, Sequences
LOCAL INSTANCE SequencesExt

CONSTANT Captured   \* messages as the packet capture gives them

Algorithms == {"gzip", "deflate", "br"}
Structured == {"json", "multipart"}   \* media types whose parsers reject other data
Loose      == {"text", "blob"}        \* media types for which any data will do
Failed     == [failed |-> TRUE]

(* What the readers of decompress really read: deflate is flate.NewReader. *)
Format(algorithm) == IF algorithm = "deflate" THEN "flate" ELSE algorithm

(* headers[...] and Get look under the canonical name only. *)
ContentEncoding(m) == IF "Content-Encoding" \in m.canonical THEN m.encodings ELSE <<>>
ContentType(m)     == IF "Content-Type" \in m.canonical THEN m.type ELSE "none"

RawBody(m, damage) ==
  [failed |-> FALSE, layers |-> m.layers, utf8 |-> m.charset # "other", damage |-> damage,
   broken |-> FALSE]

(* decompress: a header line is the name of one algorithm, a list of names *)
(* is an unsupported type.  gzip reads its header at once, the others fail *)
(* when they are read.                                                     *)
Decompress(s, line) ==
  LET fits(a) == ~s.broken /\ s.layers # <<>> /\ Last(s.layers) = Format(a) IN
  IF s.failed \/ line = <<"identity">> THEN s
  ELSE IF ~\E a \in Algorithms : line = <<a>> THEN Failed
  ELSE IF line = <<"gzip">> /\ (~fits("gzip") \/ s.damage = "early") THEN Failed
  ELSE IF fits(line[1]) THEN [s EXCEPT !.layers = Front(@)]
  ELSE [s EXCEPT !.broken = TRUE]

(* Mutant: the encodings are undone in the order in which they are listed. *)
DecodeBodyInOrder(m, damage) ==
  LET plain == FoldLeft(Decompress, RawBody(m, damage), ContentEncoding(m)) IN
  IF plain.failed \/ ContentType(m) = "none" \/ m.charset = "unknown" THEN Failed
  ELSE [plain EXCEPT !.utf8 = TRUE]

(* decodeBody: the encodings are undone from the last to the first; then   *)
(* the charset is converted, if the Content-Type can be parsed.            *)
DecodeBody(m, damage) ==
  LET plain == FoldLeft(Decompress, RawBody(m, damage), Reverse(ContentEncoding(m))) IN
  IF plain.failed \/ ContentType(m) = "none" \/ m.charset = "unknown" THEN Failed
  ELSE [plain EXCEPT !.utf8 = TRUE]

(* attemptDecompress: the first algorithm that reads the raw body to its   *)
(* end, for one layer and without the charset.                             *)
AttemptDecompress(m, damage) ==
  LET raw == RawBody(m, damage)
      readable(a) == LET s == Decompress(raw, <<a>>) IN ~s.failed /\ ~s.broken IN
  IF m.big \/ ~\E a \in Algorithms : readable(a) THEN Failed
  ELSE Decompress(raw, <<CHOOSE a \in Algorithms : readable(a)>>)

(* parseBody and parseMultipartBody: the results a stream can have.        *)
(* Structured types notice data that is not theirs, a form may, text and   *)
(* blobs never do; text in a wrong charset may be taken for valid.  What   *)
(* was compressed and damaged may end in an error of its reader, and late  *)
(* damage may lie behind all that is read.                                 *)
ParseBody(m, s) ==
  LET decoded == s.layers = <<>> /\ s.utf8
      noticed == m.type \notin Loose \/ (s.damage # "none" /\ m.layers # <<>>) IN
  IF s.broken \/ (m.type \in Structured /\ s.layers # <<>>) THEN {"unparsable"}
  ELSE IF decoded /\ s.damage = "none" THEN
    IF m.valid \/ m.type \in Loose THEN {"content"} ELSE {"unparsable"}
  ELSE {"garbled"} \cup (IF noticed THEN {"unparsable"} ELSE {})
                   \cup (IF decoded /\ s.damage = "late" THEN {"content"} ELSE {})

(* The body of ParseHTTP: an error of decodeBody is an error of the        *)
(* message, an error of the parsers only costs the body.                   *)
ParseHTTP(m, damage) ==
  LET stream   == DecodeBody(m, damage)
      fallback == AttemptDecompress(m, damage) IN
  IF m.empty THEN {"bare"}
  ELSE IF stream.failed THEN {"error"}
  ELSE UNION {IF r = "unparsable" /\ ~fallback.failed THEN ParseBody(m, fallback) ELSE {r}
              : r \in ParseBody(m, stream)}

-----------------------------------------------------------------------------
(* Reference: what a message deserves, read off the message alone. *)

(* The Content-Type is found and known, and each Content-Encoding line     *)
(* that is found names one known algorithm.                                *)
Understood(m) ==
  /\ \A line \in Range(ContentEncoding(m)) : \E a \in Algorithms \cup {"identity"} : line = <<a>>
  /\ ContentType(m) # "none" /\ m.charset # "unknown"

(* The lines found announce the layers there are, in the formats read. *)
Honest(m) ==
  LET applied == SelectSeq(ContentEncoding(m), LAMBDA line : line # <<"identity">>) IN
  Understood(m) /\ m.layers = [i \in DOMAIN applied |-> Format(applied[i][1])]

(* A result r of ParseHTTP is one the message deserves.  An undamaged,     *)
(* valid and honest message keeps its content, and so does one whose       *)
(* single compression is not announced.  A message is given up only if it  *)
(* is not understood or announces a gzip whose header is not there.        *)
(* Garbled data is reported only of a message that is invalid, damaged or  *)
(* not honest, and of a structured type, undamaged, only when the fallback *)
(* skipped the charset.  Early damage always costs the content.            *)
Deserved(m, damage, r) ==
  LET hidden == /\ Understood(m) /\ ContentEncoding(m) = <<>> /\ Len(m.layers) = 1
                /\ m.layers[1] # "zlib"
                /\ m.type \in Structured /\ m.charset = "none" /\ ~m.big
      whole  == damage = "none" /\ m.valid IN
  /\ ~m.empty /\ whole /\ (Honest(m) \/ hidden) => r = "content"
  /\ r = "error" => \/ ~Understood(m)
                    \/ /\ ~Honest(m) \/ damage = "early"
                       /\ Contains(ContentEncoding(m), <<"gzip">>)
  /\ r = "garbled" => ~Honest(m) \/ ~whole
  /\ r = "garbled" /\ m.type \in Structured => m.charset = "other" \/ damage # "none"
  /\ r = "content" => damage # "early"

(* Every captured message gets a result it deserves. *)
CaptureIsParsed ==
  \A m \in Captured : \A r \in ParseHTTP(m, "none") : Deserved(m, "none", r)
=============================================================================
