----------------------------- MODULE GrpcWebBody ------------------------------
(***************************************************************************)
(* A gRPC-Web body on its way through the codecs                           *)
(* (packages/runtime/src/web/codec): a sender writes frames, perhaps       *)
(* compressed, perhaps in base64; the network cuts the body anywhere; the  *)
(* incremental decoders of the reader put it together again.               *)
(*                                                                         *)
(* A byte of the code has 8 bits and a base64 digit 6.  Both ranges are    *)
(* constants here, so that a small payload already has a length of two     *)
(* digits.  gzip is external: a mark ahead of the payload.  TrailerText    *)
(* says what a trailer frame means; here an empty one has no status.       *)
(***************************************************************************)
EXTENDS Naturals, Sequences, FiniteSets, SequencesExt

CONSTANTS
  Byte,         \* number of values of a byte: 256
  Digit,        \* number of base64 digits: 64
  Bodies,       \* the sequences of frames a sender writes
  MaxCut,       \* how much of the end of a body may be lost, less than a frame
  ChunkSizes    \* lengths of the pieces a body arrives in, next to all of it

\* A payload has a length that four bytes hold, even behind the mark of gzip.
Payload == {p \in Seq(0..(Byte - 1)) : Len(p) + 1 < Byte * Byte * Byte * Byte}
Values ==
  [kind : {"message", "trailers"}, payload : Payload]
  \cup [kind : {"other"}, payload : Payload, flags : 0..(Byte - 1)]

\* Three bytes are as much as four digits: 256 is 4 * 4 * 4 * 4, and 64 is 4 * 4 * 4.
ASSUME GrpcWebBodyAssumption ==
  /\ Digit \in Nat /\ \E k \in 2..Digit : Digit = k * k * k /\ Byte = k * k * k * k
  /\ MaxCut \in 0..4 /\ ChunkSizes \subseteq Nat \ {0}
  /\ Bodies \subseteq Seq(Values)

VARIABLES
  sent,         \* the frames the sender wrote, and how it wrote them
  body,         \* the body as it arrives, without what was cut off
  rest,         \* what has not arrived yet
  pending,      \* #pending of the text decoder
  buffer,       \* #buffer of the frame decoder
  got,          \* the values decode has yielded
  decoding      \* "idle", "open", "end" or "error"

wire == <<sent, body, rest, pending, buffer, got, decoding>>

Map(f(_), s) == [i \in DOMAIN s |-> f(s[i])]

-----------------------------------------------------------------------------
(* Frames *)

TRAILER_FLAG == Byte \div 2
COMPRESSED_FLAG == 1

writeLength(n) ==
  <<(n \div (Byte * Byte * Byte)) % Byte, (n \div (Byte * Byte)) % Byte,
    (n \div Byte) % Byte, n % Byte>>

\* [mutant] the length is read with its last two bytes swapped
readLengthSwapped(b) == (b[2] * Byte + b[3]) * Byte * Byte + b[5] * Byte + b[4]

\* The length in the header at the front of b.
readLength(b) == ((b[2] * Byte + b[3]) * Byte + b[4]) * Byte + b[5]

encodeRawFrame(payload, flags) == <<flags>> \o writeLength(Len(payload)) \o payload

IsTrailer(f) == f.flags >= TRAILER_FLAG
Compressed(f) == f.flags % 2 = COMPRESSED_FLAG

\* One turn of the loop of push: the frame at the front of the buffer if it is
\* complete.  A throw loses the frames this push has found.
FrameTurn(at) ==
  LET n == readLength(at.buffer)
      f == [flags |-> at.buffer[1], payload |-> SubSeq(at.buffer, 6, 5 + n)]
      after == SubSeq(at.buffer, 6 + n, Len(at.buffer))
  IN IF at.failed \/ Len(at.buffer) < 5 \/ Len(at.buffer) < 5 + n THEN at
     ELSE IF IsTrailer(f) /\ Compressed(f) THEN [frames |-> <<>>, buffer |-> after, failed |-> TRUE]
     ELSE [frames |-> Append(at.frames, f), buffer |-> after, failed |-> FALSE]

\* [mutant] a push finds one frame at most
FramePushOne(b) == FrameTurn([frames |-> <<>>, buffer |-> b, failed |-> FALSE])

\* FrameDecoder.push: the frames now complete.  A turn takes five bytes at least.
FramePush(b) ==
  LET turn[i \in 0..(Len(b) \div 5)] ==
        IF i = 0 THEN [frames |-> <<>>, buffer |-> b, failed |-> FALSE] ELSE FrameTurn(turn[i - 1])
  IN turn[Len(b) \div 5]

-----------------------------------------------------------------------------
(* Base64.  Pad is the padding, Space any white space. *)

Pad == Digit
Space == Digit + 1

\* btoa of one group of at most three bytes.
Quad(g) ==
  LET at(i) == IF i <= Len(g) THEN g[i] ELSE 0
      n == (at(1) * Byte + at(2)) * Byte + at(3)
      d == <<n \div (Digit * Digit * Digit), (n \div (Digit * Digit)) % Digit,
             (n \div Digit) % Digit, n % Digit>>
  IN [i \in 1..4 |-> IF i <= Len(g) + 1 THEN d[i] ELSE Pad]

\* The groups of a binary string; the last may be short.
Groups(bytes) ==
  [i \in 1..((Len(bytes) + 2) \div 3) |->
     SubSeq(bytes, 3 * i - 2, IF 3 * i < Len(bytes) THEN 3 * i ELSE Len(bytes))]

encodeBase64(bytes) == FlattenSeq(Map(Quad, Groups(bytes)))

\* atob of one quad.
Bytes(q) ==
  LET d(i) == IF q[i] = Pad THEN 0 ELSE q[i]
      n == ((d(1) * Digit + d(2)) * Digit + d(3)) * Digit + d(4)
  IN SubSeq(<<n \div (Byte * Byte), (n \div Byte) % Byte, n % Byte>>, 1,
            IF q[3] = Pad THEN 1 ELSE IF q[4] = Pad THEN 2 ELSE 3)

decodeBase64Segment(text) ==
  FlattenSeq([i \in 1..(Len(text) \div 4) |-> Bytes(SubSeq(text, 4 * i - 3, 4 * i))])

\* How much of the text is a whole segment: to the end of the first padded
\* quad or, without padding, all the quads.
EncodedLength(text) ==
  LET pads == {i \in DOMAIN text : text[i] = Pad}
  IN IF pads = {} THEN Len(text) - (Len(text) % 4)
     ELSE ((Min(pads) + 3) \div 4) * 4

\* atob refuses a text with padding ahead of its last quad.
Decodable(text) == \A i \in 1..(Len(text) - 4) : text[i] # Pad

\* One turn of the loop of #decodeCompleteSegments: the segment at the front, if
\* it is complete.  When atob throws, what was decoded before is lost.
SegmentTurn(at) ==
  LET n == EncodedLength(at.pending)
      segment == SubSeq(at.pending, 1, n)
  IN IF at.failed \/ Len(at.pending) < 4 \/ n = 0 \/ Len(at.pending) < n THEN at
     ELSE IF ~Decodable(segment) THEN [decoded |-> <<>>, pending |-> at.pending, failed |-> TRUE]
     ELSE [decoded |-> Append(at.decoded, decodeBase64Segment(segment)),
           pending |-> SubSeq(at.pending, n + 1, Len(at.pending)), failed |-> FALSE]

\* #decodeCompleteSegments: one chunk of bytes for each segment.
Segments(text) ==
  LET turn[i \in 0..(Len(text) \div 4)] ==
        IF i = 0 THEN [decoded |-> <<>>, pending |-> text, failed |-> FALSE] ELSE SegmentTurn(turn[i - 1])
  IN turn[Len(text) \div 4]

\* replace(/\s/g, '').
Unspaced(text) == FlattenSeq([i \in DOMAIN text |-> IF text[i] = Space THEN <<>> ELSE <<text[i]>>])

TextPush(chunk) == Segments(pending \o Unspaced(chunk))

-----------------------------------------------------------------------------
(* Values *)

\* gzip, external: its output begins with a mark.
Mark == Byte - 1
Deflate(payload) == <<Mark>> \o payload
Inflates(payload) == payload # <<>> /\ Head(payload) = Mark

\* Whether there is a codec for the compression a header names.
grpcWebCompressionCodec(encoding) == encoding = "gzip"

\* What decode makes of a frame: a value, or a throw.
Undecodable(f) ==
  IF IsTrailer(f) THEN f.payload = <<>>
  ELSE /\ Compressed(f)
       /\ ~grpcWebCompressionCodec(sent.compression) \/ ~Inflates(f.payload)

ValueOf(f) ==
  [kind |-> IF IsTrailer(f) THEN "trailers" ELSE "message",
   payload |-> IF Compressed(f) THEN Tail(f.payload) ELSE f.payload]

\* The frames ahead of the first one that throws.
Sound(frames) ==
  LET bad == {i \in DOMAIN frames : Undecodable(frames[i])}
  IN IF bad = {} THEN frames
     ELSE SubSeq(frames, 1, Min(bad) - 1)

\* encode: a message is compressed when the sender says so.
encode(value, compression) ==
  IF value.kind = "trailers" THEN encodeRawFrame(value.payload, TRAILER_FLAG)
  ELSE IF grpcWebCompressionCodec(compression) THEN encodeRawFrame(Deflate(value.payload), COMPRESSED_FLAG)
  ELSE encodeRawFrame(value.payload, 0)

-----------------------------------------------------------------------------
(* The body *)

InitWire ==
  /\ sent = [frames |-> <<>>, compression |-> "identity", layout |-> "raw"]
  /\ body = <<>> /\ rest = <<>> /\ pending = <<>> /\ buffer = <<>> /\ got = <<>>
  /\ decoding = "idle"

\* The bytes of a frame: what encode writes for a value, or another program's
\* frame with flags of its own.
FrameBytes(f, compression) ==
  IF f.kind = "other" THEN encodeRawFrame(f.payload, f.flags) ELSE encode(f, compression)

\* The body: binary, every frame a base64 text of its own (as the handler writes
\* it), the whole one text, or that text broken into lines.
Layout(frames, layout) ==
  LET bytes == FlattenSeq(frames)
      text == encodeBase64(bytes)
  IN CASE layout = "raw" -> bytes
       [] layout = "separate" -> FlattenSeq(Map(encodeBase64, frames))
       [] layout = "joint" -> text
       [] OTHER -> FlattenSeq([i \in DOMAIN text |->
                     IF i % 3 = 0 THEN <<text[i], Space>> ELSE <<text[i]>>])

\* A sender writes a body, and the network loses its end.
SendBody ==
  /\ decoding = "idle"
  /\ \E b \in Bodies, compression \in {"identity", "gzip"},
        layout \in {"raw", "separate", "joint", "lines"}, cut \in 0..MaxCut :
       LET frames == Map(LAMBDA f : FrameBytes(f, compression), b)
           whole == Layout(frames, layout)
       IN /\ cut <= Len(whole)
          /\ sent' = [frames |-> frames, compression |-> compression, layout |-> layout]
          /\ body' = SubSeq(whole, 1, Len(whole) - cut)
          /\ rest' = body'
  /\ decoding' = "open"
  /\ UNCHANGED <<pending, buffer, got>>

\* A chunk of bytes pushed into the frame decoder, and the values of its frames
\* yielded; a throw ends it.
PushChunk(at, chunk) ==
  LET pushed == FramePush(at.buffer \o chunk)
      sound == Sound(pushed.frames)
  IN IF at.failed THEN at
     ELSE [buffer |-> pushed.buffer, got |-> at.got \o Map(ValueOf, sound),
           failed |-> pushed.failed \/ Len(sound) # Len(pushed.frames)]

\* Chunks, one after the other.
PushAll(chunks) ==
  LET turn[i \in 0..Len(chunks)] ==
        IF i = 0 THEN [buffer |-> buffer, got |-> got, failed |-> FALSE]
        ELSE PushChunk(turn[i - 1], chunks[i])
  IN turn[Len(chunks)]

\* One chunk arrives and goes through the decoders.
Deliver(n) ==
  /\ decoding = "open" /\ n <= Len(rest)
  /\ LET chunk == SubSeq(rest, 1, n)
         text == IF sent.layout = "raw"
                 THEN [decoded |-> <<chunk>>, pending |-> <<>>, failed |-> FALSE]
                 ELSE TextPush(chunk)
         after == PushAll(text.decoded)
     IN /\ rest' = SubSeq(rest, n + 1, Len(rest))
        /\ pending' = text.pending
        /\ buffer' = after.buffer
        /\ got' = after.got
        /\ decoding' = IF text.failed \/ after.failed THEN "error" ELSE "open"
  /\ UNCHANGED <<sent, body>>

\* finish of the text decoder and of the frame decoder: nothing is left over.
TextFinish == pending = <<>>
FrameFinish == buffer = <<>>

\* The body ends: both decoders finish.
Finish ==
  /\ decoding = "open" /\ rest = <<>>
  /\ decoding' = IF TextFinish /\ FrameFinish THEN "end" ELSE "error"
  /\ UNCHANGED <<sent, body, rest, pending, buffer, got>>

WireNext ==
  \/ SendBody
  \/ \E n \in ChunkSizes \cup {Len(rest)} : n > 0 /\ Deliver(n)
  \/ Finish
-----------------------------------------------------------------------------
(* Properties *)

\* The frames of the body as sent, and its values ahead of the first bad one.
SentFrames == Map(LAMBDA b : [flags |-> b[1], payload |-> SubSeq(b, 6, Len(b))], sent.frames)
Malformed(f) == (IsTrailer(f) /\ Compressed(f)) \/ Undecodable(f)
Meant ==
  LET bad == {i \in DOMAIN SentFrames : Malformed(SentFrames[i])}
  IN Map(ValueOf, IF bad = {} THEN SentFrames
                  ELSE SubSeq(SentFrames, 1, Min(bad) - 1))

\* However the body is cut into chunks, the reader yields the sender's values, in
\* order, none twice and none made up; the end of a body whose every frame
\* arrived is no error, and a body cut short or with a bad frame is one.
Reassembled ==
  /\ IsPrefix(got, Meant)
  /\ decoding = "end" => Len(got) = Len(SentFrames)
  /\ decoding = "error" =>
       \/ \E f \in ToSet(SentFrames) : Malformed(f)
       \/ body # Layout(sent.frames, sent.layout)

\* What has arrived of the body, as bytes.
Arrived ==
  LET front == SubSeq(body, 1, Len(body) - Len(rest))
      text == Unspaced(front)
  IN IF sent.layout = "raw" THEN front
     ELSE decodeBase64Segment(SubSeq(text, 1, Len(text) - (Len(text) % 4)))

\* The reader stands inside the padding of a text.
InPadding == pending # <<>> /\ Last(pending) = Pad

\* A message is yielded with the chunk that completes it, not with the next one,
\* unless that chunk ends between two padding characters.
Prompt ==
  decoding = "open" /\ ~InPadding =>
    Len(got) = Cardinality({k \in DOMAIN sent.frames :
                  Len(FlattenSeq(SubSeq(sent.frames, 1, k))) <= Len(Arrived)})
=============================================================================
