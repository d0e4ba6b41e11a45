---------------------------- MODULE ExchangeProofs ----------------------------
(* What the HTTP handler keeps, whichever dispatcher is behind it: an invariant  *)
(* of the exchange and, for each of its steps, that the step keeps it.  The      *)
(* proofs about the gateways rest on these lemmas.                               *)
EXTENDS HttpExchange, TLAPS

-----------------------------------------------------------------------------
(* The invariant *)

\* What there is before the dispatch, ...
Before ==
  hpc \in {"start", "decoding"} =>
    /\ wire = <<>> /\ buffered = 0 /\ epc = "idle"
    /\ ~headSent /\ ~ended /\ ~listening /\ ~callEnded /\ ~aborted

\* ... while the dispatcher works, ...
During ==
  /\ hpc = "dispatching" => listening /\ ~callEnded /\ ~ended /\ headSent
  /\ hpc = "dispatching" /\ conn = "open" => wire # <<>>
  /\ epc # "idle" => hpc = "dispatching"

\* ... and after it.  Only a request whose call was not made is failing: there is
\* nothing on the wire, or the head.
After ==
  /\ hpc = "trailer" => headSent /\ ~ended /\ (conn = "open" => wire # <<>>)
  /\ hpc = "failing" =>
       /\ wire \in {<<>>, <<HeadFrame>>} /\ ~ended
       /\ IF headSent THEN conn = "open" => wire = <<HeadFrame>> ELSE wire = <<>>

\* The signal aborts only with the connection.
AbortedLate == aborted => conn = "closed"

\* The frames of the response in their order.
Shape ==
  \A i \in DOMAIN wire :
    /\ i = 1 => wire[i] = HeadFrame
    /\ i # 1 => \/ wire[i] = Message(i - 1)
                \/ /\ hpc = "done" /\ ended /\ i = Len(wire)
                   /\ \E code \in Codes : wire[i] = Trailer(code)

\* A response that is full takes no more, and the message on its way is the next.
Room ==
  /\ BoundedBuffer
  /\ conn = "open" /\ epc # "draining" => buffered < HighWater
  /\ conn = "open" /\ epc = "encoding" => payload = Len(wire)

ExchangeInv ==
  ExchangeTypeOK /\ Before /\ During /\ After /\ AbortedLate /\ Shape /\ Room

-----------------------------------------------------------------------------
(* Frames *)

Frame == {HeadFrame} \cup ({"message"} \X Nat) \cup ({"trailer"} \X Codes)

\* The kinds of frames are told apart by their first component.
LEMMA FrameKinds ==
  /\ HeadFrame[1] = "head"
  /\ \A n : Message(n)[1] = "message"
  /\ \A code : Trailer(code)[1] = "trailer"
  BY DEF HeadFrame, Message, Trailer

LEMMA FramesTyped ==
  /\ HeadFrame \in Frame
  /\ \A n \in Nat : Message(n) \in Frame
  /\ \A code \in Codes : Trailer(code) \in Frame
  BY DEF Frame, HeadFrame, Message, Trailer

\* One more frame at the end of the response.
LEMMA Appended ==
  ASSUME NEW S, NEW s \in Seq(S), NEW x \in S
  PROVE  /\ Append(s, x) \in Seq(S)
         /\ Append(s, x) # <<>>
         /\ Len(Append(s, x)) = Len(s) + 1
         /\ DOMAIN Append(s, x) = 1..Len(s) + 1
         /\ \A i \in DOMAIN s : Append(s, x)[i] = s[i]
         /\ Append(s, x)[Len(s) + 1] = x
  OBVIOUS

LEMMA FirstFrame ==
  /\ <<>> \in Seq(Frame) /\ DOMAIN <<>> = {}
  /\ <<HeadFrame>> \in Seq(Frame) /\ DOMAIN <<HeadFrame>> = {1} /\ <<HeadFrame>>[1] = HeadFrame
<1>1. \A S, x : x \in S => <<x>> \in Seq(S)
  OBVIOUS
<1> QED
  BY <1>1, FramesTyped

\* Two frames are all of a sequence of two.
LEMMA TwoLong ==
  ASSUME NEW S, NEW s \in Seq(S), NEW t \in Seq(S), Len(s) = 2, Len(t) = 2, s[1] = t[1], s[2] = t[2]
  PROVE  s = t
  OBVIOUS

\* A trailer right after the head.
LEMMA HeadThen == \A code : Append(<<HeadFrame>>, Trailer(code)) = <<HeadFrame, Trailer(code)>>
<1>1. ASSUME NEW x, NEW y PROVE Append(<<x>>, y) = <<x, y>>
  <2> DEFINE S == {x, y}
  <2>1. /\ Append(<<x>>, y) \in Seq(S) /\ Len(Append(<<x>>, y)) = 2
        /\ Append(<<x>>, y)[1] = x /\ Append(<<x>>, y)[2] = y
    OBVIOUS
  <2>2. <<x, y>> \in Seq(S) /\ Len(<<x, y>>) = 2 /\ <<x, y>>[1] = x /\ <<x, y>>[2] = y
    OBVIOUS
  <2> QED
    BY <2>1, <2>2, TwoLong
<1> QED
  BY <1>1

LEMMA WireTyped == ExchangeTypeOK => wire \in Seq(Frame) /\ DOMAIN wire = 1..Len(wire) /\ Len(wire) \in Nat
<1> SUFFICES ASSUME ExchangeTypeOK PROVE wire \in Seq(Frame)
  OBVIOUS
<1> QED
  BY DEF ExchangeTypeOK, Frame

-----------------------------------------------------------------------------
(* The steps *)

LEMMA ExchangeInitially == InitExchange => ExchangeInv
<1> SUFFICES ASSUME InitExchange PROVE ExchangeInv
  OBVIOUS
<1>1. wire \in Seq(Frame) /\ DOMAIN wire = {}
  BY FirstFrame DEF InitExchange
<1>2. ExchangeTypeOK
  BY <1>1 DEF InitExchange, ExchangeTypeOK, Frame
<1> QED
  BY <1>1, <1>2, HighWaterAssumption
     DEF InitExchange, ExchangeInv, Before, During, After, AbortedLate, Shape, Room, BoundedBuffer

LEMMA ExchangeUnchanged == ExchangeInv /\ UNCHANGED exchange => ExchangeInv'
  BY DEF exchange, ExchangeInv, ExchangeTypeOK, Before, During, After, AbortedLate, Shape, Room,
         BoundedBuffer

\* The browser's steps write nothing.
LEMMA BrowserStep == ExchangeInv /\ (CloseConnection \/ Transmit) => ExchangeInv'
<1> SUFFICES ASSUME ExchangeInv, CloseConnection \/ Transmit PROVE ExchangeInv'
  OBVIOUS
<1> USE DEF ExchangeInv
<1>1. UNCHANGED <<hpc, listening, callEnded, headSent, ended, wire, epc, payload>>
  BY DEF CloseConnection, Transmit
<1>2. ExchangeTypeOK'
  BY <1>1 DEF CloseConnection, Transmit, Cancels, ExchangeTypeOK
<1>3. Before' /\ During' /\ After' /\ AbortedLate'
  BY <1>1 DEF CloseConnection, Transmit, Cancels, Before, During, After, AbortedLate, ExchangeTypeOK
<1>4. Shape'
  BY <1>1 DEF Shape
<1>5. Room'
  BY <1>1, HighWaterAssumption DEF CloseConnection, Transmit, Room, BoundedBuffer, ExchangeTypeOK
<1> QED
  BY <1>2, <1>3, <1>4, <1>5

\* The handler's steps up to the dispatch.
LEMMA HandlerStep ==
  ExchangeInv /\ (Refuse \/ ReadBody \/ BadRequest \/ DispatchThrows \/ BeginDispatch)
    => ExchangeInv'
<1> SUFFICES ASSUME ExchangeInv,
                    Refuse \/ ReadBody \/ BadRequest \/ DispatchThrows \/ BeginDispatch
             PROVE  ExchangeInv'
  OBVIOUS
<1> USE DEF ExchangeInv
<1>1. /\ hpc \in {"start", "decoding"} /\ wire = <<>> /\ buffered = 0 /\ epc = "idle"
      /\ ~headSent /\ ~ended /\ ~aborted
  BY DEF Refuse, ReadBody, BadRequest, DispatchThrows, BeginDispatch, Before
<1>2. wire' = <<>> \/ wire' = <<HeadFrame>>
  BY <1>1 DEF Refuse, ReadBody, BadRequest, DispatchThrows, BeginDispatch, Fail
<1>3. wire' \in Seq(Frame) /\ \A i \in DOMAIN wire' : i = 1 /\ wire'[i] = HeadFrame
  BY <1>2, FirstFrame
<1>4. ExchangeTypeOK'
  BY <1>1, <1>3 DEF Refuse, ReadBody, BadRequest, DispatchThrows, BeginDispatch, Fail, ExchangeTypeOK, Frame
<1>5. Before' /\ During' /\ After' /\ AbortedLate'
  BY <1>1 DEF Refuse, ReadBody, BadRequest, DispatchThrows, BeginDispatch, Fail, Gone,
              Before, During, After, AbortedLate, ExchangeTypeOK
<1>6. Shape'
  BY <1>3 DEF Shape
<1>7. Room'
  BY <1>1, HighWaterAssumption
     DEF Refuse, ReadBody, BadRequest, DispatchThrows, BeginDispatch, Fail, Room, BoundedBuffer
<1> QED
  BY <1>4, <1>5, <1>6, <1>7
\* emit: the message on its way is the next one of the response.
LEMMA EmitStep ==
  ASSUME ExchangeInv, EmitWrite \/ EmitBlocks \/ EmitDrained \/ EmitRejected
  PROVE  ExchangeInv'
<1> USE DEF ExchangeInv
<1>1. /\ hpc = "dispatching" /\ epc # "idle"
      /\ UNCHANGED <<hpc, conn, listening, callEnded, aborted, headSent, ended>>
  BY DEF EmitWrite, EmitBlocks, EmitDrained, EmitRejected, During
<1>2. \/ UNCHANGED <<wire, buffered>>
      \/ /\ conn = "open" /\ epc = "encoding"
         /\ wire' = Append(wire, Message(payload)) /\ buffered' = buffered + 1
  BY <1>1 DEF EmitWrite, EmitBlocks, EmitDrained, EmitRejected, Written, Gone, ExchangeTypeOK
<1>3. wire \in Seq(Frame) /\ DOMAIN wire = 1..Len(wire) /\ Len(wire) \in Nat
  BY WireTyped
<1>4. wire' = Append(wire, Message(payload)) =>
        /\ wire' \in Seq(Frame) /\ wire' # <<>> /\ Len(wire') = Len(wire) + 1
        /\ DOMAIN wire' = 1..Len(wire) + 1
        /\ \A i \in DOMAIN wire : wire'[i] = wire[i]
        /\ wire'[Len(wire) + 1] = Message(payload)
  BY <1>3, FramesTyped, Appended DEF ExchangeTypeOK
<1>5. ExchangeTypeOK'
  <2>1. wire' \in Seq(Frame)
    BY <1>2, <1>3, <1>4
  <2>2. buffered' \in Nat
    BY <1>2 DEF ExchangeTypeOK
  <2>3. payload' \in Nat /\ epc' \in {"idle", "draining"}
    BY DEF EmitWrite, EmitBlocks, EmitDrained, EmitRejected, EmitEnds, ExchangeTypeOK
  <2> QED
    BY <1>1, <2>1, <2>2, <2>3 DEF ExchangeTypeOK, Frame
<1>6. Before' /\ During' /\ After' /\ AbortedLate'
  BY <1>1, <1>2, <1>4 DEF Before, During, After, AbortedLate
<1>7. Shape'
  <2>1. CASE UNCHANGED wire
    BY <1>1, <2>1 DEF Shape
  <2>2. CASE conn = "open" /\ epc = "encoding" /\ wire' = Append(wire, Message(payload))
    <3>1. payload = Len(wire) /\ Len(wire) # 0
      BY <1>1, <1>3, <2>2 DEF Room, During
    <3>2. \A i \in DOMAIN wire' : i \in DOMAIN wire \/ i = Len(wire) + 1
      BY <1>3, <1>4, <2>2
    <3> QED
      BY <1>1, <1>3, <1>4, <2>2, <3>1, <3>2 DEF Shape
  <2> QED
    BY <1>2, <2>1, <2>2
<1>8. Room'
  <2>1. epc' # "encoding"
    BY DEF EmitWrite, EmitBlocks, EmitDrained, EmitRejected, EmitEnds
  <2>2. BoundedBuffer'
    BY <1>2, HighWaterAssumption DEF Room, BoundedBuffer, ExchangeTypeOK
  <2>3. conn = "open" /\ epc' # "draining" => buffered' < HighWater
    BY <1>1, HighWaterAssumption
       DEF EmitWrite, EmitBlocks, EmitDrained, EmitRejected, Written, WriteFits, Gone, Room,
           AbortedLate, ExchangeTypeOK
  <2> QED
    BY <1>1, <2>1, <2>2, <2>3 DEF Room
<1> QED
  BY <1>5, <1>6, <1>7, <1>8

LEMMA EmitStartStep ==
  ASSUME ExchangeInv, hpc = "dispatching", NEW n \in Nat, EmitStart(n),
         conn = "open" => n = Len(wire), epc = "idle"
  PROVE  ExchangeInv'
  BY DEF EmitStart, ExchangeInv, ExchangeTypeOK, Before, During, After, AbortedLate, Shape, Room,
         BoundedBuffer

\* The end of the dispatch.
LEMMA DispatchEndStep ==
  ASSUME ExchangeInv, epc = "idle", DispatchResolved \/ (DispatchRejected /\ aborted)
  PROVE  ExchangeInv'
<1> USE DEF ExchangeInv
<1>1. /\ hpc = "dispatching" /\ hpc' \in {"done", "trailer"} /\ listening' = FALSE /\ callEnded' = TRUE
      /\ UNCHANGED <<conn, aborted, headSent, ended, wire, buffered, epc, payload>>
  BY DEF DispatchResolved, DispatchRejected, Detach, Fail, Gone, AbortedLate
<1> QED
  BY <1>1 DEF ExchangeTypeOK, Before, During, After, AbortedLate, Shape, Room, BoundedBuffer

\* The last frame.
LEMMA EndStep ==
  ASSUME ExchangeInv, NEW code \in Codes, EndResponse(code)
  PROVE  ExchangeInv'
<1> USE DEF ExchangeInv
<1>1. /\ hpc \in {"trailer", "failing"} /\ hpc' = "done" /\ ended' = TRUE /\ headSent' = TRUE
      /\ UNCHANGED <<conn, listening, callEnded, aborted, buffered, epc, payload>>
  BY DEF EndResponse
<1>2. wire \in Seq(Frame) /\ DOMAIN wire = 1..Len(wire) /\ Len(wire) \in Nat
  BY WireTyped
<1>3. \/ wire' = wire
      \/ wire # <<>> /\ wire' = Append(wire, Trailer(code))
      \/ wire' = <<HeadFrame, Trailer(code)>>
  BY <1>1, FirstFrame DEF EndResponse, After, ExchangeTypeOK
<1>4. wire' \in Seq(Frame)
  <2>1. HeadFrame \in Frame /\ Trailer(code) \in Frame
    BY FramesTyped
  <2>2. \A S, x, y : x \in S /\ y \in S => <<x, y>> \in Seq(S)
    OBVIOUS
  <2>3. <<HeadFrame, Trailer(code)>> \in Seq(Frame)
    BY <2>1, <2>2
  <2>4. Append(wire, Trailer(code)) \in Seq(Frame)
    BY <1>2, <2>1
  <2> QED
    BY <1>2, <1>3, <2>3, <2>4
<1>5. ExchangeTypeOK'
  BY <1>1, <1>4 DEF ExchangeTypeOK, Frame
<1>6. Before' /\ During' /\ After' /\ AbortedLate'
  BY <1>1 DEF Before, During, After, AbortedLate
<1>7. Shape'
  <2>1. CASE wire' = wire
    BY <1>1, <2>1 DEF Shape
  <2>2. CASE wire # <<>> /\ wire' = Append(wire, Trailer(code))
    <3>1. /\ DOMAIN wire' = 1..Len(wire) + 1 /\ Len(wire') = Len(wire) + 1
          /\ \A i \in DOMAIN wire : wire'[i] = wire[i]
          /\ wire'[Len(wire) + 1] = Trailer(code)
      BY <1>2, <2>2, FramesTyped, Appended
    <3>2. \A i \in DOMAIN wire' : i \in DOMAIN wire \/ i = Len(wire) + 1
      BY <1>2, <3>1
    <3>3. Len(wire) # 0
      BY <1>2, <2>2
    <3> QED
      BY <1>1, <1>2, <3>1, <3>2, <3>3 DEF Shape
  <2>3. CASE wire' = <<HeadFrame, Trailer(code)>>
    <3>1. DOMAIN wire' = {1, 2} /\ wire'[1] = HeadFrame /\ wire'[2] = Trailer(code) /\ Len(wire') = 2
      BY <2>3
    <3> QED
      BY <1>1, <3>1 DEF Shape
  <2> QED
    BY <1>3, <2>1, <2>2, <2>3
<1>8. Room'
  BY <1>1, <1>6 DEF Room, BoundedBuffer, During
<1> QED
  BY <1>5, <1>6, <1>7, <1>8

-----------------------------------------------------------------------------
(* What follows *)

LEMMA GrammarFollows == ExchangeInv => WireGrammar
<1> SUFFICES ASSUME ExchangeInv, NEW i \in DOMAIN wire
             PROVE  /\ wire[i] = HeadFrame <=> i = 1
                    /\ i \in MessageAt => wire[i] = Message(i - 1)
                    /\ i \in TrailerAt => i = Len(wire) /\ ended
  BY DEF WireGrammar
<1>1. /\ i = 1 => wire[i] = HeadFrame
      /\ i # 1 => \/ wire[i] = Message(i - 1)
                  \/ /\ hpc = "done" /\ ended /\ i = Len(wire)
                     /\ \E code \in Codes : wire[i] = Trailer(code)
  BY DEF ExchangeInv, Shape
<1>2. CASE i = 1
  BY <1>1, <1>2, FrameKinds DEF MessageAt, TrailerAt
<1>3. CASE i # 1 /\ wire[i] = Message(i - 1)
  BY <1>3, FrameKinds DEF MessageAt, TrailerAt
<1>4. CASE i # 1 /\ wire[i] # Message(i - 1)
  BY <1>1, <1>4, FrameKinds DEF MessageAt, TrailerAt
<1> QED
  BY <1>2, <1>3, <1>4

\* Trailers come at the end of what is done.
LEMMA TrailersLast ==
  ExchangeInv => \A i \in TrailerAt : hpc = "done" /\ i = Len(wire) /\ i # 1
<1> SUFFICES ASSUME ExchangeInv, NEW i \in TrailerAt PROVE hpc = "done" /\ i = Len(wire) /\ i # 1
  OBVIOUS
<1> QED
  BY FrameKinds DEF ExchangeInv, Shape, TrailerAt
=============================================================================
