----------------------------- MODULE GatewayProofs ----------------------------
(* The forwarding gateway writes a well-formed body, respects a full response    *)
(* and ends it with the truth: for every size of the response's buffer and any   *)
(* number of messages.  The behaviours of MCGateways, each of the one gateway or *)
(* of the other, keep the invariant of their gateway.                            *)
EXTENDS MCGateways, ExchangeProofs

-----------------------------------------------------------------------------
(* The inductive invariant *)

\* The backend call lasts while the handler dispatches, and has a status after.
CallLasts ==
  /\ hpc \in {"start", "decoding", "failing"} => up = "none"
  /\ hpc = "dispatching" => up # "none"
  /\ hpc = "trailer" => up = "ended"
  /\ up = "active" => hpc = "dispatching"
  /\ up = "ended" => status \in Codes
  /\ up = "none" => dataEvents = 0 /\ MessageAt = {}

\* A unary call that has not answered has written nothing.
UnaryWaits ==
  up = "active" /\ ~streaming =>
    dataEvents = 0 /\ queue = <<>> /\ ~broken /\ epc = "idle"

\* Writes are chained only while the handler dispatches.
ChainHeld ==
  /\ hpc # "dispatching" => queue = <<>>
  /\ broken => aborted /\ queue = <<>>

\* Every message of the backend is written, being written, or in the chain.
BeingWritten == IF epc = "encoding" THEN 1 ELSE 0

NoneLost ==
  hpc = "dispatching" /\ conn = "open" =>
    /\ dataEvents = Len(wire) - 1 + BeingWritten + Len(queue)
    /\ \A i \in DOMAIN queue : queue[i] = dataEvents - Len(queue) + i

AllWritten == hpc = "trailer" /\ conn = "open" => Len(wire) = dataEvents + 1

ForwardInv ==
  /\ ExchangeInv /\ UpstreamTypeOK
  /\ CallLasts /\ UnaryWaits /\ ChainHeld
  /\ NoneLost /\ AllWritten /\ TruthfulTrailer

-----------------------------------------------------------------------------
(* Lemmas *)

\* A step that leaves the handler short of its end writes no trailer; one that
\* leaves the frames, the call and its status alone changes nothing in them.
LEMMA TruthStays ==
  ASSUME ExchangeInv', \/ hpc' # "done"
                       \/ TruthfulTrailer /\ UNCHANGED <<wire, status, dataEvents, up>>
  PROVE  TruthfulTrailer'
<1>1. CASE hpc' # "done"
  <2>1. TrailerAt' = {}
    BY <1>1, FrameKinds DEF ExchangeInv, Shape, TrailerAt
  <2> QED
    BY <2>1 DEF TruthfulTrailer
<1>2. CASE TruthfulTrailer /\ UNCHANGED <<wire, status, dataEvents, up>>
  BY <1>2 DEF TruthfulTrailer, TrailerAt, MessageAt
<1> QED
  BY <1>1, <1>2

LEMMA ForwardInitially == Init => ForwardInv
<1> SUFFICES ASSUME Init PROVE ForwardInv
  OBVIOUS
<1>1. ExchangeInv
  BY ExchangeInitially DEF Init
<1>2. wire = <<>> /\ hpc = "start" /\ DOMAIN wire = {} /\ queue \in Seq(Nat)
  BY DEF Init, InitExchange
<1> QED
  BY <1>1, <1>2
     DEF Init, ForwardInv, UpstreamTypeOK, CallLasts, UnaryWaits, ChainHeld, NoneLost, AllWritten,
         TruthfulTrailer, TrailerAt, MessageAt

-----------------------------------------------------------------------------
(* The steps *)

LEMMA CloseStep == ForwardInv /\ Close => ForwardInv'
<1> SUFFICES ASSUME ForwardInv, Close PROVE ForwardInv'
  OBVIOUS
<1> USE DEF ForwardInv
<1>1. ExchangeInv'
  BY BrowserStep DEF Close
<1>2. /\ UNCHANGED <<hpc, wire, streaming, up, dataEvents, queue, broken, status>>
      /\ conn' = "closed" /\ (aborted => aborted') /\ cancelled' \in BOOLEAN
  BY DEF Close, CloseConnection, UpstreamTypeOK, ExchangeInv, ExchangeTypeOK
<1>3. UpstreamTypeOK' /\ CallLasts' /\ UnaryWaits' /\ ChainHeld' /\ NoneLost' /\ AllWritten'
  <2>1. UpstreamTypeOK' /\ UnaryWaits' /\ ChainHeld' /\ NoneLost' /\ AllWritten'
    BY <1>2 DEF UpstreamTypeOK, UnaryWaits, ChainHeld, NoneLost, AllWritten, Close, CloseConnection
  <2>2. CallLasts'
    BY <1>2 DEF CallLasts, MessageAt
  <2> QED
    BY <2>1, <2>2
<1>4. TruthfulTrailer'
  BY <1>1, <1>2, TruthStays
<1> QED
  BY <1>1, <1>3, <1>4

\* A request that is not dispatched gets no message.
LEMMA HandleStep == ForwardInv /\ Handle => ForwardInv'
<1> SUFFICES ASSUME ForwardInv, Handle PROVE ForwardInv'
  OBVIOUS
<1> USE DEF ForwardInv
<1>1. ExchangeInv'
  BY BrowserStep, HandlerStep DEF Handle
<1>2. UNCHANGED <<streaming, up, cancelled, dataEvents, queue, broken, status>>
  BY DEF Handle, upstream
<1>3. CASE Transmit
  <2>1. UNCHANGED <<hpc, wire, conn, epc, aborted>>
    BY <1>3 DEF Transmit
  <2>2. TruthfulTrailer'
    BY <1>1, <1>2, <2>1, TruthStays
  <2> QED
    BY <1>1, <1>2, <2>1, <2>2
       DEF UpstreamTypeOK, CallLasts, UnaryWaits, ChainHeld, NoneLost, BeingWritten, AllWritten, MessageAt
<1>4. CASE Refuse \/ ReadBody \/ BadRequest \/ DispatchThrows
  <2>1. /\ hpc \in {"start", "decoding"} /\ hpc' \in {"decoding", "failing", "done"}
        /\ wire = <<>> /\ ~aborted
    BY <1>4 DEF Refuse, ReadBody, BadRequest, DispatchThrows, Fail, ExchangeInv, Before
  <2>2. up = "none" /\ queue = <<>> /\ ~broken
    BY <2>1 DEF CallLasts, ChainHeld
  <2>3. wire' = <<>> \/ wire' = <<HeadFrame>>
    BY <1>4, <2>1 DEF Refuse, ReadBody, BadRequest, DispatchThrows, Fail
  <2>4. \A i \in DOMAIN wire' : wire'[i] = HeadFrame
    BY <2>3
  <2>5. MessageAt' = {} /\ TrailerAt' = {}
    BY <2>4, FrameKinds DEF MessageAt, TrailerAt
  <2> QED
    BY <1>1, <1>2, <2>1, <2>2, <2>5
       DEF UpstreamTypeOK, CallLasts, UnaryWaits, ChainHeld, NoneLost, AllWritten, TruthfulTrailer
<1> QED
  BY <1>3, <1>4 DEF Handle

LEMMA DispatchStep == ForwardInv /\ (MakeCall \/ NoRoute) => ForwardInv'
<1> SUFFICES ASSUME ForwardInv, MakeCall \/ NoRoute PROVE ForwardInv'
  OBVIOUS
<1> USE DEF ForwardInv
<1>1. ExchangeInv'
  BY HandlerStep DEF MakeCall, NoRoute
<1>2. /\ hpc = "decoding" /\ hpc' = "dispatching"
      /\ UNCHANGED <<streaming, cancelled, dataEvents, queue, broken, conn, epc, aborted>>
      /\ \/ up' = "active" /\ status' = status
         \/ up' = "ended" /\ status' = "UNIMPLEMENTED"
      /\ wire' = IF conn = "open" THEN <<HeadFrame>> ELSE <<>>
  BY DEF MakeCall, NoRoute, BeginDispatch
<1>3. up = "none" /\ queue = <<>> /\ dataEvents = 0 /\ ~broken /\ epc = "idle"
  BY <1>2 DEF CallLasts, ChainHeld, ExchangeInv, Before
<1>4. conn = "open" => Len(wire') = 1
  BY <1>2
<1>5. UpstreamTypeOK' /\ CallLasts' /\ UnaryWaits' /\ ChainHeld' /\ AllWritten'
  BY <1>2, <1>3 DEF UpstreamTypeOK, CallLasts, UnaryWaits, ChainHeld, AllWritten, Codes
<1>6. NoneLost'
  BY <1>2, <1>3, <1>4 DEF NoneLost, BeingWritten
<1>7. TruthfulTrailer'
  BY <1>1, <1>2, TruthStays
<1> QED
  BY <1>1, <1>5, <1>6, <1>7

LEMMA DataStep == ForwardInv /\ Data => ForwardInv'
<1> SUFFICES ASSUME ForwardInv, Data PROVE ForwardInv'
  OBVIOUS
<1> USE DEF ForwardInv
<1>1. /\ ExchangeInv' /\ hpc' = "dispatching" /\ hpc = "dispatching"
      /\ UNCHANGED <<wire, conn, epc, aborted, hpc>>
  BY ExchangeUnchanged DEF Data, CallLasts, exchange
<1>2. /\ up = "active" /\ streaming /\ dataEvents' = dataEvents + 1
      /\ UNCHANGED <<streaming, up, cancelled, broken, status>>
      /\ queue' = IF broken THEN queue ELSE Append(queue, dataEvents + 1)
  BY DEF Data
<1>3. queue \in Seq(Nat) /\ dataEvents \in Nat
  BY DEF UpstreamTypeOK
<1>4. /\ Append(queue, dataEvents + 1) \in Seq(Nat)
      /\ Len(Append(queue, dataEvents + 1)) = Len(queue) + 1
      /\ DOMAIN Append(queue, dataEvents + 1) = 1..Len(queue) + 1
      /\ \A i \in DOMAIN queue : Append(queue, dataEvents + 1)[i] = queue[i]
      /\ Append(queue, dataEvents + 1)[Len(queue) + 1] = dataEvents + 1
      /\ DOMAIN queue = 1..Len(queue) /\ Len(queue) \in Nat
  BY <1>3
<1>5. UpstreamTypeOK' /\ CallLasts' /\ UnaryWaits' /\ ChainHeld' /\ AllWritten'
  BY <1>1, <1>2, <1>3, <1>4 DEF UpstreamTypeOK, CallLasts, UnaryWaits, ChainHeld, AllWritten
<1>6. NoneLost'
  <2> SUFFICES ASSUME conn = "open" PROVE NoneLost'
    BY <1>1 DEF NoneLost
  <2>1. ~broken
    BY DEF ChainHeld, ExchangeInv, AbortedLate
  <2>2. Len(wire) \in Nat /\ BeingWritten \in Nat /\ BeingWritten' = BeingWritten /\ wire' = wire
    BY <1>1, WireTyped DEF ExchangeInv, BeingWritten
  <2>3. dataEvents' = Len(wire') - 1 + BeingWritten' + Len(queue')
    BY <1>1, <1>2, <1>3, <1>4, <2>1, <2>2 DEF NoneLost
  <2>4. \A i \in DOMAIN queue' : queue'[i] = dataEvents' - Len(queue') + i
    <3> TAKE i \in DOMAIN queue'
    <3>1. i \in DOMAIN queue \/ i = Len(queue) + 1
      BY <1>2, <1>4, <2>1
    <3> QED
      BY <1>1, <1>2, <1>3, <1>4, <2>1, <3>1 DEF NoneLost
  <2> QED
    BY <1>1, <2>3, <2>4 DEF NoneLost
<1>7. TruthfulTrailer'
  BY <1>1, TruthStays
<1> QED
  BY <1>1, <1>5, <1>6, <1>7

LEMMA CallEndStep ==
  ASSUME ForwardInv,
         \/ \E code \in BackendCodes \cup {"CANCELLED"} : StreamStatus(code) \/ UnaryError(code)
         \/ UnaryResponse
  PROVE  ForwardInv'
<1> USE DEF ForwardInv
<1>1. /\ ExchangeInv' /\ hpc = "dispatching"
      /\ UNCHANGED <<wire, conn, epc, aborted, hpc>>
  BY ExchangeUnchanged DEF StreamStatus, UnaryError, UnaryResponse, CallLasts, exchange
<1>2. /\ up = "active" /\ up' = "ended" /\ status' \in Codes
      /\ UNCHANGED <<streaming, cancelled, broken>>
      /\ \/ UNCHANGED <<dataEvents, queue>>
         \/ ~streaming /\ dataEvents' = 1 /\ queue' = <<1>>
  BY DEF StreamStatus, UnaryError, UnaryResponse, BackendCodes, Codes
<1>3. ~streaming => dataEvents = 0 /\ queue = <<>> /\ ~broken /\ epc = "idle"
  BY <1>2 DEF UnaryWaits
<1>4. <<1>> \in Seq(Nat) /\ Len(<<1>>) = 1 /\ DOMAIN <<1>> = {1} /\ <<1>>[1] = 1
  OBVIOUS
<1>5. UpstreamTypeOK'
  <2>1. dataEvents' \in Nat /\ queue' \in Seq(Nat)
    <3>1. CASE UNCHANGED <<dataEvents, queue>>
      BY <3>1 DEF UpstreamTypeOK
    <3>2. CASE dataEvents' = 1 /\ queue' = <<1>>
      BY <1>4, <3>2
    <3> QED
      BY <1>2, <3>1, <3>2
  <2>2. UNCHANGED <<streaming, cancelled, broken>>
    BY <1>2, Zenon
  <2>3. status' \in Codes \cup {"none"} /\ up' = "ended"
    BY <1>2
  <2> QED
    BY <2>1, <2>2, <2>3 DEF UpstreamTypeOK
<1>6. CallLasts' /\ UnaryWaits' /\ AllWritten'
  BY <1>1, <1>2 DEF CallLasts, UnaryWaits, AllWritten
<1>7. ChainHeld'
  BY <1>1, <1>2, <1>3 DEF ChainHeld
<1>8. NoneLost'
  <2>1. CASE UNCHANGED <<dataEvents, queue>>
    BY <1>1, <2>1 DEF NoneLost, BeingWritten
  <2>2. CASE ~streaming /\ dataEvents' = 1 /\ queue' = <<1>> /\ conn = "open"
    <3>1. Len(wire) \in Nat
      BY WireTyped DEF ExchangeInv
    <3>2. 0 = Len(wire) - 1 + 0 + Len(<<>>)
      BY <1>1, <1>3, <2>2 DEF NoneLost, BeingWritten
    <3>3. Len(wire') = 1 /\ BeingWritten' = 0
      BY <1>1, <1>3, <2>2, <3>1, <3>2 DEF BeingWritten
    <3> QED
      BY <1>1, <1>4, <2>2, <3>3 DEF NoneLost
  <2> QED
    BY <1>1, <1>2, <2>1, <2>2 DEF NoneLost
<1>9. TruthfulTrailer'
  BY <1>1, TruthStays
<1> QED
  BY <1>1, <1>5, <1>6, <1>7, <1>8, <1>9

LEMMA WriteNextStep == ForwardInv /\ WriteNext => ForwardInv'
<1> SUFFICES ASSUME ForwardInv, WriteNext PROVE ForwardInv'
  OBVIOUS
<1> USE DEF ForwardInv
<1>1. /\ queue # <<>> /\ epc = "idle" /\ ~broken /\ hpc = "dispatching"
      /\ queue' = Tail(queue)
      /\ UNCHANGED <<streaming, up, cancelled, dataEvents, broken, status, hpc, wire, conn, aborted>>
      /\ EmitDropped => UNCHANGED exchange
      /\ ~EmitDropped => EmitStart(Head(queue))
  BY DEF WriteNext, NextWrite, ChainHeld, EmitStart, exchange
<1>2. /\ queue \in Seq(Nat) /\ Tail(queue) \in Seq(Nat)
      /\ Len(queue) \in Nat \ {0} /\ Len(Tail(queue)) = Len(queue) - 1
      /\ DOMAIN Tail(queue) = 1..Len(queue) - 1 /\ DOMAIN queue = 1..Len(queue)
      /\ \A i \in 1..Len(queue) - 1 : Tail(queue)[i] = queue[i + 1]
      /\ Head(queue) \in Nat /\ Head(queue) = queue[1]
  BY <1>1 DEF UpstreamTypeOK
<1>3. Len(wire) \in Nat /\ dataEvents \in Nat
  BY WireTyped DEF ExchangeInv, UpstreamTypeOK
<1>4. conn = "open" =>
        /\ ~EmitDropped
        /\ dataEvents = Len(wire) - 1 + Len(queue) /\ Head(queue) = Len(wire)
  <2> SUFFICES ASSUME conn = "open"
               PROVE  /\ ~EmitDropped
                      /\ dataEvents = Len(wire) - 1 + Len(queue) /\ Head(queue) = Len(wire)
    OBVIOUS
  <2>1. ~EmitDropped
    BY <1>1 DEF EmitDropped, Gone, ExchangeInv, AbortedLate, During
  <2>2. dataEvents = Len(wire) - 1 + 0 + Len(queue) /\ queue[1] = dataEvents - Len(queue) + 1
    BY <1>1, <1>2 DEF NoneLost, BeingWritten
  <2> QED
    BY <1>2, <1>3, <2>1, <2>2
<1>5. ExchangeInv'
  BY <1>1, <1>2, <1>4, ExchangeUnchanged, EmitStartStep
<1>6. UpstreamTypeOK' /\ CallLasts' /\ UnaryWaits' /\ ChainHeld' /\ AllWritten'
  BY <1>1, <1>2 DEF UpstreamTypeOK, CallLasts, UnaryWaits, ChainHeld, AllWritten, MessageAt
<1>7. NoneLost'
  <2> SUFFICES ASSUME conn = "open" PROVE NoneLost'
    BY <1>1 DEF NoneLost
  <2>1. epc' = "encoding"
    BY <1>1, <1>4 DEF EmitStart
  <2>2. dataEvents' = Len(wire') - 1 + BeingWritten' + Len(queue')
    BY <1>1, <1>2, <1>3, <1>4, <2>1 DEF BeingWritten
  <2>3. \A i \in DOMAIN queue' : queue'[i] = dataEvents' - Len(queue') + i
    <3> TAKE i \in DOMAIN queue'
    <3>1. i \in 1..Len(queue) - 1 /\ i + 1 \in DOMAIN queue /\ queue'[i] = queue[i + 1]
      BY <1>1, <1>2
    <3>2. queue[i + 1] = dataEvents - Len(queue) + (i + 1)
      BY <1>1, <3>1 DEF NoneLost
    <3> QED
      BY <1>1, <1>2, <1>3, <3>1, <3>2
  <2> QED
    BY <2>2, <2>3 DEF NoneLost
<1>8. TruthfulTrailer'
  BY <1>1, <1>5, TruthStays
<1> QED
  BY <1>5, <1>6, <1>7, <1>8

\* An emit that resolves has written its message, or nobody is there to read it.
LEMMA EmitGoesOn == ForwardInv /\ Emit => ForwardInv'
<1> SUFFICES ASSUME ForwardInv, Emit PROVE ForwardInv'
  OBVIOUS
<1> USE DEF ForwardInv
<1>1. ExchangeInv'
  BY EmitStep DEF Emit
<1>2. /\ hpc = "dispatching"
      /\ UNCHANGED <<streaming, up, cancelled, dataEvents, queue, broken, status, hpc, conn, aborted>>
  BY DEF Emit, upstream, EmitWrite, EmitBlocks, EmitDrained, ExchangeInv, During
<1>3. /\ wire \in Seq(Frame) /\ Len(wire) \in Nat
      /\ Len(Append(wire, Message(payload))) = Len(wire) + 1
  BY WireTyped, FramesTyped, Appended DEF ExchangeInv, ExchangeTypeOK
<1>4. conn = "open" => Len(wire') + BeingWritten' = Len(wire) + BeingWritten
  <2> SUFFICES ASSUME conn = "open" PROVE Len(wire') + BeingWritten' = Len(wire) + BeingWritten
    OBVIOUS
  <2>1. ~Gone
    BY <1>2 DEF Gone, ExchangeInv, During
  <2>2. CASE EmitDrained
    <3>1. epc = "draining" /\ epc' = "idle" /\ wire' = wire
      BY <2>2 DEF EmitDrained, EmitEnds
    <3> QED
      BY <3>1 DEF BeingWritten
  <2>3. CASE EmitWrite \/ EmitBlocks
    <3>1. epc = "encoding" /\ epc' \in {"idle", "draining"} /\ wire' = Append(wire, Message(payload))
      BY <2>1, <2>3 DEF EmitWrite, EmitBlocks, EmitEnds, Written
    <3>2. BeingWritten = 1 /\ BeingWritten' = 0
      BY <3>1 DEF BeingWritten
    <3> QED
      BY <1>3, <3>1, <3>2
  <2> QED
    BY <2>2, <2>3 DEF Emit
<1>5. up # "none" /\ ~(up = "active" /\ ~streaming)
  BY <1>2 DEF CallLasts, UnaryWaits, Emit, EmitWrite, EmitBlocks, EmitDrained
<1>6. UpstreamTypeOK' /\ CallLasts' /\ UnaryWaits' /\ ChainHeld' /\ AllWritten'
  BY <1>2, <1>5 DEF UpstreamTypeOK, CallLasts, UnaryWaits, ChainHeld, AllWritten
<1>7. NoneLost'
  <2> SUFFICES ASSUME conn = "open" PROVE NoneLost'
    BY <1>2 DEF NoneLost
  <2>1. /\ Len(wire') \in Nat /\ BeingWritten \in Nat /\ BeingWritten' \in Nat
        /\ queue \in Seq(Nat) /\ Len(queue) \in Nat
    <3>1. wire' \in Seq(Frame)
      BY <1>1 DEF ExchangeInv, ExchangeTypeOK, Frame
    <3> QED
      BY <3>1 DEF BeingWritten, UpstreamTypeOK
  <2>2. dataEvents = Len(wire) - 1 + BeingWritten + Len(queue)
    BY <1>2 DEF NoneLost
  <2>3. dataEvents = Len(wire') - 1 + BeingWritten' + Len(queue)
    <3>1. \A a, b, c, d, n \in Nat : a + b = c + d => a - 1 + b + n = c - 1 + d + n
      OBVIOUS
    <3>2. Len(wire') - 1 + BeingWritten' + Len(queue) = Len(wire) - 1 + BeingWritten + Len(queue)
      BY <1>3, <1>4, <2>1, <3>1
    <3> QED
      BY <2>2, <3>2
  <2> QED
    BY <1>2, <2>3 DEF NoneLost
<1>8. TruthfulTrailer'
  BY <1>1, <1>2, TruthStays
<1> QED
  BY <1>1, <1>6, <1>7, <1>8

LEMMA WriteFailsStep == ForwardInv /\ WriteFails => ForwardInv'
<1> SUFFICES ASSUME ForwardInv, WriteFails PROVE ForwardInv'
  OBVIOUS
<1> USE DEF ForwardInv
<1>1. ExchangeInv'
  BY EmitStep DEF WriteFails
<1>2. /\ hpc = "dispatching" /\ aborted /\ conn = "closed" /\ queue' = <<>> /\ broken'
      /\ UNCHANGED <<streaming, up, cancelled, dataEvents, status, hpc, conn, aborted>>
  BY DEF WriteFails, EmitRejected, ExchangeInv, During, AbortedLate
<1>3. up # "none" /\ (up = "active" => streaming)
  BY <1>2 DEF CallLasts, UnaryWaits, WriteFails, EmitRejected
<1>4. UpstreamTypeOK' /\ CallLasts' /\ UnaryWaits' /\ ChainHeld' /\ AllWritten' /\ NoneLost'
  BY <1>2, <1>3 DEF UpstreamTypeOK, CallLasts, UnaryWaits, ChainHeld, AllWritten, NoneLost
<1>5. TruthfulTrailer'
  BY <1>1, <1>2, TruthStays
<1> QED
  BY <1>1, <1>4, <1>5

\* A chain that breaks has been cut by the signal, so nobody gets a trailer.
LEMMA CompleteStep == ForwardInv /\ Complete => ForwardInv'
<1> SUFFICES ASSUME ForwardInv, Complete PROVE ForwardInv'
  OBVIOUS
<1> USE DEF ForwardInv
<1>1. broken => aborted
  BY DEF ChainHeld
<1>2. up = "ended" /\ queue = <<>> /\ epc = "idle" /\ (DispatchResolved \/ (DispatchRejected /\ aborted))
  BY <1>1 DEF Complete, Settles
<1>3. ExchangeInv'
  BY <1>2, DispatchEndStep
<1>4. /\ hpc = "dispatching" /\ hpc' \in {"done", "trailer"}
      /\ UNCHANGED <<conn, aborted, wire, epc, streaming, up, cancelled, dataEvents, queue, broken, status>>
  BY <1>2 DEF Complete, upstream, DispatchResolved, DispatchRejected, Detach, Fail, Gone,
              ExchangeInv, AbortedLate
<1>5. UpstreamTypeOK' /\ CallLasts' /\ UnaryWaits' /\ ChainHeld' /\ NoneLost'
  BY <1>2, <1>4 DEF UpstreamTypeOK, CallLasts, UnaryWaits, ChainHeld, NoneLost
<1>6. AllWritten'
  <2> SUFFICES ASSUME conn = "open" PROVE Len(wire) = dataEvents + 1
    BY <1>4 DEF AllWritten
  <2>1. Len(wire) \in Nat /\ Len(<<>>) = 0
    BY WireTyped DEF ExchangeInv
  <2>2. dataEvents = Len(wire) - 1 + 0 + Len(<<>>)
    BY <1>2, <1>4 DEF NoneLost, BeingWritten
  <2> QED
    BY <2>1, <2>2 DEF UpstreamTypeOK
<1>7. TruthfulTrailer'
  <2>1. TrailerAt = {}
    BY <1>4, TrailersLast
  <2> QED
    BY <1>4, <2>1 DEF TruthfulTrailer, TrailerAt
<1> QED
  BY <1>3, <1>5, <1>6, <1>7

LEMMA LastFrameStep == ForwardInv /\ End => ForwardInv'
<1> SUFFICES ASSUME ForwardInv, End PROVE ForwardInv'
  OBVIOUS
<1> DEFINE code == IF hpc = "failing" THEN "INTERNAL" ELSE status
<1> USE DEF ForwardInv
<1>1. /\ EndResponse(code) /\ hpc \in {"trailer", "failing"} /\ hpc' = "done"
      /\ UNCHANGED <<conn, aborted, epc, streaming, up, cancelled, dataEvents, queue, broken, status>>
  BY DEF End, EndResponse, upstream
<1>2. code \in Codes /\ up # "active"
  BY <1>1 DEF CallLasts, Codes
<1>3. ExchangeInv'
  <2> HIDE DEF code
  <2> QED
    BY <1>1, <1>2, EndStep
<1>4. UpstreamTypeOK' /\ UnaryWaits' /\ ChainHeld' /\ NoneLost' /\ AllWritten'
  BY <1>1, <1>2 DEF UpstreamTypeOK, UnaryWaits, ChainHeld, NoneLost, AllWritten
<1>5. wire \in Seq(Frame) /\ DOMAIN wire = 1..Len(wire) /\ Len(wire) \in Nat
  BY WireTyped DEF ExchangeInv
<1>6. TrailerAt = {}
  BY <1>1, TrailersLast
<1>7. CASE wire' = wire
  <2>1. TrailerAt' = {} /\ MessageAt' = MessageAt
    BY <1>6, <1>7 DEF TrailerAt, MessageAt
  <2> QED
    BY <1>1, <1>2, <1>3, <1>4, <2>1 DEF CallLasts, TruthfulTrailer
<1>8. CASE wire' # wire /\ hpc = "trailer"
  <2>1. conn = "open" /\ wire' = Append(wire, Trailer(status)) /\ up = "ended" /\ status \in Codes
    BY <1>1, <1>8 DEF EndResponse, ExchangeInv, After, ExchangeTypeOK, CallLasts
  <2>2. Len(wire') = Len(wire) + 1 /\ wire'[Len(wire) + 1] = Trailer(status)
    BY <1>5, <2>1, FramesTyped, Appended
  <2>3. Len(wire') = dataEvents + 2
    BY <1>5, <1>8, <2>1, <2>2 DEF AllWritten, UpstreamTypeOK
  <2>4. \A i \in TrailerAt' : i = Len(wire')
    BY <1>3, FrameKinds DEF ExchangeInv, Shape, TrailerAt
  <2>5. TruthfulTrailer'
    BY <1>1, <2>2, <2>3, <2>4 DEF TruthfulTrailer
  <2> QED
    BY <1>1, <1>3, <1>4, <2>1, <2>5 DEF CallLasts
<1>9. CASE wire' # wire /\ hpc = "failing"
  <2>1. wire' = <<HeadFrame, Trailer("INTERNAL")>> /\ up = "none"
    BY <1>1, <1>9, HeadThen DEF EndResponse, ExchangeInv, After, ExchangeTypeOK, CallLasts
  <2>2. /\ DOMAIN wire' = {1, 2} /\ wire'[1] = HeadFrame /\ wire'[2] = Trailer("INTERNAL")
        /\ Len(wire') = 2
    BY <2>1
  <2>3. MessageAt' = {} /\ \A i \in TrailerAt' : i = 2
    BY <2>2, FrameKinds DEF MessageAt, TrailerAt
  <2>4. CallLasts' /\ TruthfulTrailer'
    BY <1>1, <1>2, <2>1, <2>2, <2>3 DEF CallLasts, TruthfulTrailer
  <2> QED
    BY <1>3, <1>4, <2>4
<1> QED
  BY <1>1, <1>7, <1>8, <1>9

LEMMA ForwardStep == ForwardInv /\ [Next]_vars => ForwardInv'
<1> SUFFICES ASSUME ForwardInv, [Next]_vars PROVE ForwardInv'
  OBVIOUS
<1>1. CASE Close \/ Handle \/ MakeCall \/ NoRoute
  BY <1>1, CloseStep, HandleStep, DispatchStep
<1>2. CASE Data
  BY <1>2, DataStep
<1>3. CASE CallEnds \/ CallCancelled
  BY <1>3, CallEndStep DEF CallEnds, CallCancelled, BackendCodes
<1>4. CASE WriteNext \/ Emit \/ WriteFails
  BY <1>4, WriteNextStep, EmitGoesOn, WriteFailsStep
<1>5. CASE Complete \/ End
  BY <1>5, CompleteStep, LastFrameStep
<1>6. CASE UNCHANGED vars
  <2>1. UNCHANGED exchange /\ UNCHANGED upstream
    BY <1>6 DEF vars
  <2>2. ExchangeInv'
    BY <2>1, ExchangeUnchanged DEF ForwardInv
  <2> QED
    BY <2>1, <2>2
       DEF exchange, upstream, ForwardInv, UpstreamTypeOK, CallLasts, UnaryWaits, ChainHeld,
           NoneLost, BeingWritten, AllWritten, TruthfulTrailer, TrailerAt, MessageAt
<1> QED
  BY <1>1, <1>2, <1>3, <1>4, <1>5, <1>6 DEF Next, Gateway

-----------------------------------------------------------------------------
(* The theorems *)

LEMMA ForwardInvariance == Spec => []ForwardInv
<1>1. Init => ForwardInv
  BY ForwardInitially
<1>2. ForwardInv /\ [Next]_vars => ForwardInv'
  BY ForwardStep
<1> QED
  BY <1>1, <1>2, PTL DEF Spec

\* The state of the handler and of the call keeps its types.
THEOREM ForwardTypes == Spec => []TypeOK
<1>1. ForwardInv => TypeOK
  BY DEF ForwardInv, ExchangeInv, TypeOK
<1> QED
  BY <1>1, ForwardInvariance, PTL

\* What forward.ts and the handler write is one head, the messages of the
\* backend in their order and at the end one trailer.
THEOREM BodyWellFormed == Spec => []WireGrammar
<1>1. ForwardInv => WireGrammar
  BY GrammarFollows DEF ForwardInv
<1> QED
  BY <1>1, ForwardInvariance, PTL

\* emit waits for `drain', so the response never buffers past its high water.
THEOREM BackPressure == Spec => []BoundedBuffer
<1>1. ForwardInv => BoundedBuffer
  BY DEF ForwardInv, ExchangeInv, Room
<1> QED
  BY <1>1, ForwardInvariance, PTL

\* The trailer carries the backend's status, after every message of the call.
THEOREM TrailerIsTrue == Spec => []TruthfulTrailer
<1>1. ForwardInv => TruthfulTrailer
  BY DEF ForwardInv
<1> QED
  BY <1>1, ForwardInvariance, PTL

-----------------------------------------------------------------------------
(* Either gateway *)

DirectProofs == INSTANCE DirectGatewayProofs

GatewaysInv ==
  /\ gateway = "forward" => ForwardInv
  /\ gateway = "direct" => DirectProofs!DirectInv
  /\ gateway \in {"forward", "direct"}

LEMMA GatewaysInitially == InitGateways => GatewaysInv
<1> SUFFICES ASSUME InitGateways PROVE GatewaysInv
  OBVIOUS
<1>1. ForwardInv
  BY ForwardInitially DEF InitGateways
<1>2. DirectProofs!Init
  BY DEF InitGateways, Direct!Init, DirectProofs!Init, Direct!InitExchange, DirectProofs!InitExchange
<1>3. DirectProofs!DirectInv
  BY <1>2, DirectProofs!DirectInitially, HighWaterAssumption
<1> QED
  BY <1>1, <1>3 DEF GatewaysInv, InitGateways

\* DirectProofs speaks of the same steps as Direct.
LEMMA SameInvoked ==
  Direct!Close \/ Direct!Handle \/ Direct!Invoke \/ Direct!NoRoute \/ Direct!Procedure \/ Direct!Source
    => DirectProofs!Next
<1>1. CASE Direct!Close
  BY <1>1
     DEF DirectProofs!Next, Direct!Close, DirectProofs!Close, Direct!CloseConnection,
         DirectProofs!CloseConnection, Direct!Cancels, DirectProofs!Cancels,
         Direct!dispatcher, DirectProofs!dispatcher
<1>2. CASE Direct!Handle
  BY <1>2
     DEF DirectProofs!Next, Direct!Handle, DirectProofs!Handle, Direct!Transmit, DirectProofs!Transmit,
         Direct!Refuse, DirectProofs!Refuse, Direct!ReadBody, DirectProofs!ReadBody,
         Direct!BadRequest, DirectProofs!BadRequest, Direct!Fail, DirectProofs!Fail,
         Direct!DispatchThrows, DirectProofs!DispatchThrows,
         Direct!Gone, DirectProofs!Gone, Direct!HeadFrame, DirectProofs!HeadFrame,
         Direct!dispatcher, DirectProofs!dispatcher
<1>3. CASE Direct!Invoke \/ Direct!NoRoute
  BY <1>3
     DEF DirectProofs!Next, Direct!Invoke, DirectProofs!Invoke, Direct!NoRoute, DirectProofs!NoRoute,
         Direct!BeginDispatch, DirectProofs!BeginDispatch, Direct!HeadFrame,
         DirectProofs!HeadFrame
<1>4. CASE Direct!Procedure
  BY <1>4
     DEF DirectProofs!Next, Direct!Procedure, DirectProofs!Procedure, Direct!ReturnsValue,
         DirectProofs!ReturnsValue, Direct!Throws, DirectProofs!Throws,
         Direct!ReturnsStream, DirectProofs!ReturnsStream, Direct!exchange,
         DirectProofs!exchange
<1>5. CASE Direct!Source
  BY <1>5
     DEF DirectProofs!Next, Direct!Source, DirectProofs!Source, Direct!Item, DirectProofs!Item, Direct!Ends,
         DirectProofs!Ends, Direct!MayAct, DirectProofs!MayAct, Direct!Buffered,
         DirectProofs!Buffered, Direct!Notify, DirectProofs!Notify, Direct!exchange,
         DirectProofs!exchange
<1> QED
  BY <1>1, <1>2, <1>3, <1>4, <1>5

LEMMA SameDispatched == Direct!Dispatch => DirectProofs!Next
<1>1. CASE Direct!PullItem \/ Direct!PullThrows \/ Direct!PullAborted
  BY <1>1
     DEF DirectProofs!Next, DirectProofs!Dispatch, Direct!PullItem, DirectProofs!PullItem, Direct!PullThrows,
         DirectProofs!PullThrows, Direct!PullAborted, DirectProofs!PullAborted,
         Direct!EmitDropped, DirectProofs!EmitDropped, Direct!Gone, DirectProofs!Gone,
         Direct!EmitStart, DirectProofs!EmitStart, Direct!Leave, DirectProofs!Leave,
         Direct!Release, DirectProofs!Release, Direct!exchange, DirectProofs!exchange
<1>2. CASE Direct!PullWaits \/ Direct!Wake \/ Direct!PullEnds
  BY <1>2
     DEF DirectProofs!Next, DirectProofs!Dispatch, Direct!PullWaits, DirectProofs!PullWaits, Direct!Wake, DirectProofs!Wake,
         Direct!PullEnds, DirectProofs!PullEnds, Direct!Exhausted, DirectProofs!Exhausted,
         Direct!Outcome, DirectProofs!Outcome, Direct!Leave, DirectProofs!Leave,
         Direct!Release, DirectProofs!Release, Direct!exchange, DirectProofs!exchange
<1>3. CASE Direct!EmitWaits \/ Direct!EmitResolves \/ Direct!EmitFails
  BY <1>3
     DEF DirectProofs!Next, DirectProofs!Dispatch, Direct!EmitWaits, DirectProofs!EmitWaits, Direct!EmitResolves,
         DirectProofs!EmitResolves, Direct!EmitFails, DirectProofs!EmitFails,
         Direct!EmitWrite, DirectProofs!EmitWrite, Direct!EmitBlocks,
         DirectProofs!EmitBlocks, Direct!EmitDrained, DirectProofs!EmitDrained,
         Direct!EmitRejected, DirectProofs!EmitRejected, Direct!WriteFits,
         DirectProofs!WriteFits, Direct!Written, DirectProofs!Written, Direct!Gone,
         DirectProofs!Gone, Direct!EmitEnds, DirectProofs!EmitEnds, Direct!Message,
         DirectProofs!Message, Direct!Leave, DirectProofs!Leave, Direct!Release,
         DirectProofs!Release, Direct!dispatcher, DirectProofs!dispatcher
<1>4. CASE Direct!Complete \/ Direct!End
  BY <1>4
     DEF DirectProofs!Next, DirectProofs!Dispatch, Direct!Complete, DirectProofs!Complete, Direct!End, DirectProofs!End,
         Direct!DispatchResolved, DirectProofs!DispatchResolved, Direct!Detach,
         DirectProofs!Detach, Direct!Gone, DirectProofs!Gone, Direct!EndResponse,
         DirectProofs!EndResponse, Direct!HeadFrame, DirectProofs!HeadFrame,
         Direct!Trailer, DirectProofs!Trailer, Direct!dispatcher, DirectProofs!dispatcher
<1> QED
  BY <1>1, <1>2, <1>3, <1>4 DEF Direct!Dispatch

LEMMA GatewaysStep == GatewaysInv /\ [NextGateways]_all => GatewaysInv'
<1> SUFFICES ASSUME GatewaysInv, [NextGateways]_all PROVE GatewaysInv'
  OBVIOUS
<1>1. CASE OfForward(Next)
  <2>1. gateway = "forward" /\ gateway' = gateway /\ Next
    BY <1>1 DEF OfForward
  <2>2. ForwardInv'
    BY <2>1, ForwardStep DEF GatewaysInv
  <2> QED
    BY <2>1, <2>2 DEF GatewaysInv
<1>2. CASE OfDirect(Direct!Next)
  <2>1. gateway = "direct" /\ gateway' = gateway /\ Direct!Next
    BY <1>2 DEF OfDirect
  <2>2. DirectProofs!Next
    BY <2>1, SameInvoked, SameDispatched DEF Direct!Next
  <2>3. DirectProofs!DirectInv'
    BY <2>1, <2>2, DirectProofs!DirectStep, HighWaterAssumption DEF GatewaysInv
  <2> QED
    BY <2>1, <2>3 DEF GatewaysInv
<1>3. CASE UNCHANGED all
  <2>1. gateway' = gateway /\ UNCHANGED exchange /\ status' = status
        /\ UNCHANGED ownOfForward /\ UNCHANGED ownOfDirect
    BY <1>3 DEF all
  <2>2. UNCHANGED vars
    BY <2>1 DEF vars, upstream, ownOfForward
  <2>3. UNCHANGED DirectProofs!vars
    BY <2>1 DEF DirectProofs!vars, DirectProofs!exchange, DirectProofs!dispatcher, exchange,
                ownOfDirect
  <2>4. gateway = "forward" => ForwardInv'
    BY <2>2, ForwardStep DEF GatewaysInv
  <2>5. gateway = "direct" => DirectProofs!DirectInv'
    BY <2>3, DirectProofs!DirectStep, HighWaterAssumption DEF GatewaysInv
  <2> QED
    BY <2>1, <2>4, <2>5 DEF GatewaysInv
<1> QED
  BY <1>1, <1>2, <1>3 DEF NextGateways

LEMMA GatewaysInvariance == SpecGateways => []GatewaysInv
<1>1. InitGateways => GatewaysInv
  BY GatewaysInitially
<1>2. GatewaysInv /\ [NextGateways]_all => GatewaysInv'
  BY GatewaysStep
<1> QED
  BY <1>1, <1>2, PTL DEF SpecGateways

-----------------------------------------------------------------------------
(* The theorems, about the behaviours TLC explores *)

\* The trailer of a forwarded call carries the backend's status, after every
\* message of the call (forward.ts).
THEOREM ForwardedIsTrue == SpecGateways => []ForwardTruthfulTrailer
<1>1. GatewaysInv => ForwardTruthfulTrailer
  BY DEF GatewaysInv, ForwardInv, ForwardTruthfulTrailer
<1> QED
  BY <1>1, GatewaysInvariance, PTL

\* An OK trailer of the direct gateway comes after every item of a stream that
\* has ended without an error (direct.ts).
THEOREM OkFromDirect == SpecGateways => []DirectOkMeansComplete
<1>1. GatewaysInv => DirectOkMeansComplete
  BY DEF GatewaysInv, DirectProofs!DirectInv, DirectOkMeansComplete, Direct!OkMeansComplete,
         DirectProofs!OkMeansComplete, Direct!TrailerAt, DirectProofs!TrailerAt, Direct!Trailer,
         DirectProofs!Trailer
<1> QED
  BY <1>1, GatewaysInvariance, PTL

\* A direct dispatcher that has returned has released its stream
\* (router_invoker.ts).
THEOREM DirectStreamsEnd == SpecGateways => []DirectStreamReleased
<1>1. GatewaysInv => DirectStreamReleased
  BY DEF GatewaysInv, DirectProofs!DirectInv, DirectProofs!Sourced, DirectStreamReleased,
         Direct!StreamReleased, DirectProofs!StreamReleased
<1> QED
  BY <1>1, GatewaysInvariance, PTL

\* Back pressure reaches an iterable behind the direct dispatcher.
THEOREM DirectIsPulled == SpecGateways => []DirectPulledOnDemand
<1>1. GatewaysInv => DirectPulledOnDemand
  BY DEF GatewaysInv, DirectProofs!DirectInv, DirectPulledOnDemand, Direct!PulledOnDemand,
         DirectProofs!PulledOnDemand, Direct!MessageAt, DirectProofs!MessageAt,
         Direct!Cardinality, DirectProofs!Cardinality
<1> QED
  BY <1>1, GatewaysInvariance, PTL

\* Both gateways write one head, the messages in order and at the end one
\* trailer (http_handler.ts) ...
THEOREM BodiesWellFormed == SpecGateways => []WireGrammar
<1>1. GatewaysInv => ExchangeInv
  <2> USE DEF DirectProofs!Codes, Codes, DirectProofs!HeadFrame, HeadFrame,
              DirectProofs!Message, Message, DirectProofs!Trailer, Trailer
  <2>1. DirectProofs!ExchangeTypeOK => ExchangeTypeOK
    BY DEF DirectProofs!ExchangeTypeOK, ExchangeTypeOK
  <2>2. DirectProofs!Before /\ DirectProofs!During => Before /\ During
    BY DEF DirectProofs!Before, Before, DirectProofs!During, During
  <2>3. DirectProofs!After /\ DirectProofs!AbortedLate => After /\ AbortedLate
    BY DEF DirectProofs!After, After, DirectProofs!AbortedLate, AbortedLate
  <2>4. DirectProofs!Shape => Shape
    BY DEF DirectProofs!Shape, Shape
  <2>5. DirectProofs!Room => Room
    BY DEF DirectProofs!Room, Room, DirectProofs!BoundedBuffer, BoundedBuffer
  <2>6. DirectProofs!ExchangeInv => ExchangeInv
    BY <2>1, <2>2, <2>3, <2>4, <2>5 DEF DirectProofs!ExchangeInv, ExchangeInv
  <2> QED
    BY <2>6 DEF GatewaysInv, ForwardInv, DirectProofs!DirectInv
<1>2. GatewaysInv => WireGrammar
  BY <1>1, GrammarFollows
<1> QED
  BY <1>2, GatewaysInvariance, PTL

\* ... and never fill the response past its high water.
THEOREM BuffersBounded == SpecGateways => []BoundedBuffer
<1>1. GatewaysInv => BoundedBuffer
  BY DEF GatewaysInv, ForwardInv, ExchangeInv, Room, DirectProofs!DirectInv,
         DirectProofs!ExchangeInv, DirectProofs!Room, DirectProofs!BoundedBuffer, BoundedBuffer
<1> QED
  BY <1>1, GatewaysInvariance, PTL
=============================================================================
