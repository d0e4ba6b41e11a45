-------------------------- MODULE DirectGatewayProofs -------------------------
(* An OK trailer of the direct gateway means that the browser has every item,    *)
(* no stream outlives the dispatcher, and an iterable is pulled on demand: for   *)
(* every size of the response's buffer and any number of items.                  *)
EXTENDS DirectGateway, ExchangeProofs, FiniteSetTheorems

-----------------------------------------------------------------------------
(* The inductive invariant *)

\* Where the dispatcher stands while the handler is where it is.
Standing ==
  /\ hpc \in {"start", "decoding", "failing"} => dpc = "none"
  /\ hpc = "dispatching" => dpc # "none"
  /\ hpc = "trailer" => dpc = "returned"
  /\ dpc \in {"invoking", "pulling", "waiting", "emitting"} => hpc = "dispatching"
  /\ dpc = "emitting" <=> epc # "idle"
  /\ dpc = "returned" => status \in Codes

\* There is nothing before the procedure has returned, and its stream is
\* released by nobody but the dispatcher that leaves.
Sourced ==
  /\ dpc \in {"none", "invoking"} =>
       kind = "none" /\ source = "none" /\ produced = 0 /\ pending = <<>> /\ failure = "none"
  /\ source = "released" => dpc = "returned"
  /\ StreamReleased

\* Every item of the stream is written, being written, or in the bridge's buffer.
BeingWritten == IF epc = "encoding" THEN 1 ELSE 0

NoneLost ==
  hpc = "dispatching" /\ conn = "open" /\ dpc # "returned" =>
    /\ produced = Len(wire) - 1 + BeingWritten + Len(pending)
    /\ \A i \in DOMAIN pending : pending[i] = produced - Len(pending) + i

\* A dispatcher that has left with OK had written it all.
AllWritten ==
  dpc = "returned" /\ status = "OK" /\ conn = "open" /\ hpc \in {"dispatching", "trailer"} =>
    /\ Len(wire) = produced + 1
    /\ source \in {"none", "ended"} /\ failure # "error"

\* An iterable that waits to be pulled has given everything it produced away.
Drained == kind = "iterable" /\ dpc = "waiting" /\ ~woken => pending = <<>>

DirectInv ==
  /\ ExchangeInv /\ DispatcherTypeOK
  /\ Standing /\ Sourced /\ NoneLost /\ AllWritten /\ Drained
  /\ OkMeansComplete /\ PulledOnDemand

-----------------------------------------------------------------------------
(* Lemmas *)

\* A step that leaves the handler short of its end writes no trailer.
LEMMA NoTrailerYet ==
  ASSUME ExchangeInv', hpc' # "done"
  PROVE  OkMeansComplete'
<1>1. TrailerAt' = {}
  BY FrameKinds DEF ExchangeInv, Shape, TrailerAt
<1> QED
  BY <1>1 DEF OkMeansComplete

\* The messages of a response are finitely many, and while the handler
\* dispatches they are all of it but the head.
LEMMA MessagesCounted ==
  ASSUME ExchangeInv
  PROVE  /\ IsFiniteSet(MessageAt) /\ Cardinality(MessageAt) \in Nat
         /\ hpc # "done" /\ wire # <<>> => Cardinality(MessageAt) = Len(wire) - 1
<1>1. DOMAIN wire = 1..Len(wire) /\ Len(wire) \in Nat /\ wire \in Seq(Frame)
  BY WireTyped DEF ExchangeInv
<1>2. IsFiniteSet(MessageAt) /\ Cardinality(MessageAt) \in Nat
  <2>1. IsFiniteSet(1..Len(wire)) /\ MessageAt \subseteq 1..Len(wire)
    BY <1>1, FS_Interval DEF MessageAt
  <2> QED
    BY <2>1, FS_Subset, FS_CardinalityType
<1>3. ASSUME hpc # "done", wire # <<>> PROVE Cardinality(MessageAt) = Len(wire) - 1
  <2>1. Len(wire) >= 1
    BY <1>1, <1>3
  <2>2. MessageAt = 2..Len(wire)
    <3>1. \A i \in 1..Len(wire) : i # 1 => wire[i][1] = "message"
      BY <1>1, <1>3, FrameKinds DEF ExchangeInv, Shape
    <3>2. wire[1][1] # "message"
      BY <1>1, <2>1, FrameKinds DEF ExchangeInv, Shape
    <3> QED
      BY <1>1, <3>1, <3>2 DEF MessageAt
  <2>3. Cardinality(2..Len(wire)) = IF 2 > Len(wire) THEN 0 ELSE Len(wire) - 2 + 1
    BY <1>1, FS_Interval
  <2> QED
    BY <1>1, <2>1, <2>2, <2>3
<1> QED
  BY <1>2, <1>3

\* Messages are never taken back.
LEMMA OnDemandStays ==
  ASSUME ExchangeInv, ExchangeInv', PulledOnDemand, kind' = kind, produced' = produced,
         produced \in Nat, conn' = "open" => conn = "open" /\ MessageAt \subseteq MessageAt'
  PROVE  PulledOnDemand'
<1> SUFFICES ASSUME kind = "iterable", conn' = "open"
             PROVE  produced <= Cardinality(MessageAt)' + 1
  BY DEF PulledOnDemand
<1>1. IsFiniteSet(MessageAt) /\ Cardinality(MessageAt) \in Nat
  BY MessagesCounted
<1>2. IsFiniteSet(MessageAt')
  <2>1. wire' \in Seq(Frame)
    BY DEF ExchangeInv, ExchangeTypeOK, Frame
  <2>2. DOMAIN wire' = 1..Len(wire') /\ Len(wire') \in Nat
    BY <2>1
  <2>3. IsFiniteSet(1..Len(wire')) /\ MessageAt' \subseteq 1..Len(wire')
    BY <2>2, FS_Interval DEF MessageAt
  <2> QED
    BY <2>3, FS_Subset
<1>3. Cardinality(MessageAt) <= Cardinality(MessageAt') /\ Cardinality(MessageAt') \in Nat
  BY <1>2, FS_Subset, FS_CardinalityType
<1>4. produced <= Cardinality(MessageAt) + 1
  BY DEF PulledOnDemand
<1> QED
  BY <1>1, <1>3, <1>4

LEMMA DirectInitially == Init => DirectInv
<1> SUFFICES ASSUME Init PROVE DirectInv
  OBVIOUS
<1>1. ExchangeInv
  BY ExchangeInitially DEF Init
<1>2. DOMAIN wire = {} /\ hpc = "start" /\ epc = "idle" /\ pending \in Seq(Nat)
  BY DEF Init, InitExchange
<1>3. DispatcherTypeOK /\ Standing /\ Sourced /\ NoneLost /\ AllWritten /\ Drained
  BY <1>2 DEF Init, DispatcherTypeOK, Standing, Sourced, StreamReleased, NoneLost, AllWritten, Drained
<1>4. OkMeansComplete /\ PulledOnDemand
  BY <1>2 DEF Init, OkMeansComplete, PulledOnDemand, TrailerAt
<1> QED
  BY <1>1, <1>3, <1>4 DEF DirectInv

-----------------------------------------------------------------------------
(* The steps *)

\* The browser's steps leave the dispatcher, the response and the handler alone.
LEMMA BrowserDirect ==
  ASSUME DirectInv, (CloseConnection \/ Transmit) /\ UNCHANGED dispatcher
  PROVE  DirectInv'
<1> USE DEF DirectInv
<1>1. ExchangeInv'
  BY BrowserStep
<1>2. /\ UNCHANGED <<hpc, ended, wire, epc, kind, source, produced, pending, failure, woken, dpc, status>>
      /\ conn' = "open" => conn = "open"
  BY DEF CloseConnection, Transmit, dispatcher
<1>3. DispatcherTypeOK' /\ Standing' /\ Sourced' /\ Drained'
  BY <1>2 DEF DispatcherTypeOK, Standing, Sourced, StreamReleased, Drained
<1>4. NoneLost' /\ AllWritten'
  BY <1>2 DEF NoneLost, BeingWritten, AllWritten
<1>5. OkMeansComplete'
  BY <1>2 DEF OkMeansComplete, TrailerAt
<1>6. PulledOnDemand'
  <2>1. MessageAt' = MessageAt
    BY <1>2 DEF MessageAt
  <2> QED
    BY <1>1, <1>2, <2>1, OnDemandStays DEF DispatcherTypeOK
<1> QED
  BY <1>1, <1>3, <1>4, <1>5, <1>6

\* Before the dispatch there is no call and no message.
LEMMA HandlerDirect ==
  ASSUME DirectInv, Refuse \/ ReadBody \/ BadRequest \/ DispatchThrows,
         UNCHANGED dispatcher
  PROVE  DirectInv'
<1> USE DEF DirectInv
<1>1. ExchangeInv'
  BY HandlerStep
<1>2. /\ hpc \in {"start", "decoding"} /\ hpc' \in {"decoding", "failing", "done"}
      /\ UNCHANGED <<epc, kind, source, produced, pending, failure, woken, dpc, status>>
      /\ wire = <<>>
  BY DEF Refuse, ReadBody, BadRequest, DispatchThrows, Fail, dispatcher, ExchangeInv, Before
<1>3. dpc = "none" /\ kind = "none"
  BY <1>2 DEF Standing, Sourced
<1>4. wire' = <<>> \/ wire' = <<HeadFrame>>
  BY <1>2 DEF Refuse, ReadBody, BadRequest, DispatchThrows, Fail
<1>5. \A i \in DOMAIN wire' : wire'[i] = HeadFrame
  BY <1>4
<1>6. TrailerAt' = {}
  BY <1>5, FrameKinds DEF TrailerAt
<1>7. DispatcherTypeOK' /\ Standing' /\ Sourced' /\ Drained'
  BY <1>2, <1>3 DEF DispatcherTypeOK, Standing, Sourced, StreamReleased, Drained
<1>8. NoneLost' /\ AllWritten' /\ OkMeansComplete' /\ PulledOnDemand'
  BY <1>2, <1>3, <1>6 DEF NoneLost, AllWritten, OkMeansComplete, PulledOnDemand
<1> QED
  BY <1>1, <1>7, <1>8

LEMMA BeginDirect == ASSUME DirectInv, Invoke \/ NoRoute PROVE DirectInv'
<1> USE DEF DirectInv
<1>1. ExchangeInv'
  BY HandlerStep DEF Invoke, NoRoute
<1>2. /\ hpc = "decoding" /\ hpc' = "dispatching"
      /\ UNCHANGED <<conn, epc, kind, source, produced, pending, failure, woken>>
      /\ \/ dpc' = "invoking" /\ status' = status
         \/ dpc' = "returned" /\ status' = "UNIMPLEMENTED"
      /\ wire' = IF conn = "open" THEN <<HeadFrame>> ELSE <<>>
  BY DEF Invoke, NoRoute, BeginDispatch
<1>3. /\ dpc = "none" /\ kind = "none" /\ source = "none" /\ produced = 0 /\ pending = <<>>
      /\ failure = "none" /\ epc = "idle"
  BY <1>2 DEF Standing, Sourced, ExchangeInv, Before
<1>4. DispatcherTypeOK' /\ Standing' /\ Sourced' /\ Drained'
  BY <1>2, <1>3 DEF DispatcherTypeOK, Standing, Sourced, StreamReleased, Drained, Codes
<1>5. NoneLost'
  <2>1. conn = "open" => Len(wire') = 1
    BY <1>2
  <2> QED
    BY <1>2, <1>3, <2>1 DEF NoneLost, BeingWritten
<1>6. AllWritten' /\ PulledOnDemand'
  BY <1>2, <1>3 DEF AllWritten, PulledOnDemand
<1>7. OkMeansComplete'
  BY <1>1, <1>2, NoTrailerYet
<1> QED
  BY <1>1, <1>4, <1>5, <1>6, <1>7

\* What the procedure returns starts from nothing.
LEMMA ProcedureDirect == ASSUME DirectInv, Procedure PROVE DirectInv'
<1> USE DEF DirectInv
<1>1. /\ UNCHANGED exchange /\ dpc = "invoking" /\ UNCHANGED <<failure, woken>>
      /\ \/ /\ dpc' = "pulling" /\ produced' = 1 /\ pending' = <<1>> /\ kind' = "value"
            /\ UNCHANGED <<source, status>>
         \/ /\ dpc' = "pulling" /\ source' = "active" /\ kind' \in {"iterable", "observable"}
            /\ UNCHANGED <<produced, pending, status>>
         \/ /\ dpc' = "returned" /\ status' = "FAILED"
            /\ UNCHANGED <<kind, source, produced, pending>>
  BY DEF Procedure, ReturnsValue, Throws, ReturnsStream
<1>2. ExchangeInv' /\ UNCHANGED <<hpc, conn, ended, wire, epc>>
  BY <1>1, ExchangeUnchanged DEF exchange
<1>3. /\ hpc = "dispatching" /\ epc = "idle" /\ produced = 0 /\ pending = <<>>
      /\ source = "none" /\ failure = "none" /\ kind = "none"
  BY <1>1 DEF Standing, Sourced
<1>4. <<1>> \in Seq(Nat) /\ Len(<<1>>) = 1 /\ DOMAIN <<1>> = {1} /\ <<1>>[1] = 1 /\ Len(<<>>) = 0
  OBVIOUS
<1>5. DispatcherTypeOK'
  <2>1. (produced' = 1 /\ pending' = <<1>>) \/ UNCHANGED <<produced, pending>>
    BY <1>1
  <2>2. produced' \in Nat /\ pending' \in Seq(Nat)
    BY <1>4, <2>1 DEF DispatcherTypeOK
  <2> QED
    BY <1>1, <2>2 DEF DispatcherTypeOK, Codes
<1>6. Standing' /\ Sourced' /\ Drained'
  BY <1>1, <1>2, <1>3 DEF Standing, Sourced, StreamReleased, Drained, Codes
<1>7. NoneLost'
  <2> SUFFICES ASSUME conn = "open", dpc' = "pulling" PROVE NoneLost'
    BY <1>1, <1>2 DEF NoneLost
  <2>1. Len(wire) \in Nat /\ 0 = Len(wire) - 1 + 0 + Len(<<>>)
    BY <1>1, <1>3, WireTyped DEF NoneLost, BeingWritten, ExchangeInv
  <2>2. Len(wire') = 1 /\ BeingWritten' = 0
    BY <1>2, <1>3, <1>4, <2>1 DEF BeingWritten
  <2>3. CASE produced' = 1 /\ pending' = <<1>>
    BY <1>4, <2>2, <2>3 DEF NoneLost
  <2>4. CASE produced' = 0 /\ pending' = <<>>
    BY <1>4, <2>2, <2>4 DEF NoneLost
  <2> QED
    BY <1>1, <1>3, <2>3, <2>4
<1>8. AllWritten'
  BY <1>1 DEF AllWritten
<1>9. OkMeansComplete'
  BY <1>2, <1>3, NoTrailerYet
<1>10. PulledOnDemand'
  <2>1. Cardinality(MessageAt) \in Nat /\ MessageAt' = MessageAt
    BY <1>2, MessagesCounted DEF MessageAt
  <2> QED
    BY <1>1, <1>3, <2>1 DEF PulledOnDemand
<1> QED
  BY <1>2, <1>5, <1>6, <1>7, <1>8, <1>9, <1>10

\* A stream that acts belongs to a dispatcher that is still in its loop.
LEMMA Acting ==
  ASSUME DirectInv, MayAct
  PROVE  /\ hpc = "dispatching" /\ dpc \in {"pulling", "waiting", "emitting"}
         /\ kind = "iterable" => pending = <<>> /\ epc = "idle"
  BY DEF DirectInv, MayAct, Sourced, Standing, StreamReleased, Drained, DispatcherTypeOK

LEMMA ItemStep == ASSUME DirectInv, Item PROVE DirectInv'
<1> USE DEF DirectInv
<1>1. /\ UNCHANGED <<exchange, kind, source, failure, dpc, status>> /\ woken' = TRUE
      /\ produced' = produced + 1 /\ pending' = Append(pending, produced + 1)
  BY DEF Item, Buffered, Notify
<1>2. ExchangeInv' /\ UNCHANGED <<hpc, conn, ended, wire, epc>>
  BY <1>1, ExchangeUnchanged DEF exchange
<1>3. /\ hpc = "dispatching" /\ dpc \in {"pulling", "waiting", "emitting"}
      /\ kind = "iterable" => pending = <<>> /\ epc = "idle"
  BY Acting DEF Item
<1>4. pending \in Seq(Nat) /\ produced \in Nat
  BY DEF DispatcherTypeOK
<1>5. /\ pending' \in Seq(Nat) /\ Len(pending') = Len(pending) + 1
      /\ DOMAIN pending' = 1..Len(pending) + 1
      /\ \A i \in DOMAIN pending : pending'[i] = pending[i]
      /\ pending'[Len(pending) + 1] = produced + 1
      /\ DOMAIN pending = 1..Len(pending) /\ Len(pending) \in Nat
  BY <1>1, <1>4
<1>6. DispatcherTypeOK' /\ Standing' /\ Sourced' /\ Drained' /\ AllWritten'
  BY <1>1, <1>2, <1>3, <1>4, <1>5
     DEF DispatcherTypeOK, Standing, Sourced, StreamReleased, Drained, AllWritten
<1>7. Len(wire) \in Nat /\ BeingWritten \in Nat
  BY WireTyped DEF ExchangeInv, BeingWritten
<1>8. NoneLost'
  <2> SUFFICES ASSUME conn = "open" PROVE NoneLost'
    BY <1>2 DEF NoneLost
  <2>1. /\ produced = Len(wire) - 1 + BeingWritten + Len(pending)
        /\ \A i \in DOMAIN pending : pending[i] = produced - Len(pending) + i
    BY <1>3 DEF NoneLost
  <2>2. produced' = Len(wire') - 1 + BeingWritten' + Len(pending')
    <3>1. wire' = wire /\ BeingWritten' = BeingWritten /\ produced' = produced + 1
      BY <1>1, <1>2 DEF BeingWritten
    <3>2. Len(pending') = Len(pending) + 1
      BY <1>5
    <3>3. \A w, b, n \in Nat : w - 1 + b + (n + 1) = (w - 1 + b + n) + 1
      OBVIOUS
    <3> QED
      BY <1>5, <1>7, <2>1, <3>1, <3>2, <3>3
  <2>3. \A i \in DOMAIN pending' : pending'[i] = produced' - Len(pending') + i
    <3> TAKE i \in DOMAIN pending'
    <3>1. i \in DOMAIN pending \/ i = Len(pending) + 1
      BY <1>5
    <3> QED
      BY <1>1, <1>4, <1>5, <2>1, <3>1
  <2> QED
    BY <2>2, <2>3 DEF NoneLost
<1>9. OkMeansComplete'
  BY <1>2, <1>3, NoTrailerYet
<1>10. PulledOnDemand'
  <2> SUFFICES ASSUME kind = "iterable", conn = "open"
               PROVE  produced' <= Cardinality(MessageAt)' + 1
    BY <1>1, <1>2 DEF PulledOnDemand
  <2>1. produced = Len(wire) - 1 + 0 + Len(<<>>)
    BY <1>3 DEF NoneLost, BeingWritten
  <2>2. produced = Len(wire) - 1
    BY <1>7, <2>1
  <2>3. Cardinality(MessageAt) = Len(wire) - 1
    BY <1>3, MessagesCounted DEF ExchangeInv, During
  <2>4. MessageAt' = MessageAt
    BY <1>2 DEF MessageAt
  <2> QED
    BY <1>1, <1>4, <2>2, <2>3, <2>4
<1> QED
  BY <1>2, <1>6, <1>8, <1>9, <1>10

LEMMA EndsStep ==
  ASSUME DirectInv, NEW f \in {"none", "error", "falsy"}, Ends(f)
  PROVE  DirectInv'
<1> USE DEF DirectInv
<1>1. /\ UNCHANGED <<exchange, kind, produced, pending, dpc, status>>
      /\ woken' = TRUE /\ source' = "ended" /\ failure' = f
  BY DEF Ends, Notify
<1>2. ExchangeInv' /\ UNCHANGED <<hpc, conn, ended, wire, epc>>
  BY <1>1, ExchangeUnchanged DEF exchange
<1>3. hpc = "dispatching" /\ dpc \in {"pulling", "waiting", "emitting"}
  BY Acting DEF Ends
<1>4. DispatcherTypeOK' /\ Standing' /\ Sourced' /\ Drained' /\ AllWritten'
  BY <1>1, <1>2, <1>3
     DEF DispatcherTypeOK, Standing, Sourced, StreamReleased, Drained, AllWritten
<1>5. NoneLost'
  BY <1>1, <1>2 DEF NoneLost, BeingWritten
<1>6. OkMeansComplete'
  BY <1>2, <1>3, NoTrailerYet
<1>7. PulledOnDemand'
  <2>1. MessageAt' = MessageAt
    BY <1>2 DEF MessageAt
  <2> QED
    BY <1>1, <1>2, <2>1, OnDemandStays DEF DispatcherTypeOK
<1> QED
  BY <1>2, <1>4, <1>5, <1>6, <1>7

\* The dispatcher takes an item from the bridge and starts to emit it.
LEMMA PullItemStep == ASSUME DirectInv, PullItem PROVE DirectInv'
<1> USE DEF DirectInv
<1>1. /\ dpc = "pulling" /\ pending # <<>> /\ ~aborted /\ pending' = Tail(pending)
      /\ UNCHANGED <<kind, source, produced, failure, woken, status>>
      /\ \/ EmitDropped /\ dpc' = "pulling" /\ UNCHANGED exchange
         \/ ~EmitDropped /\ dpc' = "emitting" /\ EmitStart(Head(pending))
  BY DEF PullItem
<1>2. /\ UNCHANGED <<hpc, conn, ended, wire, aborted>> /\ hpc = "dispatching" /\ epc = "idle"
      /\ dpc' = "pulling" => epc' = "idle"
      /\ dpc' = "emitting" => epc' = "encoding"
  BY <1>1 DEF EmitStart, exchange, Standing
<1>3. /\ pending \in Seq(Nat) /\ Tail(pending) \in Seq(Nat)
      /\ Len(pending) \in Nat \ {0} /\ Len(Tail(pending)) = Len(pending) - 1
      /\ DOMAIN Tail(pending) = 1..Len(pending) - 1 /\ DOMAIN pending = 1..Len(pending)
      /\ \A i \in 1..Len(pending) - 1 : Tail(pending)[i] = pending[i + 1]
      /\ Head(pending) \in Nat /\ Head(pending) = pending[1]
  BY <1>1 DEF DispatcherTypeOK
<1>4. Len(wire) \in Nat /\ produced \in Nat
  BY WireTyped DEF ExchangeInv, DispatcherTypeOK
<1>5. conn = "open" =>
        /\ dpc' = "emitting"
        /\ produced = Len(wire) - 1 + Len(pending) /\ Head(pending) = Len(wire)
  <2> SUFFICES ASSUME conn = "open"
               PROVE  /\ dpc' = "emitting"
                      /\ produced = Len(wire) - 1 + Len(pending) /\ Head(pending) = Len(wire)
    OBVIOUS
  <2>1. ~EmitDropped
    BY <1>1, <1>2 DEF EmitDropped, Gone, ExchangeInv, During
  <2>2. produced = Len(wire) - 1 + 0 + Len(pending) /\ pending[1] = produced - Len(pending) + 1
    BY <1>1, <1>2, <1>3 DEF NoneLost, BeingWritten
  <2> QED
    BY <1>1, <1>3, <1>4, <2>1, <2>2
<1>6. ExchangeInv'
  BY <1>1, <1>2, <1>3, <1>5, ExchangeUnchanged, EmitStartStep
<1>7. DispatcherTypeOK' /\ Standing' /\ Sourced' /\ Drained' /\ AllWritten'
  BY <1>1, <1>2, <1>3 DEF DispatcherTypeOK, Standing, Sourced, StreamReleased, Drained, AllWritten
<1>8. NoneLost'
  <2> SUFFICES ASSUME conn = "open" PROVE NoneLost'
    BY <1>2 DEF NoneLost
  <2>1. BeingWritten' = 1 /\ wire' = wire /\ produced' = produced
    BY <1>1, <1>2, <1>5 DEF BeingWritten
  <2>2. produced' = Len(wire') - 1 + BeingWritten' + Len(pending')
    BY <1>1, <1>3, <1>4, <1>5, <2>1
  <2>3. \A i \in DOMAIN pending' : pending'[i] = produced' - Len(pending') + i
    <3> TAKE i \in DOMAIN pending'
    <3>1. i \in 1..Len(pending) - 1 /\ i + 1 \in DOMAIN pending /\ pending'[i] = pending[i + 1]
      BY <1>1, <1>3
    <3>2. pending[i + 1] = produced - Len(pending) + (i + 1)
      BY <1>1, <1>2, <3>1 DEF NoneLost
    <3> QED
      BY <1>1, <1>3, <1>4, <3>1, <3>2
  <2> QED
    BY <2>2, <2>3 DEF NoneLost
<1>9. OkMeansComplete'
  BY <1>2, <1>6, NoTrailerYet
<1>10. PulledOnDemand'
  <2>1. MessageAt' = MessageAt
    BY <1>2 DEF MessageAt
  <2> QED
    BY <1>1, <1>2, <1>6, <2>1, OnDemandStays DEF DispatcherTypeOK
<1> QED
  BY <1>6, <1>7, <1>8, <1>9, <1>10

\* The dispatcher waits for the stream, or wakes.
LEMMA WaitStep == ASSUME DirectInv, PullWaits \/ Wake PROVE DirectInv'
<1> USE DEF DirectInv
<1>1. /\ UNCHANGED <<exchange, kind, source, produced, pending, failure, status>>
      /\ \/ dpc = "pulling" /\ dpc' = "waiting" /\ pending = <<>> /\ woken' = FALSE
         \/ dpc = "waiting" /\ dpc' = "pulling" /\ woken' = woken
  BY DEF PullWaits, Wake
<1>2. ExchangeInv' /\ UNCHANGED <<hpc, conn, ended, wire, epc>>
  BY <1>1, ExchangeUnchanged DEF exchange
<1>3. hpc = "dispatching"
  BY <1>1 DEF Standing
<1>4. DispatcherTypeOK' /\ Standing' /\ Sourced' /\ Drained' /\ AllWritten'
  BY <1>1, <1>2, <1>3
     DEF DispatcherTypeOK, Standing, Sourced, StreamReleased, Drained, AllWritten
<1>5. NoneLost'
  BY <1>1, <1>2 DEF NoneLost, BeingWritten
<1>6. OkMeansComplete'
  BY <1>2, <1>3, NoTrailerYet
<1>7. PulledOnDemand'
  <2>1. MessageAt' = MessageAt
    BY <1>2 DEF MessageAt
  <2> QED
    BY <1>1, <1>2, <2>1, OnDemandStays DEF DispatcherTypeOK
<1> QED
  BY <1>2, <1>4, <1>5, <1>6, <1>7

\* A dispatcher that leaves its loop with anything but OK.
LEMMA LeavingStep ==
  ASSUME DirectInv, ExchangeInv', NEW code \in Codes \ {"OK"}, Leave(code),
         hpc = "dispatching", hpc' = hpc, dpc # "none", epc' = "idle", pending' \in Seq(Nat),
         conn' = conn, conn = "open" => MessageAt \subseteq MessageAt'
  PROVE  DirectInv'
<1> USE DEF DirectInv
<1>1. /\ dpc' = "returned" /\ status' = code /\ source' # "active"
      /\ source' \in {"none", "active", "ended", "released"}
      /\ UNCHANGED <<kind, produced, failure, woken>>
  BY DEF Leave, Release, DispatcherTypeOK
<1>2. DispatcherTypeOK' /\ Standing' /\ Sourced' /\ Drained'
  BY <1>1 DEF DispatcherTypeOK, Standing, Sourced, StreamReleased, Drained
<1>3. NoneLost' /\ AllWritten'
  BY <1>1 DEF NoneLost, AllWritten
<1>4. OkMeansComplete'
  BY NoTrailerYet
<1>5. PulledOnDemand'
  BY <1>1, OnDemandStays DEF DispatcherTypeOK
<1> QED
  BY <1>2, <1>3, <1>4, <1>5

\* The loop is broken off by an item that does not encode, or by the signal.
LEMMA PullBreaksStep == ASSUME DirectInv, PullThrows \/ PullAborted PROVE DirectInv'
<1>1. /\ dpc = "pulling" /\ pending # <<>> /\ pending' = Tail(pending) /\ UNCHANGED exchange
      /\ Leave("FAILED") \/ Leave("CANCELLED")
  BY DEF PullThrows, PullAborted
<1>2. ExchangeInv' /\ UNCHANGED <<hpc, conn, wire, epc>> /\ MessageAt' = MessageAt
  BY <1>1, ExchangeUnchanged DEF DirectInv, exchange, MessageAt
<1>3. hpc = "dispatching" /\ epc = "idle" /\ Tail(pending) \in Seq(Nat)
  BY <1>1 DEF DirectInv, Standing, DispatcherTypeOK
<1> QED
  BY <1>1, <1>2, <1>3, LeavingStep DEF Codes

\* The stream is exhausted: with OK, everything has been written.
LEMMA PullEndsStep == ASSUME DirectInv, PullEnds PROVE DirectInv'
<1> USE DEF DirectInv
<1>1. /\ dpc = "pulling" /\ pending = <<>> /\ source # "active" /\ UNCHANGED <<exchange, pending>>
      /\ Leave(IF failure = "error" THEN "FAILED" ELSE Outcome)
  BY DEF PullEnds, Exhausted
<1>2. /\ ExchangeInv' /\ UNCHANGED <<hpc, conn, ended, wire, epc>> /\ MessageAt' = MessageAt
      /\ hpc = "dispatching" /\ epc = "idle"
  BY <1>1, ExchangeUnchanged DEF exchange, MessageAt, Standing
<1>3. CASE failure = "error" \/ aborted
  BY <1>1, <1>2, <1>3, LeavingStep DEF Codes, Outcome, DispatcherTypeOK
<1>4. CASE failure # "error" /\ ~aborted
  <2>1. /\ dpc' = "returned" /\ status' = "OK" /\ source' = source
        /\ UNCHANGED <<kind, produced, failure, woken, pending>>
        /\ source \in {"none", "ended"}
    BY <1>1, <1>4 DEF Leave, Release, Outcome, DispatcherTypeOK, Sourced
  <2>2. DispatcherTypeOK' /\ Standing' /\ Sourced' /\ Drained' /\ NoneLost'
    BY <1>1, <1>2, <2>1
       DEF DispatcherTypeOK, Standing, Sourced, StreamReleased, Drained, NoneLost, Codes
  <2>3. AllWritten'
    <3> SUFFICES ASSUME conn = "open" PROVE Len(wire) = produced + 1
      BY <1>2, <1>4, <2>1 DEF AllWritten
    <3>1. Len(wire) \in Nat /\ produced \in Nat /\ Len(<<>>) = 0
      BY WireTyped DEF ExchangeInv, DispatcherTypeOK
    <3>2. produced = Len(wire) - 1 + 0 + Len(<<>>)
      BY <1>1, <1>2 DEF NoneLost, BeingWritten
    <3> QED
      BY <3>1, <3>2
  <2>4. OkMeansComplete'
    BY <1>2, NoTrailerYet
  <2>5. PulledOnDemand'
    BY <1>2, <2>1, OnDemandStays DEF DispatcherTypeOK
  <2> QED
    BY <1>2, <2>2, <2>3, <2>4, <2>5
<1> QED
  BY <1>3, <1>4

\* An emit that goes on or resolves has written its item, or nobody reads it.
LEMMA EmitGoesOnStep == ASSUME DirectInv, EmitWaits \/ EmitResolves PROVE DirectInv'
<1> USE DEF DirectInv
<1>1. ExchangeInv'
  BY EmitStep DEF EmitWaits, EmitResolves
<1>2. /\ UNCHANGED <<hpc, conn, aborted, ended, kind, source, produced, pending, failure, woken, status>>
      /\ hpc = "dispatching" /\ dpc = "emitting"
      /\ dpc' \in {"emitting", "pulling"} /\ (dpc' = "emitting" <=> epc' # "idle")
  BY DEF EmitWaits, EmitResolves, dispatcher, EmitWrite, EmitBlocks, EmitDrained, EmitEnds,
         ExchangeInv, During, Standing
<1>3. DispatcherTypeOK' /\ Standing' /\ Sourced' /\ Drained' /\ AllWritten'
  BY <1>2 DEF DispatcherTypeOK, Standing, Sourced, StreamReleased, Drained, AllWritten
<1>4. /\ wire \in Seq(Frame) /\ Len(wire) \in Nat /\ DOMAIN wire = 1..Len(wire)
      /\ Message(payload) \in Frame
  BY WireTyped, FramesTyped DEF ExchangeInv, ExchangeTypeOK
<1>5. conn = "open" => /\ Len(wire') + BeingWritten' = Len(wire) + BeingWritten
                       /\ MessageAt \subseteq MessageAt'
                       /\ Len(wire') \in Nat
  <2> SUFFICES ASSUME conn = "open"
               PROVE  /\ Len(wire') + BeingWritten' = Len(wire) + BeingWritten
                      /\ MessageAt \subseteq MessageAt'
                      /\ Len(wire') \in Nat
    OBVIOUS
  <2>1. ~Gone
    BY <1>2 DEF Gone, ExchangeInv, During
  <2>2. CASE EmitDrained
    <3>1. epc = "draining" /\ epc' = "idle" /\ wire' = wire
      BY <2>2 DEF EmitDrained, EmitEnds
    <3> QED
      BY <1>4, <3>1 DEF BeingWritten, MessageAt
  <2>3. CASE EmitWrite \/ EmitBlocks
    <3>1. epc = "encoding" /\ epc' \in {"idle", "draining"} /\ wire' = Append(wire, Message(payload))
      BY <2>1, <2>3 DEF EmitWrite, EmitBlocks, EmitEnds, Written
    <3>2. BeingWritten = 1 /\ BeingWritten' = 0
      BY <3>1 DEF BeingWritten
    <3>3. /\ Len(wire') = Len(wire) + 1 /\ DOMAIN wire' = 1..Len(wire) + 1
          /\ \A i \in DOMAIN wire : wire'[i] = wire[i]
      BY <1>4, <3>1, Appended
    <3>4. MessageAt \subseteq MessageAt'
      BY <1>4, <3>3 DEF MessageAt
    <3> QED
      BY <1>4, <3>2, <3>3, <3>4
  <2> QED
    BY <2>2, <2>3 DEF EmitWaits, EmitResolves
<1>6. NoneLost'
  <2> SUFFICES ASSUME conn = "open" PROVE NoneLost'
    BY <1>2 DEF NoneLost
  <2>1. BeingWritten \in Nat /\ BeingWritten' \in Nat /\ Len(pending) \in Nat
    BY DEF BeingWritten, DispatcherTypeOK
  <2>2. produced = Len(wire) - 1 + BeingWritten + Len(pending)
    BY <1>2 DEF NoneLost
  <2>3. produced = Len(wire') - 1 + BeingWritten' + Len(pending)
    <3>1. \A a, b, c, d, n \in Nat : a + b = c + d => a - 1 + b + n = c - 1 + d + n
      OBVIOUS
    <3>2. Len(wire') - 1 + BeingWritten' + Len(pending) = Len(wire) - 1 + BeingWritten + Len(pending)
      BY <1>4, <1>5, <2>1, <3>1
    <3> QED
      BY <2>2, <3>2
  <2> QED
    BY <1>2, <2>3 DEF NoneLost
<1>7. OkMeansComplete'
  BY <1>1, <1>2, NoTrailerYet
<1>8. PulledOnDemand'
  BY <1>1, <1>2, <1>5, OnDemandStays DEF DispatcherTypeOK
<1> QED
  BY <1>1, <1>3, <1>6, <1>7, <1>8

LEMMA EmitFailsStep == ASSUME DirectInv, EmitFails PROVE DirectInv'
<1>1. ExchangeInv'
  BY EmitStep DEF EmitFails, DirectInv
<1>2. /\ UNCHANGED <<hpc, conn>> /\ hpc = "dispatching" /\ dpc = "emitting" /\ conn = "closed"
      /\ epc' = "idle" /\ pending' = pending /\ pending \in Seq(Nat) /\ Leave("FAILED")
  BY DEF EmitFails, EmitRejected, EmitEnds, DirectInv, ExchangeInv, AbortedLate, During, Standing,
         DispatcherTypeOK
<1> QED
  BY <1>1, <1>2, LeavingStep DEF Codes

LEMMA CompleteStep == ASSUME DirectInv, Complete PROVE DirectInv'
<1> USE DEF DirectInv
<1>1. dpc = "returned" /\ epc = "idle" /\ hpc = "dispatching" /\ DispatchResolved
  BY DEF Complete, Standing, DispatchResolved
<1>2. ExchangeInv'
  BY <1>1, DispatchEndStep
<1>3. /\ hpc' \in {"done", "trailer"}
      /\ UNCHANGED <<conn, ended, wire, epc, kind, source, produced, pending, failure, woken, dpc, status>>
  BY <1>1 DEF Complete, dispatcher, DispatchResolved
<1>4. DispatcherTypeOK' /\ Standing' /\ Sourced' /\ Drained'
  BY <1>1, <1>3 DEF DispatcherTypeOK, Standing, Sourced, StreamReleased, Drained
<1>5. NoneLost' /\ AllWritten'
  BY <1>1, <1>3 DEF NoneLost, AllWritten
<1>6. OkMeansComplete'
  <2>1. TrailerAt = {}
    BY <1>1, TrailersLast
  <2> QED
    BY <1>3, <2>1 DEF OkMeansComplete, TrailerAt
<1>7. PulledOnDemand'
  <2>1. MessageAt' = MessageAt
    BY <1>3 DEF MessageAt
  <2> QED
    BY <1>2, <1>3, <2>1, OnDemandStays DEF DispatcherTypeOK
<1> QED
  BY <1>2, <1>4, <1>5, <1>6, <1>7

LEMMA LastFrameStep == ASSUME DirectInv, End PROVE DirectInv'
<1> DEFINE code == IF hpc = "failing" THEN "INTERNAL" ELSE status
<1> USE DEF DirectInv
<1>1. /\ EndResponse(code) /\ hpc \in {"trailer", "failing"} /\ hpc' = "done"
      /\ UNCHANGED <<conn, epc, kind, source, produced, pending, failure, woken, dpc, status>>
  BY DEF End, EndResponse, dispatcher
<1>2. /\ code \in Codes /\ dpc \in {"none", "returned"}
      /\ hpc = "trailer" => dpc = "returned" /\ code = status
      /\ hpc = "failing" => dpc = "none" /\ code = "INTERNAL"
  BY <1>1 DEF Standing, Codes
<1> HIDE DEF code
<1>3. ExchangeInv'
  BY <1>1, <1>2, EndStep
<1>4. DispatcherTypeOK' /\ Standing' /\ Sourced' /\ Drained' /\ NoneLost' /\ AllWritten'
  BY <1>1, <1>2
     DEF DispatcherTypeOK, Standing, Sourced, StreamReleased, Drained, NoneLost, AllWritten
<1>5. wire \in Seq(Frame) /\ DOMAIN wire = 1..Len(wire) /\ Len(wire) \in Nat
  BY WireTyped DEF ExchangeInv
<1>6. \A i \in TrailerAt' : i = Len(wire')
  BY <1>3, FrameKinds DEF ExchangeInv, Shape, TrailerAt
<1>7. CASE wire' = wire
  <2>1. TrailerAt = {}
    BY <1>1, TrailersLast
  <2>2. TrailerAt' = {} /\ MessageAt' = MessageAt
    BY <1>7, <2>1 DEF TrailerAt, MessageAt
  <2>3. OkMeansComplete'
    BY <2>2 DEF OkMeansComplete
  <2>4. PulledOnDemand'
    BY <1>1, <1>3, <2>2, OnDemandStays DEF DispatcherTypeOK
  <2> QED
    BY <1>3, <1>4, <2>3, <2>4
<1>8. CASE wire' # wire /\ hpc = "trailer"
  <2>1. conn = "open" /\ wire' = Append(wire, Trailer(status)) /\ status \in Codes
    BY <1>1, <1>2, <1>8 DEF EndResponse, ExchangeInv, After, ExchangeTypeOK
  <2>2. /\ Len(wire') = Len(wire) + 1 /\ wire'[Len(wire) + 1] = Trailer(status)
        /\ DOMAIN wire' = 1..Len(wire) + 1 /\ \A i \in DOMAIN wire : wire'[i] = wire[i]
    BY <1>5, <2>1, FramesTyped, Appended
  <2>3. OkMeansComplete'
    <3>1. \A c : Trailer(c) = Trailer("OK") => c = "OK"
      BY DEF Trailer
    <3>2. ASSUME status = "OK"
          PROVE  Len(wire') = produced + 2 /\ source \in {"none", "ended"} /\ failure # "error"
      <4>1. Len(wire) = produced + 1 /\ source \in {"none", "ended"} /\ failure # "error"
        BY <1>2, <1>8, <2>1, <3>2 DEF AllWritten
      <4> QED
        BY <1>5, <2>2, <4>1 DEF DispatcherTypeOK
    <3> QED
      BY <1>1, <1>6, <2>2, <3>1, <3>2 DEF OkMeansComplete
  <2>4. MessageAt \subseteq MessageAt'
    BY <1>5, <2>2 DEF MessageAt
  <2>5. PulledOnDemand'
    BY <1>1, <1>3, <2>4, OnDemandStays DEF DispatcherTypeOK
  <2> QED
    BY <1>3, <1>4, <2>3, <2>5
<1>9. CASE wire' # wire /\ hpc = "failing"
  <2>1. wire' = <<HeadFrame, Trailer("INTERNAL")>> /\ kind = "none"
    BY <1>1, <1>2, <1>9, HeadThen DEF EndResponse, ExchangeInv, After, ExchangeTypeOK, Sourced
  <2>2. DOMAIN wire' = {1, 2} /\ wire'[2] = Trailer("INTERNAL") /\ Len(wire') = 2
    BY <2>1
  <2>3. Trailer("INTERNAL") # Trailer("OK")
    BY DEF Trailer
  <2>4. OkMeansComplete'
    BY <1>6, <2>2, <2>3 DEF OkMeansComplete
  <2>5. PulledOnDemand'
    BY <1>1, <2>1 DEF PulledOnDemand
  <2> QED
    BY <1>3, <1>4, <2>4, <2>5
<1> QED
  BY <1>1, <1>7, <1>8, <1>9

LEMMA DirectStep == DirectInv /\ [Next]_vars => DirectInv'
<1> SUFFICES ASSUME DirectInv, [Next]_vars PROVE DirectInv'
  OBVIOUS
<1>1. CASE Close \/ Handle
  BY <1>1, BrowserDirect, HandlerDirect DEF Close, Handle
<1>2. CASE Invoke \/ NoRoute \/ Procedure
  BY <1>2, BeginDirect, ProcedureDirect
<1>3. CASE Source
  BY <1>3, ItemStep, EndsStep DEF Source
<1>4. CASE Dispatch
  BY <1>4, PullItemStep, WaitStep, PullBreaksStep, PullEndsStep, EmitGoesOnStep, EmitFailsStep,
     CompleteStep, LastFrameStep DEF Dispatch
<1>5. CASE UNCHANGED vars
  <2>1. UNCHANGED exchange /\ UNCHANGED dispatcher
    BY <1>5 DEF vars
  <2>2. ExchangeInv' /\ MessageAt' = MessageAt
    BY <2>1, ExchangeUnchanged DEF DirectInv, exchange, MessageAt
  <2>3. PulledOnDemand'
    BY <2>1, <2>2, OnDemandStays DEF DirectInv, DispatcherTypeOK, exchange, dispatcher
  <2> QED
    BY <2>1, <2>2, <2>3
       DEF exchange, dispatcher, DirectInv, DispatcherTypeOK, Standing, Sourced, StreamReleased,
           NoneLost, BeingWritten, AllWritten, Drained, OkMeansComplete, TrailerAt
<1> QED
  BY <1>1, <1>2, <1>3, <1>4, <1>5 DEF Next

-----------------------------------------------------------------------------
(* The theorems *)

LEMMA DirectInvariance == Spec => []DirectInv
<1>1. Init => DirectInv
  BY DirectInitially
<1>2. DirectInv /\ [Next]_vars => DirectInv'
  BY DirectStep
<1> QED
  BY <1>1, <1>2, PTL DEF Spec

\* The state of the handler, of direct.ts and of the bridge keeps its types.
THEOREM DirectTypes == Spec => []TypeOK
<1>1. DirectInv => TypeOK
  BY DEF DirectInv, ExchangeInv, TypeOK
<1> QED
  BY <1>1, DirectInvariance, PTL

\* What direct.ts and the handler write is one head, the items of the stream in
\* their order and at the end one trailer.
THEOREM DirectBodyWellFormed == Spec => []WireGrammar
<1>1. DirectInv => WireGrammar
  BY GrammarFollows DEF DirectInv
<1> QED
  BY <1>1, DirectInvariance, PTL

\* An OK trailer comes after every item of a stream that has ended without an error.
THEOREM OkIsComplete == Spec => []OkMeansComplete
<1>1. DirectInv => OkMeansComplete
  BY DEF DirectInv
<1> QED
  BY <1>1, DirectInvariance, PTL

\* A dispatcher that has returned has unsubscribed or returned its iterator.
THEOREM StreamsEnd == Spec => []StreamReleased
<1>1. DirectInv => StreamReleased
  BY DEF DirectInv, Sourced
<1> QED
  BY <1>1, DirectInvariance, PTL

\* Back pressure reaches an iterable: it is at most one item ahead.
THEOREM IterablesArePulled == Spec => []PulledOnDemand
<1>1. DirectInv => PulledOnDemand
  BY DEF DirectInv
<1> QED
  BY <1>1, DirectInvariance, PTL
=============================================================================
