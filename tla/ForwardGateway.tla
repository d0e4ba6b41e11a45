---------------------------- MODULE ForwardGateway ----------------------------
(***************************************************************************)
(* The HTTP handler in front of a native gRPC backend: the exchange of     *)
(* HttpExchange composed with the forwarding dispatcher                    *)
(* (packages/runtime/src/web/dispatchers/forward.ts) and the grpc-js call  *)
(* it makes.  The dispatcher chains one emit per `data' event and settles  *)
(* on the `status' event, after the chain.                                 *)
(***************************************************************************)
EXTENDS HttpExchange

CONSTANTS MaxMessages   \* bound on the messages a backend streams

VARIABLES
  streaming,   \* route.responseStream
  up,          \* the backend call: none, active or ended
  cancelled,   \* call.cancel() has been called
  dataEvents,  \* `data' events so far, or the unary response
  queue,       \* emits chained on `writes' and not yet started
  broken,      \* the chain of writes has rejected
  status       \* the result completionForCall settles with

upstream == <<streaming, up, cancelled, dataEvents, queue, broken, status>>
vars == <<exchange, upstream>>

\* The backend's own codes are OK and anything else.
BackendCodes == {"OK", "FAILED"}

Init ==
  /\ InitExchange
  /\ streaming \in BOOLEAN
  /\ up = "none"
  /\ cancelled = FALSE
  /\ dataEvents = 0
  /\ queue = <<>>
  /\ broken = FALSE
  /\ status = "none"

-----------------------------------------------------------------------------
(* The HTTP handler's own steps *)

\* The connection closes; the dispatcher's listener cancels the call unless
\* its status has come.
Close ==
  /\ CloseConnection
  /\ cancelled' = (cancelled \/ (aborted' /\ up = "active"))
  /\ UNCHANGED <<streaming, up, dataEvents, queue, broken, status>>

\* Steps that concern the exchange alone.
Handle ==
  /\ Transmit \/ Refuse \/ ReadBody \/ BadRequest \/ DispatchThrows
  /\ UNCHANGED upstream

\* The handler dispatches to a method of the schema: the call is made ...
MakeCall ==
  /\ BeginDispatch
  /\ up' = "active"
  /\ UNCHANGED <<streaming, cancelled, dataEvents, queue, broken, status>>

\* ... or there is no such method.
NoRoute ==
  /\ BeginDispatch
  /\ up' = "ended"
  /\ status' = "UNIMPLEMENTED"
  /\ UNCHANGED <<streaming, cancelled, dataEvents, queue, broken>>

-----------------------------------------------------------------------------
(* Events of the backend call *)

\* A `data' event chains one more emit.
Data ==
  /\ up = "active" /\ streaming /\ dataEvents < MaxMessages
  /\ dataEvents' = dataEvents + 1
  /\ queue' = IF broken THEN queue ELSE Append(queue, dataEvents + 1)
  /\ UNCHANGED <<exchange, streaming, up, cancelled, broken, status>>

\* The `status' event of a stream.
StreamStatus(code) ==
  /\ up = "active" /\ streaming
  /\ up' = "ended"
  /\ status' = code
  /\ UNCHANGED <<exchange, streaming, cancelled, dataEvents, queue, broken>>

\* The callback of a unary call with its response, then the status.
UnaryResponse ==
  /\ up = "active" /\ ~streaming
  /\ up' = "ended"
  /\ dataEvents' = 1
  /\ queue' = <<1>>
  /\ status' = "OK"
  /\ UNCHANGED <<exchange, streaming, cancelled, broken>>

\* The callback of a unary call with an error, whose code wins over the status.
UnaryError(code) ==
  /\ up = "active" /\ ~streaming
  /\ up' = "ended"
  /\ status' = code
  /\ UNCHANGED <<exchange, streaming, cancelled, dataEvents, queue, broken>>

\* A cancelled call ends with CANCELLED, unless it was ending already.
CallCancelled ==
  /\ cancelled
  /\ StreamStatus("CANCELLED") \/ UnaryError("CANCELLED")

CallEnds ==
  \/ \E code \in BackendCodes : StreamStatus(code)
  \/ UnaryResponse \/ UnaryError("FAILED")

-----------------------------------------------------------------------------
(* The chain of writes *)

\* [mutant] the newest emit runs first
NewestWrite == queue[Len(queue)]

\* The emit the chain runs next.
NextWrite == Head(queue)

\* The next emit of the chain starts, or drops its message at once.
WriteNext ==
  /\ queue # <<>> /\ epc = "idle" /\ ~broken
  /\ IF EmitDropped THEN UNCHANGED exchange ELSE EmitStart(NextWrite)
  /\ queue' = Tail(queue)
  /\ UNCHANGED <<streaming, up, cancelled, dataEvents, broken, status>>

\* The emit goes on and resolves.
Emit ==
  /\ EmitWrite \/ EmitBlocks \/ EmitDrained
  /\ UNCHANGED upstream

\* The emit rejects, and with it the rest of the chain.
WriteFails ==
  /\ EmitRejected
  /\ broken' = TRUE
  /\ queue' = <<>>
  /\ UNCHANGED <<streaming, up, cancelled, dataEvents, status>>

\* [mutant] the status does not wait for the writes
SettlesEarly == up = "ended"

\* [mutant] the status event is not waited for
SettlesUnasked == up # "none" /\ queue = <<>> /\ epc = "idle"

\* completionForCall settles: the status has come and the writes are done.
Settles == up = "ended" /\ queue = <<>> /\ epc = "idle"

Complete ==
  /\ Settles
  /\ IF broken THEN DispatchRejected ELSE DispatchResolved
  /\ UNCHANGED upstream

\* The last frame carries the call's status, or INTERNAL from the catch clause.
End ==
  /\ EndResponse(IF hpc = "failing" THEN "INTERNAL" ELSE status)
  /\ UNCHANGED upstream

-----------------------------------------------------------------------------
Gateway == WriteNext \/ Emit \/ WriteFails \/ Complete \/ End

Next ==
  \/ Close \/ Handle \/ MakeCall \/ NoRoute
  \/ Data \/ CallEnds \/ CallCancelled
  \/ Gateway

Spec == Init /\ [][Next]_vars

\* The event loop runs what is ready, and grpc-js reports a cancelled call.
Fairness ==
  /\ WF_vars(Gateway)
  /\ WF_vars(CallCancelled)

FairSpec == Spec /\ Fairness
-----------------------------------------------------------------------------
(* Properties *)

UpstreamTypeOK ==
  /\ streaming \in BOOLEAN /\ cancelled \in BOOLEAN /\ broken \in BOOLEAN
  /\ up \in {"none", "active", "ended"}
  /\ dataEvents \in Nat
  /\ queue \in Seq(Nat)
  /\ status \in Codes \cup {"none"}

TypeOK == ExchangeTypeOK /\ UpstreamTypeOK

\* A trailer tells the truth: it carries the status of the call, after every
\* message the call has delivered; INTERNAL from the catch clause only ever
\* stands for a request no backend call was made for.
TruthfulTrailer ==
  \A i \in TrailerAt :
    \/ /\ wire[i] = Trailer(status)
       /\ Len(wire) = dataEvents + 2
    \/ /\ wire[i] = Trailer("INTERNAL")
       /\ up = "none" /\ MessageAt = {}

\* Once the signal has aborted, the handler returns: neither the chain of
\* writes nor a wait for `drain' holds it back.
AbortReturns == aborted ~> hpc = "done"

\* Once the backend call has ended, the handler returns, whether or not the
\* browser is still there.
EndReturns == up = "ended" ~> hpc = "done"

\* The fairness EndReturns needs besides: a browser that stays reads.
ReadingSpec == FairSpec /\ WF_vars(Transmit /\ UNCHANGED upstream)

\* GRPC_WEB.md: when the response closes before the backend call finishes, the
\* handler cancels that call.
ClosedCallIsCancelled == conn = "closed" /\ up = "active" => cancelled
=============================================================================
