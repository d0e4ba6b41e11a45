----------------------------- MODULE DirectGateway ----------------------------
(***************************************************************************)
(* The HTTP handler in front of the tRPC router of its own process: the    *)
(* exchange of HttpExchange composed with the direct dispatcher            *)
(* (packages/runtime/src/web/dispatchers/direct.ts) and the bridge that    *)
(* turns what a procedure returns into an async iterable                   *)
(* (packages/runtime/src/router_invoker.ts).  An observable pushes into    *)
(* the bridge's buffer whenever it likes; the dispatcher pulls, and awaits *)
(* each emit before it pulls again.                                        *)
(***************************************************************************)
EXTENDS HttpExchange, FiniteSets

CONSTANTS MaxItems   \* bound on the items a procedure produces

VARIABLES
  kind,      \* what the procedure returned: none, value, iterable, observable
  source,    \* the stream it returned: none, active, ended, released
  produced,  \* items it has produced
  pending,   \* `pending' of the bridge
  failure,   \* `failure' of the bridge: none, error, or a falsy value
  woken,     \* the promise behind `notify' has been resolved
  dpc,       \* where the dispatcher stands
  status     \* what it resolves with

dispatcher == <<kind, source, produced, pending, failure, woken, dpc, status>>
vars == <<exchange, dispatcher>>

Init ==
  /\ InitExchange
  /\ kind = "none"
  /\ source = "none"
  /\ produced = 0
  /\ pending = <<>>
  /\ failure = "none"
  /\ woken = FALSE
  /\ dpc = "none"
  /\ status = "none"

-----------------------------------------------------------------------------
(* The HTTP handler's own steps *)

Close == CloseConnection /\ UNCHANGED dispatcher

Handle ==
  /\ Transmit \/ Refuse \/ ReadBody \/ BadRequest \/ DispatchThrows
  /\ UNCHANGED dispatcher

\* The handler dispatches to a procedure ...
Invoke ==
  /\ BeginDispatch
  /\ dpc' = "invoking"
  /\ UNCHANGED <<kind, source, produced, pending, failure, woken, status>>

\* ... or there is no such method.
NoRoute ==
  /\ BeginDispatch
  /\ dpc' = "returned"
  /\ status' = "UNIMPLEMENTED"
  /\ UNCHANGED <<kind, source, produced, pending, failure, woken>>

-----------------------------------------------------------------------------
(* The procedure and the stream it returns *)

\* A value: one item, and no more to come.
ReturnsValue ==
  /\ dpc = "invoking"
  /\ dpc' = "pulling"
  /\ kind' = "value"
  /\ produced' = 1
  /\ pending' = <<1>>
  /\ UNCHANGED <<exchange, source, failure, woken, status>>

\* An async iterable, which waits to be pulled, or an observable, to which the
\* bridge subscribes.
ReturnsStream(k) ==
  /\ dpc = "invoking"
  /\ dpc' = "pulling"
  /\ kind' = k
  /\ source' = "active"
  /\ UNCHANGED <<exchange, produced, pending, failure, woken, status>>

\* The input does not decode, or the context or the procedure throws.
Throws ==
  /\ dpc = "invoking"
  /\ dpc' = "returned"
  /\ status' = "FAILED"
  /\ UNCHANGED <<exchange, kind, source, produced, pending, failure, woken>>

\* [mutant] the bridge reads an iterable ahead
MayActAhead == source = "active"

\* An observable is free to act; an iterable acts when it is pulled.
MayAct ==
  /\ source = "active"
  /\ kind = "iterable" => dpc = "waiting" /\ ~woken

\* [mutant] one item is kept, the latest
BufferedLatest(n) == <<n>>

\* `next' of the bridge's observer.
Buffered(n) == Append(pending, n)

\* [mutant] only an item wakes the dispatcher
NotifyItem == woken' = (woken \/ produced' # produced)

\* notify?.(), in every callback.
Notify == woken' = TRUE

Item ==
  /\ MayAct /\ produced < MaxItems
  /\ produced' = produced + 1
  /\ pending' = Buffered(produced')
  /\ UNCHANGED <<exchange, kind, source, failure, dpc, status>>
  /\ Notify

\* `complete', or `error' with a value that may be falsy; what an iterable
\* throws is always an error.
Ends(f) ==
  /\ MayAct
  /\ kind = "iterable" => f # "falsy"
  /\ source' = "ended"
  /\ failure' = f
  /\ UNCHANGED <<exchange, kind, produced, pending, dpc, status>>
  /\ Notify

Source == Item \/ \E f \in {"none", "error", "falsy"} : Ends(f)

-----------------------------------------------------------------------------
(* The dispatcher *)

\* [mutant] the subscription outlives the loop
ReleaseNever == UNCHANGED source

\* The finally clause of the bridge, or return() of the iterator.
Release == source' = IF source = "active" THEN "released" ELSE source

\* The dispatcher leaves its loop with this status.
Leave(code) ==
  /\ dpc' = "returned"
  /\ status' = code
  /\ Release
  /\ UNCHANGED <<kind, produced, failure, woken>>

\* The status of a call nothing was thrown in.
Outcome == IF aborted THEN "CANCELLED" ELSE "OK"

\* An item is there, the signal has not aborted: emit it.
PullItem ==
  /\ dpc = "pulling" /\ pending # <<>> /\ ~aborted
  /\ pending' = Tail(pending)
  /\ dpc' = IF EmitDropped THEN "pulling" ELSE "emitting"
  /\ IF EmitDropped THEN UNCHANGED exchange ELSE EmitStart(Head(pending))
  /\ UNCHANGED <<kind, source, produced, failure, woken, status>>

\* ... or it does not encode as the declared output.
PullThrows ==
  /\ dpc = "pulling" /\ pending # <<>> /\ ~aborted
  /\ pending' = Tail(pending)
  /\ Leave("FAILED")
  /\ UNCHANGED exchange

\* An item is there and the signal has aborted: break (a value would be dropped
\* by emit).
PullAborted ==
  /\ dpc = "pulling" /\ pending # <<>> /\ aborted
  /\ pending' = Tail(pending)
  /\ Leave("CANCELLED")
  /\ UNCHANGED exchange

\* No item, and the stream goes on: wait for `notify'.
PullWaits ==
  /\ dpc = "pulling" /\ pending = <<>> /\ source = "active"
  /\ dpc' = "waiting"
  /\ woken' = FALSE
  /\ UNCHANGED <<exchange, kind, source, produced, pending, failure, status>>

Wake ==
  /\ dpc = "waiting" /\ woken
  /\ dpc' = "pulling"
  /\ UNCHANGED <<exchange, kind, source, produced, pending, failure, woken, status>>

\* [mutant] stops as soon as the stream has ended, whatever is still buffered
ExhaustedEarly == source # "active"

\* while (!done || pending.length > 0) is over.
Exhausted == pending = <<>> /\ source # "active"

\* The stream is exhausted; `if (failure) throw failure'.
PullEnds ==
  /\ dpc = "pulling" /\ Exhausted
  /\ Leave(IF failure = "error" THEN "FAILED" ELSE Outcome)
  /\ UNCHANGED <<exchange, pending>>

\* The emit goes on ...
EmitWaits ==
  /\ EmitBlocks
  /\ UNCHANGED dispatcher

\* ... and resolves ...
EmitResolves ==
  /\ EmitWrite \/ EmitDrained
  /\ dpc' = "pulling"
  /\ UNCHANGED <<kind, source, produced, pending, failure, woken, status>>

\* ... or rejects, which ends the loop.
EmitFails ==
  /\ EmitRejected
  /\ Leave("FAILED")
  /\ UNCHANGED pending

\* The dispatcher has returned; its catch clause lets nothing through.
Complete ==
  /\ dpc = "returned"
  /\ DispatchResolved
  /\ UNCHANGED dispatcher

\* The last frame: the call's status, or INTERNAL from the catch clause.
End ==
  /\ EndResponse(IF hpc = "failing" THEN "INTERNAL" ELSE status)
  /\ UNCHANGED dispatcher
-----------------------------------------------------------------------------
Dispatch ==
  \/ PullItem \/ PullThrows \/ PullAborted \/ PullWaits \/ Wake \/ PullEnds
  \/ EmitWaits \/ EmitResolves \/ EmitFails
  \/ Complete \/ End

Procedure ==
  \/ ReturnsValue \/ Throws
  \/ \E k \in {"iterable", "observable"} : ReturnsStream(k)

Next == Close \/ Handle \/ Invoke \/ NoRoute \/ Procedure \/ Source \/ Dispatch

Spec == Init /\ [][Next]_vars

\* The event loop runs what is ready, procedures return, no stream stays silent
\* for ever, and a browser that stays reads.
Fairness ==
  /\ WF_vars(Dispatch)
  /\ WF_vars(Procedure)
  /\ WF_vars(Source)
  /\ WF_vars(Transmit /\ UNCHANGED dispatcher)

FairSpec == Spec /\ Fairness
-----------------------------------------------------------------------------
(* Properties *)

DispatcherTypeOK ==
  /\ kind \in {"none", "value", "iterable", "observable"}
  /\ source \in {"none", "active", "ended", "released"}
  /\ produced \in Nat
  /\ pending \in Seq(Nat)
  /\ failure \in {"none", "error", "falsy"}
  /\ woken \in BOOLEAN
  /\ dpc \in {"none", "invoking", "pulling", "waiting", "emitting", "returned"}
  /\ status \in Codes \cup {"none"}

TypeOK == ExchangeTypeOK /\ DispatcherTypeOK

\* An OK trailer tells the browser it has everything: every item the procedure
\* produced is on the wire before it, its stream had ended, and not with an
\* error - except one the bridge takes for none because it is falsy.
OkMeansComplete ==
  \A i \in TrailerAt : wire[i] = Trailer("OK") =>
    /\ Len(wire) = produced + 2
    /\ source \in {"none", "ended"}
    /\ failure # "error"

\* No stream is left running by a dispatcher that has returned, whether it ran
\* out, broke off, or was thrown out of its loop.
StreamReleased == dpc = "returned" => source # "active"

\* Back pressure reaches an iterable: while the browser stays, it is never more
\* than one item ahead of what the response has accepted.
PulledOnDemand ==
  kind = "iterable" /\ conn = "open" => produced <= Cardinality(MessageAt) + 1

\* Once the signal has aborted, the handler returns with the next thing the
\* stream does.
AbortReturns == aborted ~> hpc = "done"

\* Once the stream has ended, the handler returns: no wake-up is lost between the
\* observer's callbacks and the dispatcher's wait.
EndReturns == source = "ended" ~> hpc = "done"
=============================================================================
