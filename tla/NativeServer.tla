----------------------------- MODULE NativeServer -----------------------------
(***************************************************************************)
(* serveGrpc (packages/runtime/src/grpc/server.ts): a tRPC router served   *)
(* over native gRPC, from binding the port to its graceful shutdown, with  *)
(* the unary and the streaming handler it binds for every procedure.       *)
(*                                                                         *)
(* grpc-js is external: it accepts calls while bound, tells a streaming    *)
(* handler that its caller has gone, ignores what is written to an ended   *)
(* call, and its tryShutdown waits for the calls it still has.             *)
(***************************************************************************)
EXTENDS Naturals, FiniteSets

CONSTANTS
  Calls,        \* the calls clients make
  Errors,       \* tRPC error codes, and "Error" for what is no TRPCError
  MaxItems      \* bound on the items of a stream

ASSUME NativeServerAssumption == MaxItems \in Nat

VARIABLES
  server,       \* none, binding, bound, rejected, stopping, stopped
  stub,         \* per call: its handler: none, unary, stream
  step,         \* per call: none, invoking, pulling, over
  source,       \* per call: what the procedure returned: none, active, ended, failed, released
  items,        \* per call: items the source has produced
  written,      \* per call: items the handler has written while the call lasted
  gone,         \* per call: ac.signal.aborted, the caller has cancelled
  ended         \* per call: how it ended for the caller, "none" before

native == <<server, stub, step, source, items, written, gone, ended>>
callVars == <<stub, step, source, items, written, gone, ended>>

InitNative ==
  /\ server = "none"
  /\ stub = [c \in Calls |-> "none"] /\ step = [c \in Calls |-> "none"]
  /\ source = [c \in Calls |-> "none"] /\ items = [c \in Calls |-> 0]
  /\ written = [c \in Calls |-> 0] /\ gone = [c \in Calls |-> FALSE]
  /\ ended = [c \in Calls |-> "none"]

-----------------------------------------------------------------------------
(* Errors *)

\* grpcStatus: the gRPC status of a tRPC error.
grpcStatus(error) ==
  CASE error \in {"PARSE_ERROR", "BAD_REQUEST", "UNPROCESSABLE_CONTENT",
                  "UNSUPPORTED_MEDIA_TYPE"} -> "INVALID_ARGUMENT"
    [] error = "UNAUTHORIZED" -> "UNAUTHENTICATED"
    [] error \in {"FORBIDDEN", "PAYMENT_REQUIRED"} -> "PERMISSION_DENIED"
    [] error = "NOT_FOUND" -> "NOT_FOUND"
    [] error = "CONFLICT" -> "ALREADY_EXISTS"
    [] error \in {"PRECONDITION_FAILED", "PRECONDITION_REQUIRED"} -> "FAILED_PRECONDITION"
    [] error \in {"PAYLOAD_TOO_LARGE", "TOO_MANY_REQUESTS"} -> "RESOURCE_EXHAUSTED"
    [] error \in {"TIMEOUT", "GATEWAY_TIMEOUT"} -> "DEADLINE_EXCEEDED"
    [] error = "CLIENT_CLOSED_REQUEST" -> "CANCELLED"
    [] error \in {"METHOD_NOT_SUPPORTED", "NOT_IMPLEMENTED"} -> "UNIMPLEMENTED"
    [] error \in {"SERVICE_UNAVAILABLE", "BAD_GATEWAY"} -> "UNAVAILABLE"
    [] error = "INTERNAL_SERVER_ERROR" -> "INTERNAL"
    [] OTHER -> "UNKNOWN"

\* toServiceError.
toServiceError(error) == IF error = "Error" THEN "UNKNOWN" ELSE grpcStatus(error)

\* A call ends for its caller once; what comes later has no effect.
EndCall(c, how) ==
  ended' = [ended EXCEPT ![c] = IF @ = "none" THEN how ELSE @]

-----------------------------------------------------------------------------
(* The server *)

\* bindAsync.
Bind ==
  /\ server = "none"
  /\ server' = "binding"
  /\ UNCHANGED callVars

\* Its callback: bound, or serveGrpc rejects.
Bound ==
  /\ server = "binding"
  /\ server' \in {"bound", "rejected"}
  /\ UNCHANGED callVars

\* close(): no call is accepted any more.
Close ==
  /\ server = "bound"
  /\ server' = "stopping"
  /\ UNCHANGED callVars

\* tryShutdown calls back once no call is left, and close() resolves.
Stopped ==
  /\ server = "stopping"
  /\ \A c \in Calls : step[c] # "none" => ended[c] # "none"
  /\ server' = "stopped"
  /\ UNCHANGED callVars

-----------------------------------------------------------------------------
(* Handlers *)

\* A call arrives and its handler invokes the procedure.
Accept(c) ==
  /\ server = "bound" /\ step[c] = "none"
  /\ \E k \in {"unary", "stream"} : stub' = [stub EXCEPT ![c] = k]
  /\ step' = [step EXCEPT ![c] = "invoking"]
  /\ UNCHANGED <<server, source, items, written, gone, ended>>

\* The caller cancels; only a streaming handler is told.
Cancel(c) ==
  /\ step[c] # "none" /\ ended[c] = "none"
  /\ gone' = [gone EXCEPT ![c] = stub[c] = "stream"]
  /\ EndCall(c, "CANCELLED")
  /\ UNCHANGED <<server, stub, step, source, items, written>>

\* The procedure of a unary call answers.
AnswerUnary(c) ==
  /\ step[c] = "invoking" /\ stub[c] = "unary"
  /\ step' = [step EXCEPT ![c] = "over"]
  /\ written' = [written EXCEPT ![c] = IF ended[c] = "none" THEN 1 ELSE 0]
  /\ EndCall(c, "OK")
  /\ UNCHANGED <<server, stub, source, items, gone>>

\* The procedure throws, before it returned a stream.
Throws(c, error) ==
  /\ step[c] = "invoking"
  /\ step' = [step EXCEPT ![c] = "over"]
  /\ source' = [source EXCEPT ![c] = "failed"]
  /\ IF gone[c] THEN UNCHANGED ended ELSE EndCall(c, toServiceError(error))
  /\ UNCHANGED <<server, stub, items, written, gone>>

\* A subscription returns its stream.
Subscribe(c) ==
  /\ step[c] = "invoking" /\ stub[c] = "stream"
  /\ step' = [step EXCEPT ![c] = "pulling"]
  /\ source' = [source EXCEPT ![c] = "active"]
  /\ UNCHANGED <<server, stub, items, written, gone, ended>>

\* [mutant] an item for a caller who has gone is written, and the loop goes on
ItemRegardless(c) ==
  /\ step[c] = "pulling" /\ items[c] < MaxItems
  /\ items' = [items EXCEPT ![c] = @ + 1]
  /\ written' = [written EXCEPT ![c] = IF ended[c] = "none" THEN @ + 1 ELSE @]
  /\ UNCHANGED <<server, stub, step, source, gone, ended>>

\* The next item: written, or the loop breaks for a caller who has gone, which
\* releases the stream and ends the call.
Item(c) ==
  /\ step[c] = "pulling" /\ items[c] < MaxItems
  /\ items' = [items EXCEPT ![c] = @ + 1]
  /\ IF gone[c]
     THEN /\ source' = [source EXCEPT ![c] = "released"]
          /\ step' = [step EXCEPT ![c] = "over"]
          /\ EndCall(c, "OK")
          /\ UNCHANGED written
     ELSE /\ written' = [written EXCEPT ![c] = IF ended[c] = "none" THEN @ + 1 ELSE @]
          /\ UNCHANGED <<source, step, ended>>
  /\ UNCHANGED <<server, stub, gone>>

\* The stream ends, and the call with it.
SourceEnds(c) ==
  /\ step[c] = "pulling"
  /\ source' = [source EXCEPT ![c] = "ended"]
  /\ step' = [step EXCEPT ![c] = "over"]
  /\ EndCall(c, "OK")
  /\ UNCHANGED <<server, stub, items, written, gone>>

\* [mutant] a stream that fails ends its call
SourceFailsSilently(c, error) ==
  /\ step[c] = "pulling"
  /\ source' = [source EXCEPT ![c] = "failed"]
  /\ step' = [step EXCEPT ![c] = "over"]
  /\ EndCall(c, "OK")
  /\ UNCHANGED <<server, stub, items, written, gone>>

\* It fails; the error of a caller who has gone is swallowed.
SourceFails(c, error) ==
  /\ step[c] = "pulling"
  /\ source' = [source EXCEPT ![c] = "failed"]
  /\ step' = [step EXCEPT ![c] = "over"]
  /\ IF gone[c] THEN UNCHANGED ended ELSE EndCall(c, toServiceError(error))
  /\ UNCHANGED <<server, stub, items, written, gone>>

Fails(c) == \E e \in Errors : Throws(c, e) \/ SourceFails(c, e)

Handler(c) ==
  Accept(c) \/ AnswerUnary(c) \/ Subscribe(c) \/ Item(c) \/ SourceEnds(c) \/ Fails(c)

NativeNext ==
  \/ Bind \/ Bound \/ Close \/ Stopped
  \/ \E c \in Calls : Handler(c) \/ Cancel(c)

NativeSpec == InitNative /\ [][NativeNext]_native

\* Procedures answer, and streams end, fail or, once their caller has gone,
\* produce another item, some time.
FairNative ==
  /\ \A c \in Calls : WF_native(AnswerUnary(c) \/ Subscribe(c) \/ Fails(c) \/ SourceEnds(c))
  /\ WF_native(Stopped)
-----------------------------------------------------------------------------
(* Properties *)

\* How a call ends is the truth: OK only for a procedure that answered or a stream
\* that ran dry, with all its items written; an error only for one that failed,
\* and never OK for it.
HonestEnd ==
  \A c \in Calls :
    /\ ended[c] = "OK" =>
         /\ step[c] = "over" /\ source[c] \in {"none", "ended"}
         /\ written[c] = IF stub[c] = "unary" THEN 1 ELSE items[c]
    /\ ended[c] \notin {"none", "OK", "CANCELLED"} => source[c] = "failed"

\* A handler that is done holds no stream, and one whose caller has gone takes at
\* most one more item from it.
StreamsReleased ==
  \A c \in Calls :
    /\ step[c] = "over" => source[c] # "active"
    /\ gone[c] => items[c] <= written[c] + 1

\* close() resolves, if streams end.
CloseResolves == server = "stopping" ~> server = "stopped"
=============================================================================
