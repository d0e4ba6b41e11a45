------------------------------- MODULE StubCall -------------------------------
(***************************************************************************)
(* The two transports of a typed call, as its link sees them: the Fetch    *)
(* transport of gRPC-Web (packages/runtime/src/web/fetch_call.ts) and the  *)
(* native client (packages/runtime/src/grpc/client.ts).  Both are handed a *)
(* request and an abort signal, and resolve with a message, or with an     *)
(* iterable of messages for a stream, or reject.                           *)
(*                                                                         *)
(* The peer is anything: over HTTP it may send messages and trailers in    *)
(* any number and order, malformed frames, or break off.  grpc-js lets     *)
(* only a well-formed call through.                                        *)
(***************************************************************************)
EXTENDS Naturals, Sequences

CONSTANTS
  MaxFrames,      \* bound on the frames of a response
  HttpStatuses    \* HTTP statuses other than 200

ASSUME StubCallAssumption == MaxFrames \in Nat /\ HttpStatuses \subseteq Nat \ {200}

VARIABLES
  kind,       \* unary or stream
  transport,  \* fetch or native
  aborted,    \* the signal in the request
  tpc,        \* where the transport stands
  live,       \* the request is in flight
  sent,       \* the frames the peer has sent
  frames,     \* those not yet taken out of the body
  body,       \* open, ended, broken, or missing
  first,      \* the message kept by a unary call, 0 if none
  last        \* the status kept by a unary call

stub == <<kind, transport, aborted, tpc, live, sent, frames, body, first, last>>

Message(n)  == <<"message", n>>
Trailers(s) == <<"trailers", s>>
Malformed   == <<"malformed">>

\* The status of a trailer, as far as a call tells them apart.
Statuses == {"OK", "FAILED"}

\* HTTP_STATUS_TO_GRPC_STATUS, for a response without grpc-status.
missingGrpcStatus(http) ==
  CASE http = 400 -> "INTERNAL"
    [] http = 401 -> "UNAUTHENTICATED"
    [] http = 403 -> "PERMISSION_DENIED"
    [] http = 404 -> "UNIMPLEMENTED"
    [] http \in {429, 502, 503, 504} -> "UNAVAILABLE"
    [] OTHER -> "UNKNOWN"

InitStub ==
  /\ kind \in {"unary", "stream"}
  /\ transport \in {"fetch", "native"}
  /\ aborted = FALSE
  /\ tpc = "idle"
  /\ live = FALSE
  /\ sent = <<>> /\ frames = <<>>
  /\ body = "open"
  /\ first = 0 /\ last = "none"

\* A call starts, or starts again: nothing has been read of its response.
Fresh ==
  /\ sent' = <<>> /\ frames' = <<>>
  /\ body' = "open"
  /\ first' = 0 /\ last' = "none"
  /\ UNCHANGED <<kind, transport>>

\* The response no longer concerns anyone.
Hangup == live' = FALSE

reading == <<sent, frames, body, first, last>>
given == <<kind, transport>>

-----------------------------------------------------------------------------
(* The peer *)

\* The peer's k-th message, a trailer, or a malformed frame; over grpc-js only
\* messages are frames.
Frame ==
  {Message(Len(sent) + 1)}
  \cup (IF transport = "fetch" THEN {Malformed} \cup {Trailers(s) : s \in Statuses}
        ELSE {})

PeerSends ==
  /\ live /\ body = "open" /\ Len(sent) < MaxFrames
  /\ tpc \in {"collecting", "open"}
  /\ \E f \in Frame : sent' = Append(sent, f) /\ frames' = Append(frames, f)
  /\ UNCHANGED <<given, aborted, tpc, live, body, first, last>>

\* The body ends, or the connection breaks, or grpc-js reports a failure.
PeerEnds ==
  /\ live /\ body = "open" /\ tpc \in {"collecting", "open"}
  /\ body' \in {"ended", "broken"}
  /\ Hangup
  /\ UNCHANGED <<given, aborted, tpc, sent, frames, first, last>>

-----------------------------------------------------------------------------
(* What the link is told of *)

\* `call(request)' rejects with this code.
Rejected(code) ==
  /\ tpc' = code
  /\ UNCHANGED <<given, aborted, reading>>

RejectCodes == {"INTERNAL", "UNAUTHENTICATED", "PERMISSION_DENIED", "UNIMPLEMENTED",
                "UNAVAILABLE", "UNKNOWN", "FAILED", "ERROR", "NETWORK", "ABORT"}

\* An abort ends a Fetch request at once, and a native stream whose listener
\* was added before the abort; a native unary call has no listener.
AbortStub ==
  /\ aborted' = TRUE
  /\ live' = (live /\ (aborted \/ (transport = "native" /\ kind = "unary")))
  /\ body' = IF live /\ ~live' /\ body = "open" THEN "broken" ELSE body
  /\ UNCHANGED <<given, tpc, sent, frames, first, last>>

-----------------------------------------------------------------------------
(* Fetch *)

\* The request message is being compressed and framed.
FetchEncode ==
  /\ transport = "fetch"
  /\ tpc' = "encoding"
  /\ Fresh
  /\ UNCHANGED <<aborted, live>>

\* [mutant] fetch is not given the signal
FetchSendAlways ==
  /\ tpc = "encoding"
  /\ tpc' = "waiting" /\ live' = TRUE /\ UNCHANGED <<given, aborted, reading>>

\* fetch() with a signal that has aborted rejects without a request.
FetchSend ==
  /\ tpc = "encoding"
  /\ IF aborted THEN Rejected("ABORT") /\ UNCHANGED live
     ELSE tpc' = "waiting" /\ live' = TRUE /\ UNCHANGED <<given, aborted, reading>>

\* A response head that is not 200 or names an unknown compression.
FetchRefused ==
  /\ tpc = "waiting" /\ transport = "fetch" /\ live
  /\ \/ \E s \in HttpStatuses : Rejected(missingGrpcStatus(s))
     \/ Rejected("ERROR")
  /\ UNCHANGED live

\* A 200: a stream is handed over unread, a unary body is read at once.
FetchAnswered ==
  /\ tpc = "waiting" /\ transport = "fetch" /\ live
  /\ tpc' = IF kind = "stream" THEN "open" ELSE "collecting"
  /\ body' \in {"open", "missing"}
  /\ UNCHANGED <<given, aborted, live, sent, frames, first, last>>

\* [mutant] the last message is kept
KeptLast(n) == n

\* message ??= value.payload
Kept(n) == IF first = 0 THEN n ELSE first

\* One frame of a unary body; a malformed one makes the decoder throw.
Collect ==
  /\ tpc = "collecting" /\ frames # <<>>
  /\ LET f == Head(frames)
     IN CASE f[1] = "message" -> /\ first' = Kept(f[2])
                                 /\ UNCHANGED <<tpc, last>>
          [] f[1] = "trailers" -> last' = f[2] /\ UNCHANGED <<tpc, first>>
          [] OTHER -> tpc' = "INTERNAL" /\ UNCHANGED <<first, last>>
  /\ frames' = Tail(frames)
  /\ UNCHANGED <<given, aborted, live, sent, body>>

\* [mutant] a body that breaks off is taken for one that ends
WholeOrBroken == body \in {"ended", "broken"}

\* The body has been read to its end.
Whole == body = "ended"

\* What a unary body comes to.
Verdict ==
  IF last = "none" THEN missingGrpcStatus(200)
  ELSE IF last # "OK" THEN last
  ELSE IF first = 0 THEN "INTERNAL"
  ELSE "resolved"

CollectEnds ==
  /\ tpc = "collecting" /\ frames = <<>> /\ Whole
  /\ tpc' = Verdict
  /\ UNCHANGED <<given, aborted, live, reading>>

\* A read rejects: no body, a broken connection, or the abort.
CollectFails ==
  /\ tpc = "collecting"
  /\ \/ body = "missing" /\ Rejected("INTERNAL")
     \/ frames = <<>> /\ body = "broken" /\ Rejected("NETWORK")
     \/ aborted /\ Rejected("ABORT")
  /\ UNCHANGED live

\* fetch() rejects before a response: no connection, or the abort.
FetchFails ==
  /\ tpc = "waiting" /\ transport = "fetch"
  /\ IF aborted THEN Rejected("ABORT") ELSE Rejected("NETWORK")
  /\ Hangup

-----------------------------------------------------------------------------
(* The native client *)

\* A server stream is handed over at once.  The listener that cancels it never
\* runs if the signal has aborted already.
NativeStream ==
  /\ transport = "native" /\ kind = "stream"
  /\ tpc' = "open" /\ live' = TRUE
  /\ Fresh /\ UNCHANGED aborted

\* A unary call waits for its callback.
NativeUnary ==
  /\ transport = "native" /\ kind = "unary"
  /\ tpc' = "waiting" /\ live' = TRUE
  /\ Fresh /\ UNCHANGED aborted

\* The callback, with an error or a message.  A message that does not decode
\* throws out of the callback: the call is never heard of again.
NativeCallback ==
  /\ tpc = "waiting" /\ transport = "native"
  /\ \/ tpc' = "FAILED" /\ UNCHANGED <<sent, first>>
     \/ tpc' = "resolved" /\ sent' = <<Message(1)>> /\ first' = 1
     \/ tpc' = "thrown" /\ UNCHANGED <<sent, first>>
  /\ Hangup
  /\ UNCHANGED <<given, aborted, frames, body, last>>

-----------------------------------------------------------------------------
(* The iterable of a stream *)

\* readGrpcWebStream, and the generator around a grpc-js stream: what the next
\* pull gives.
StreamNext ==
  IF frames # <<>>
  THEN LET f == Head(frames)
       IN IF f[1] = "message" THEN f
          ELSE IF f = Trailers("OK") THEN <<"end">>
          ELSE <<"throw", IF f = Malformed THEN "INTERNAL" ELSE f[2]>>
  ELSE CASE body = "open" -> <<"pending">>
         [] body = "ended" /\ transport = "native" -> <<"end">>
         [] body = "ended" -> <<"throw", missingGrpcStatus(200)>>
         [] body = "missing" -> <<"throw", "INTERNAL">>
         [] OTHER -> <<"throw", "NETWORK">>

\* The steps of the transports and of the peer that the link does not take.
StubStep ==
  \/ FetchSend \/ FetchRefused \/ FetchAnswered \/ Collect \/ CollectEnds
  \/ CollectFails \/ FetchFails \/ NativeCallback

PeerStep == PeerSends \/ PeerEnds
=============================================================================
