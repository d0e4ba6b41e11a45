----------------------------- MODULE HttpExchange -----------------------------
(***************************************************************************)
(* One gRPC-Web exchange as the HTTP handler sees it                       *)
(* (packages/runtime/src/web/http_handler.ts): the request is decoded, the *)
(* call is handed to a dispatcher, the messages the dispatcher emits are   *)
(* written under back pressure, and a trailer frame ends the response.     *)
(* The browser may close the connection at any time.                       *)
(*                                                                         *)
(* The dispatchers (ForwardGateway) extend this module.  A message is its  *)
(* position in the dispatcher's answer.                                    *)
(***************************************************************************)
EXTENDS Naturals, Sequences

CONSTANTS HighWater    \* frames the response buffers before write() is false

ASSUME HighWaterAssumption == HighWater \in Nat \ {0}

VARIABLES
  hpc,        \* where handleGrpcWebHttpRequest stands
  conn,       \* the browser's connection; closed = response.destroyed
  listening,  \* the close listeners are attached
  callEnded,  \* `callEnded' of the handler
  aborted,    \* abortController.signal.aborted
  headSent,   \* response.headersSent
  ended,      \* response.writableEnded
  wire,       \* what has been written to the response
  buffered,   \* frames the response still holds back
  epc,        \* where the emit callback stands
  payload     \* the message being emitted, 0 if none

exchange == <<hpc, conn, listening, callEnded, aborted, headSent, ended, wire,
              buffered, epc, payload>>

HeadFrame      == <<"head">>
Message(n)     == <<"message", n>>
Trailer(code)  == <<"trailer", code>>

\* Status codes, as far as the exchange tells them apart.
Codes == {"OK", "FAILED", "CANCELLED", "UNIMPLEMENTED", "INTERNAL"}

InitExchange ==
  /\ hpc = "start"
  /\ conn = "open"
  /\ listening = FALSE
  /\ callEnded = FALSE
  /\ aborted = FALSE
  /\ headSent = FALSE
  /\ ended = FALSE
  /\ wire = <<>>
  /\ buffered = 0
  /\ epc = "idle"
  /\ payload = 0

Gone == ended \/ conn = "closed"

-----------------------------------------------------------------------------
(* The browser's side of the connection *)

\* cancelCall, the listener of `aborted' and `close'.
Cancels == listening /\ ~callEnded

\* The connection closes and the signal aborts while the call lasts.
CloseConnection ==
  /\ conn = "open"
  /\ conn' = "closed"
  /\ aborted' = (aborted \/ Cancels)
  /\ UNCHANGED <<hpc, listening, callEnded, headSent, ended, wire, buffered, epc,
                 payload>>

\* The network takes a frame from the response.
Transmit ==
  /\ conn = "open" /\ buffered > 0
  /\ buffered' = buffered - 1
  /\ UNCHANGED <<hpc, conn, listening, callEnded, aborted, headSent, ended, wire,
                 epc, payload>>

-----------------------------------------------------------------------------
(* Before the dispatch *)

\* A preflight, a foreign origin or a path that is not gRPC-Web gets an HTTP
\* status and no body.
Refuse ==
  /\ hpc = "start"
  /\ hpc' = "done"
  /\ IF conn = "closed" THEN UNCHANGED <<headSent, wire>>
     ELSE headSent' = TRUE /\ wire' = <<HeadFrame>>
  /\ ended' = TRUE
  /\ UNCHANGED <<conn, listening, callEnded, aborted, buffered, epc, payload>>

\* readBody() has the whole body; a compressed message is still to be inflated.
ReadBody ==
  /\ hpc = "start" /\ conn = "open"
  /\ hpc' = "decoding"
  /\ UNCHANGED <<conn, listening, callEnded, aborted, headSent, ended, wire,
                 buffered, epc, payload>>

\* The catch clause has checked the response and encodes an INTERNAL trailer.
Fail ==
  /\ hpc' = IF Gone THEN "done" ELSE "failing"
  /\ UNCHANGED <<conn, aborted, headSent, ended, wire, buffered, epc, payload>>

\* The body breaks off, is malformed, or is not one data frame.
BadRequest ==
  /\ \/ hpc = "start" /\ conn = "closed"
     \/ hpc = "decoding"
  /\ Fail
  /\ UNCHANGED <<listening, callEnded>>

\* The message is decoded: attach the listeners, write the head and dispatch.
BeginDispatch ==
  /\ hpc = "decoding"
  /\ hpc' = "dispatching"
  /\ listening' = TRUE
  /\ headSent' = TRUE
  /\ wire' = IF conn = "open" THEN <<HeadFrame>> ELSE <<>>
  /\ UNCHANGED <<conn, callEnded, aborted, ended, buffered, epc, payload>>

\* The call throws before it is made: its URL is none, or the dispatcher throws at
\* once.  The finally clause has detached the listeners again, and Fail's trailer
\* ends a response whose head is out.
DispatchThrows ==
  /\ hpc = "decoding"
  /\ hpc' = IF Gone THEN "done" ELSE "failing"
  /\ callEnded' = TRUE
  /\ headSent' = TRUE
  /\ wire' = IF conn = "open" THEN <<HeadFrame>> ELSE <<>>
  /\ UNCHANGED <<conn, listening, aborted, ended, buffered, epc, payload>>

-----------------------------------------------------------------------------
(* emit: one message at a time; the dispatcher awaits it *)

\* emit drops the message when nobody will read it.
EmitDropped == aborted \/ Gone

\* emit starts to encode message n (a gzip stream in general).
EmitStart(n) ==
  /\ epc' = "encoding"
  /\ payload' = n
  /\ UNCHANGED <<hpc, conn, listening, callEnded, aborted, headSent, ended, wire,
                 buffered>>

EmitEnds == epc' = "idle" /\ payload' = 0

\* The encoded frame is written, unless the response is gone by now.
Written ==
  IF Gone THEN UNCHANGED <<wire, buffered>>
  ELSE /\ wire' = Append(wire, Message(payload))
       /\ buffered' = buffered + 1

\* [mutant] takes write() for true
WriteFitsAlways == ~Gone

WriteFits == ~Gone /\ buffered + 1 < HighWater

\* write() returns true and emit resolves.
EmitWrite ==
  /\ epc = "encoding" /\ WriteFits
  /\ Written
  /\ EmitEnds
  /\ UNCHANGED <<hpc, conn, listening, callEnded, aborted, headSent, ended>>

\* write() returns false: emit waits for `drain' ...
EmitBlocks ==
  /\ epc = "encoding" /\ ~WriteFits /\ ~aborted
  /\ Written
  /\ epc' = "draining"
  /\ UNCHANGED <<hpc, conn, listening, callEnded, aborted, headSent, ended, payload>>

\* ... which comes once the response has been taken ...
EmitDrained ==
  /\ epc = "draining" /\ buffered = 0 /\ conn = "open"
  /\ EmitEnds
  /\ UNCHANGED <<hpc, conn, listening, callEnded, aborted, headSent, ended, wire,
                 buffered>>

\* [mutant] once() is not given the signal
EmitRejectedNever == FALSE

\* ... or the signal ends the wait, before or after the write: emit rejects.
EmitRejected ==
  /\ aborted
  /\ \/ epc = "encoding" /\ ~WriteFits /\ Written
     \/ epc = "draining" /\ UNCHANGED <<wire, buffered>>
  /\ EmitEnds
  /\ UNCHANGED <<hpc, conn, listening, callEnded, aborted, headSent, ended>>

-----------------------------------------------------------------------------
(* After the dispatch *)

\* The finally clause around the dispatch.
Detach ==
  /\ listening' = FALSE
  /\ callEnded' = TRUE

\* The dispatcher has resolved: encode the trailer if anyone will read it.
DispatchResolved ==
  /\ hpc = "dispatching"
  /\ Detach
  /\ hpc' = IF aborted \/ Gone THEN "done" ELSE "trailer"
  /\ UNCHANGED <<conn, aborted, headSent, ended, wire, buffered, epc, payload>>

\* The dispatcher has rejected: the catch clause takes over.
DispatchRejected ==
  /\ hpc = "dispatching"
  /\ Detach
  /\ Fail

\* response.end(trailer): the last frame.
EndResponse(code) ==
  /\ hpc \in {"trailer", "failing"}
  /\ hpc' = "done"
  /\ ended' = TRUE
  /\ headSent' = TRUE
  /\ wire' = IF conn = "closed" THEN wire
             ELSE IF headSent THEN Append(wire, Trailer(code))
             ELSE <<HeadFrame, Trailer(code)>>
  /\ UNCHANGED <<conn, listening, callEnded, aborted, buffered, epc, payload>>
-----------------------------------------------------------------------------
(* Properties of the response *)

ExchangeTypeOK ==
  /\ hpc \in {"start", "decoding", "dispatching", "trailer", "failing", "done"}
  /\ conn \in {"open", "closed"}
  /\ listening \in BOOLEAN
  /\ callEnded \in BOOLEAN
  /\ aborted \in BOOLEAN
  /\ headSent \in BOOLEAN
  /\ ended \in BOOLEAN
  /\ wire \in Seq({HeadFrame} \cup ({"message"} \X Nat) \cup ({"trailer"} \X Codes))
  /\ buffered \in Nat
  /\ epc \in {"idle", "encoding", "draining"}
  /\ payload \in Nat

\* The messages of the response, and its trailers, by position.
MessageAt == {i \in DOMAIN wire : wire[i][1] = "message"}
TrailerAt == {i \in DOMAIN wire : wire[i][1] = "trailer"}

\* The response is a gRPC-Web body: one head, the messages in the order the
\* dispatcher emitted them, and at the very end a trailer.
WireGrammar ==
  \A i \in DOMAIN wire :
    /\ wire[i] = HeadFrame <=> i = 1
    /\ i \in MessageAt => wire[i] = Message(i - 1)
    /\ i \in TrailerAt => i = Len(wire) /\ ended

\* Back pressure: emit waits for the response to drain when it is full.
BoundedBuffer == buffered <= HighWater
=============================================================================
