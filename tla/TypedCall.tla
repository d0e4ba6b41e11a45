------------------------------ MODULE TypedCall -------------------------------
(***************************************************************************)
(* One call through the typed link (packages/runtime/src/grpc/             *)
(* proto_link.ts), with the interceptors in front of its transport, the    *)
(* transport itself (StubCall) and the observable tRPC gives the link: its *)
(* observer hears nothing after a terminal event or after it has left, and *)
(* then the link's teardown runs.                                          *)
(***************************************************************************)
EXTENDS StubCall

CONSTANTS
  Chains   \* the interceptor chains, sequences of kinds of interceptor

\* auth: sets the credentials; retry: calls next once more when it rejects;
\* answer: may answer itself instead of calling next.
Interceptors == {"auth", "retry", "answer"}

ASSUME ChainsAssumption == \A c \in Chains : \A i \in DOMAIN c : c[i] \in Interceptors

VARIABLES
  chain,    \* the interceptors of this link
  batching, \* whether the link was made with `batch'
  mapped,   \* the schema has an RPC for the path
  signal,   \* op.signal: none, live or aborted
  heeded,   \* the link listens to op.signal
  obs,      \* the observable: new, open, done, left, or batched
  lpc,      \* where the link stands
  depth,    \* the interceptor that runs next
  retried,  \* the interceptors that have retried
  told      \* what the observer has been told

link == <<chain, batching, mapped, signal, heeded, obs, lpc, depth, retried, told>>
vars == <<stub, link>>

fixed == <<chain, batching, mapped>>

Init ==
  /\ InitStub
  /\ chain \in Chains
  /\ batching \in BOOLEAN
  /\ mapped \in BOOLEAN
  /\ signal \in {"none", "live", "aborted"}
  /\ heeded = FALSE
  /\ obs = "new"
  /\ lpc = "idle"
  /\ depth = 0
  /\ retried = {}
  /\ told = <<>>

Data(n)    == <<"data", n>>
Error(c)   == <<"error", c>>
Completion == <<"complete">>

-----------------------------------------------------------------------------
(* The observable *)

\* The observer hears these events, if it is still there; the last is terminal
\* and runs the teardown, which aborts.
Tell(events) ==
  IF obs # "open" THEN UNCHANGED <<told, obs, stub>>
  ELSE told' = told \o events /\ obs' = "done" /\ AbortStub

\* grpcWebLink: which calls come to this link.
Direct == batching => kind = "stream"

\* The application subscribes.  A signal that has aborted is not looked at: the
\* link only listens.
Subscribe ==
  /\ obs = "new"
  /\ IF ~Direct
     THEN obs' = "batched" /\ UNCHANGED <<heeded, lpc, depth, told>>
     ELSE IF mapped
     THEN /\ obs' = "open" /\ lpc' = "chain" /\ depth' = 1
          /\ heeded' = (signal = "live")
          /\ UNCHANGED told
     ELSE /\ obs' = "done" /\ told' = <<Error("UNMAPPED")>>
          /\ UNCHANGED <<heeded, lpc, depth>>
  /\ UNCHANGED <<stub, fixed, signal, retried>>

\* It unsubscribes: the teardown aborts.
Unsubscribe ==
  /\ obs = "open"
  /\ obs' = "left"
  /\ AbortStub
  /\ UNCHANGED <<fixed, signal, heeded, lpc, depth, retried, told>>

\* It aborts the signal it made the call with.
SignalAborts ==
  /\ signal = "live"
  /\ signal' = "aborted"
  /\ IF heeded THEN AbortStub ELSE UNCHANGED stub
  /\ UNCHANGED <<fixed, heeded, obs, lpc, depth, retried, told>>

-----------------------------------------------------------------------------
(* The chain of interceptors *)

\* [mutant] the catch clause swallows every error
GivesUpSilently(code) == UNCHANGED <<stub, told, obs>>

\* The catch clause: an error after an abort is nobody's business.
GivesUp(code) ==
  IF aborted THEN UNCHANGED <<stub, told, obs>> ELSE Tell(<<Error(code)>>)

\* A rejection travels outwards: the innermost interceptor that still may
\* retries, or the call gives up.  From stands for the interceptors inside.
Unwind(from, code) ==
  LET again == {i \in DOMAIN chain : i < from /\ chain[i] = "retry" /\ i \notin retried}
  IN IF again # {}
     THEN LET i == CHOOSE i \in again : \A j \in again : j <= i
          IN /\ depth' = i + 1
             /\ retried' = retried \cup {i}
             /\ lpc' = "chain"
             /\ UNCHANGED <<stub, told, obs>>
     ELSE /\ lpc' = "over"
          /\ GivesUp(code)
          /\ UNCHANGED <<depth, retried>>

\* The next interceptor calls next.
Intercept ==
  /\ lpc = "chain" /\ depth <= Len(chain)
  /\ depth' = depth + 1
  /\ UNCHANGED <<stub, fixed, signal, heeded, obs, lpc, retried, told>>

\* The token getter rejects.
InterceptRejects ==
  /\ lpc = "chain" /\ depth <= Len(chain) /\ chain[depth] = "auth"
  /\ Unwind(depth, "TOKEN")
  /\ UNCHANGED <<fixed, signal, heeded>>

\* An interceptor answers without calling next.
InterceptAnswers ==
  /\ lpc = "chain" /\ depth <= Len(chain) /\ chain[depth] = "answer"
  /\ lpc' = "over"
  /\ Tell(<<Data(0), Completion>>)
  /\ UNCHANGED <<fixed, signal, heeded, depth, retried>>

\* invoke: the input is encoded and the transport called.
Invoke ==
  /\ lpc = "chain" /\ depth = Len(chain) + 1
  /\ lpc' = "call"
  /\ FetchEncode \/ NativeStream \/ NativeUnary
  /\ UNCHANGED <<fixed, signal, heeded, obs, depth, retried, told>>

\* The input does not encode.
InvokeRejects ==
  /\ lpc = "chain" /\ depth = Len(chain) + 1
  /\ Unwind(depth, "ENCODE")
  /\ UNCHANGED <<fixed, signal, heeded>>

-----------------------------------------------------------------------------
(* The answer *)

Transport ==
  /\ lpc = "call" /\ StubStep
  /\ UNCHANGED link

Peer == PeerStep /\ UNCHANGED link

\* The transport rejects, or its message does not decode.
Rejects ==
  /\ lpc = "call"
  /\ \/ tpc \in RejectCodes /\ Unwind(depth, tpc)
     \/ tpc = "resolved" /\ transport = "fetch" /\ Unwind(depth, "DECODE")
  /\ UNCHANGED <<fixed, signal, heeded>>

\* A value: data and completion in one go.  An abort does not hold it back.
DeliverValue ==
  /\ lpc = "call" /\ tpc = "resolved"
  /\ lpc' = "over"
  /\ Tell(<<Data(first), Completion>>)
  /\ UNCHANGED <<fixed, signal, heeded, depth, retried>>

\* The observer leaves while it is being told the value.
DeliverAndLeave ==
  /\ lpc = "call" /\ tpc = "resolved" /\ obs = "open"
  /\ lpc' = "over"
  /\ told' = Append(told, Data(first)) /\ obs' = "left"
  /\ AbortStub
  /\ UNCHANGED <<fixed, signal, heeded, depth, retried>>

next == StreamNext

\* The iterable yields an item to a call that has not aborted.
ItemDue == lpc = "call" /\ tpc = "open" /\ next[1] = "message" /\ ~aborted

\* An item of a stream.
DeliverItem ==
  /\ ItemDue
  /\ frames' = Tail(frames)
  /\ told' = IF obs = "open" THEN Append(told, Data(next[2])) ELSE told
  /\ UNCHANGED <<kind, transport, aborted, tpc, live, sent, body, first, last>>
  /\ UNCHANGED <<fixed, signal, heeded, obs, lpc, depth, retried>>

\* The iterable ends, or the loop breaks off at an item after an abort: either
\* way the observer is told that the stream is complete.
EndStream ==
  /\ lpc = "call" /\ tpc = "open"
  /\ next[1] = "end" \/ (next[1] = "message" /\ aborted)
  /\ lpc' = "over"
  /\ Tell(<<Completion>>)
  /\ UNCHANGED <<fixed, signal, heeded, depth, retried>>

\* The iterable throws, also because of the abort; an item that does not decode
\* throws as well.
StreamThrows ==
  /\ lpc = "call" /\ tpc = "open"
  /\ \E code \in RejectCodes \cup {"DECODE"} :
       /\ \/ next = <<"throw", code>>
          \/ code = "DECODE" /\ next[1] = "message"
          \/ code = "ABORT" /\ aborted /\ transport = "fetch"
       /\ GivesUp(code)
  /\ lpc' = "over"
  /\ UNCHANGED <<fixed, signal, heeded, depth, retried>>

-----------------------------------------------------------------------------
Application == Subscribe \/ Unsubscribe \/ SignalAborts

Link ==
  \/ Intercept \/ InterceptRejects \/ InterceptAnswers \/ Invoke \/ InvokeRejects
  \/ Rejects \/ DeliverValue \/ DeliverAndLeave \/ DeliverItem \/ EndStream
  \/ StreamThrows

Next == Application \/ Link \/ Transport \/ Peer

Spec == Init /\ [][Next]_vars

\* The event loop runs what is ready, the peer answers, and a response ends.
Fairness ==
  /\ WF_vars(Link)
  /\ WF_vars(Transport)
  /\ WF_vars(PeerEnds /\ UNCHANGED link)

FairSpec == Spec /\ Fairness
-----------------------------------------------------------------------------
(* Properties *)

Answered == \E i \in DOMAIN told : told[i] = Data(0)

\* The i-th event is a message of the response, and those told before it are all
\* the messages sent before that one.
InPlace(i) ==
  LET n == told[i][2]
  IN /\ n \in DOMAIN sent /\ sent[n] = Message(n)
     /\ \A k \in 1..n - 1 : sent[k][1] = "message" => \E j \in 1..i - 1 : told[j] = Data(k)
     /\ \A j \in 1..i - 1 : told[j][1] = "data" => told[j][2] < n

\* Whatever the peer sends and however often the call is retried, the observer
\* is told messages of one response, in order and without a gap.
InOrder == Answered \/ \A i \in DOMAIN told : told[i][1] = "data" => InPlace(i)

Succeeds == obs = "open" /\ obs' = "done" /\ told'[Len(told')] = Completion

\* What a step that succeeds owes.
Truthful ==
  Succeeds /\ ~aborted /\ ~Answered' =>
    IF transport = "native"
    THEN kind = "unary" \/ (body = "ended" /\ frames = <<>>)
    ELSE \E i \in DOMAIN sent :
           /\ sent[i] = Trailers("OK")
           /\ kind = "unary" => body = "ended"
           /\ kind = "stream" =>
                Len(told) = i - 1 /\ \A j \in 1..i - 1 : sent[j][1] = "message"

\* A stream is complete, and a unary answer is data, only by an OK status: of a
\* body read to its end, or of a stream with nothing missing before the trailer.
\* An abort by the application ends a stream in the same words.
TruthfulCompletion == [][Truthful]_vars

\* Once the observable is over nothing stays in flight: a response that is not
\* read to its end is aborted.  Exempt is the native client: its unary call
\* cannot be cancelled, and its stream only by an abort that follows it.
Released ==
  obs \in {"done", "left"} /\ live => transport = "native"

\* Every call that the application does not abort comes to an end, unless the
\* native callback throws.
Settles == obs = "open" ~> obs # "open" \/ aborted \/ tpc = "thrown"
=============================================================================
