# trpc-proto in TLA+

A verification project for `trpc-proto`: protobuf contracts generated from a
tRPC router, and the transports that carry its calls over gRPC and gRPC-Web.
The modules are translated from the TypeScript under `packages/`; paths below
are relative to the repository. `PROJECT.json` lists the runs, what every
definition models, and the hazards.

    tlc -config <run>.cfg <module>.tla      model-check one run
    tlapm <module>Proofs.tla                check the proofs

## 1. Inventory

### Browser side (`packages/runtime/src`)

| Component | State | Operations | What makes it correct |
|---|---|---|---|
| Batching link (`batch/link/web_link.ts`) | per call: `cancelled`, `completed`, its batch's abort; per procedure type: a queue of calls and whether its microtask is scheduled; per flush: the groups left, the request in flight, its abort controller | subscribe, unsubscribe, abort by signal, flush, encode, send, settle | every call is told one thing at most and its own answer; none is forgotten; a shared request is aborted by its last user only |
| Typed link (`grpc/proto_link.ts`) | one abort controller per call, how far its interceptors are | compose interceptors, invoke, deliver value or stream | messages in order; success is told only when it was one; every call that is not aborted ends |
| Native client (`grpc/client.ts`) | a grpc-js call | unary, server stream, cancel | cancellation reaches the stream |
| Fetch transport (`web/fetch_call.ts`) | frames read so far, first message, last status | unary, stream | a message and an OK status, or an error; what is not read is aborted |
| Routing link (`web/link.ts`) | none | choose batched or direct link | subscriptions are never batched |

### Server side

| Component | State | Operations | What makes it correct |
|---|---|---|---|
| HTTP handler (`web/http_handler.ts`) | where the exchange stands, whether close listeners are attached, the abort signal, the response and its buffer | refuse, decode, dispatch, emit, end, fail | a well-formed body; back pressure; one final status; it always returns |
| Forwarding dispatcher (`web/dispatchers/forward.ts`) | the grpc-js call, the promise chain of writes | make the call, data, status, cancel | the status comes after every message; a closed browser cancels the call |
| Direct dispatcher (`web/dispatchers/direct.ts`) and observable bridge (`router_invoker.ts`) | buffer, `done`, `failure`, `notify`, the subscription | invoke, pull, emit, break, unsubscribe | all items before the status; back pressure; streams are released |
| Batch dispatchers (`batch/grpcweb`, `batch/proto/wire.ts`) | results of a batch | validate, fan out, collect | one result per call, under its id |
| Request head (`web/http_handler.ts`, `web/content_type.ts`) | the CORS policy | preflight, negotiate, pass metadata on | nothing for an origin that is not listed; what a preflight allows is served and readable |
| gRPC-Web server (`web/server.ts`) | listening socket, upstream client, pending `close()` calls, connections (Node's) | listen, serve, close | no browser that waits finds the client closed, and the client outlives the listener in no case; every `close()` settles |
| Native server (`grpc/server.ts`) | per call: the stream, its signal | bind, unary, stream, shut down | the status is the truth; streams are released; `close()` settles |
| Body codecs (`web/codec`) | undecoded rest of a body | push, finish, encode | independence of how the network cuts a body |
| Value codec (`proto_codec`) | none after construction | encode, decode, look up methods | what arrives is what was sent; a path reaches its procedure |

### Generator

| Component | State | Operations | What makes it correct |
|---|---|---|---|
| Translator (`schema_ir/src/translate`) | cache of numbers per message, messages built and being built, allocators | convert objects, unions, named messages, wrapped scalars | a number never changes its field; no number twice |
| Proto text (`schema_ir/src/ir/text.ts`) | none | print a schema, read one back | deleted numbers are reserved; the file is valid and reads back as the schema |
| Generator (`plugin/src/generate.ts`) | `schema.ts` and the `.proto` | load cache, translate, write | survives interruption |

### How they interact, and what is hard

A browser call goes from the routing link through the typed or the batching
link to the Fetch transport, over HTTP to the handler, and from there through a
dispatcher to a tRPC procedure or to a gRPC backend. Everything runs on JavaScript
event loops: code between two awaits is atomic, but whatever was read before an
await, a callback or a promise may be stale after it. The hard behaviours are

- cancellation, which meets every other step: of one call among several that
  share a request, of a request being decoded, of a write that waits for `drain`;
- callbacks that re-enter the link (an observer that unsubscribes another call);
- the order of events of different sources: `data`, `status`, `drain`, `close`;
- answers that omit, repeat or reorder results, or have some nobody asked for;
- histories: what a generation may do depends on what all earlier ones did.

The hazards, at their lines and with the properties that cover them, are in
`PROJECT.json`.

## 2. Modules

| Module | Models | Extends |
|---|---|---|
| `CallPromise` | abstract: what an observer is promised | |
| `BatchLink` | the batching link; refines `CallPromise` | |
| `StubCall` | the two transports of a typed call: Fetch and native | |
| `TypedCall` | the typed link, its interceptors and its observable | `StubCall` |
| `HttpPolicy` | what is decided from the head of a request and of a response | |
| `HttpExchange` | the HTTP handler's life of one exchange | |
| `ForwardGateway` | the handler, the forwarding dispatcher and the grpc-js call | `HttpExchange` |
| `DirectGateway` | the handler, the direct dispatcher, the observable bridge and a procedure | `HttpExchange` |
| `BatchServer` | the batch dispatchers around either of them | |
| `NativeServer` | the native gRPC server | |
| `WebServer` | the gRPC-Web server from listening to `close()` | |
| `GrpcWebBody` | frames and base64, written, cut anywhere, and read incrementally | |
| `TrailerText` | the text of a trailer | |
| `FieldNumbers` | number cache, translator, `.proto` and `schema.ts` over many generations | |
| `SchemaTypes` | the protobuf types, messages, enums and services of a router | |
| `ProtoText` | the `.proto` written, and read back | `SchemaTypes` |
| `ValueCodec` | a value through one codec and out of another | `SchemaTypes`, `Timestamp` |
| `Timestamp` | dates on the wire | |
| `MCGateways` | either gateway, for TLC and for the theorems | `ForwardGateway` |
| `ExchangeProofs` | lemmas about every step of the exchange | `HttpExchange` |
| `GatewayProofs` | theorems about both gateways | `MCGateways`, `ExchangeProofs` |
| `ServerProofs` | theorems about the four modules of the server side that are no gateway | `BatchServer`, `NativeServer`, `WebServer`, `HttpPolicy` |
| `WireProofs` | theorems about trailers and bodies | `TrailerText`, `GrpcWebBody` |
| `SchemaProofs` | theorems about field numbers and dates | `FieldNumbers`, `Timestamp` |
| other `...Proofs` | theorems about the module they are named after | it |

The `MC...` modules instantiate these for TLC. Definitions marked `[mutant]` are
variants of the definition that follows, as a plausible bug would have it; no
specification uses them, and with one put in the place of the original TLC finds
the property it is paired with in `PROJECT.json` violated.

### BatchLink

One action per stretch of code between two awaits or callbacks: `Subscribe`,
`RefuseSubscription`, `Unsubscribe` and `SignalAbort` are the application's;
`Flush`, `StartGroup`, `PrepareCall`, `PrepareFails`, `SkipGroup`, `Send`,
`Respond`, `Reject`, `Deliver`, `FailOne`, `Finally` and `FlushDone` are the steps
of `#createQueue` and `#execute`. `pending[q]` is the queue a microtask will flush;
`todo[f]`, `active[f]` and `request[f]` are the groups, the group being prepared
and the calls sent by flush `f`. Whenever the code calls an observer, `callback`
is set and the application may act (`AppTurn`) before the link goes on: that is
how observers re-enter the link. `running` is the flush whose synchronous code is
being executed; no other starts meanwhile. Flush slots are reused. The answer to
a request is any sequence of results (`Responses`), up to `Surplus` more than there were
calls, under the ids of the calls and one that is no call's, so an unfaithful server is
included.

The model lets microtasks be delayed behind other events, which only adds
behaviours. A request whose calls all leave re-entrantly while it is being
prepared is sent, as in the code; `LastCancelAborts` speaks of requests in flight.

### StubCall, TypedCall

`lpc` follows the link: `Subscribe`, then each interceptor (`Intercept`, which may
reject, answer by itself, or call `next` again when it rejects: `Unwind`), then
`Invoke`, and the delivery of a value or of the items of a stream. `obs` and `told`
are the observable tRPC hands the link. `tpc` follows the transport the link was
made with. Over HTTP the peer may send any frames in any order, malformed ones too,
and end or break the body; grpc-js lets only well-formed calls through. The signal
may have aborted before the call, abort at any time, or be missing.

### HttpPolicy

Two steps: a request with any head arrives at a server with any policy (`Arrive`),
and the handler decides what to answer (`Decide`). The requests include all that the
Fetch transport makes (`mine`), and preflights. The reply says what the handler
dispatches with (encoding, compression, metadata) and which headers it answers. A browser
adds headers of its own to a request. Some the handler skips (`BrowserHeaders`); the others,
such as `cookie` or `referer`, go to the backend as metadata (`BrowserMetadata`), as
`SKIP_METADATA_HEADERS` does not name them. A header without a value is dropped.

### HttpExchange, ForwardGateway, DirectGateway

`hpc` follows `handleGrpcWebHttpRequest` from `start` (reading the body) through
`decoding`, `dispatching`, and `trailer` or `failing` (the catch clause) to `done`;
`epc` follows the emit callback and `writeGrpcWebBody`. `wire` is what the handler
has written, `buffered` what the response still holds. `Close` may happen at any
time; it aborts the signal only while the listeners are attached. A message is its
position in the answer. `ForwardGateway` adds the backend call (`up`), the chain
`writes` (`queue`, `broken`) and its completion (`Settles`). `DirectGateway` adds
the procedure, its stream (an async iterable acts only when pulled, an observable
at will), the bridge's buffer and wait (`pending`, `woken`), and the dispatcher's
loop (`dpc`). A request whose head is refused (`HttpPolicy`) is one action, `Refuse`; a
call that throws before it is made (its URL, its metadata) is another, `DispatchThrows`.

### BatchServer, NativeServer, WebServer

`BatchServer` has the wrapper (`pc`), the context all calls of a direct batch share,
and per call its result; the dispatcher of a single call is what the wrapper sees of
it: messages emitted and a status, or a rejection (`DispatchRejects`), which ends the whole
batch of a forwarding server with INTERNAL. `NativeServer` has per call the handler, what the
procedure returned, the items taken and written, and how the call ended; binding and
`close()` are the server's. `WebServer` has the listener, the client of a forwarding
handler, connections with the handler of the latest request of each, and the calls of
`close()` with their outcomes. Node calls back when the last connection has ended. A browser
that leaves ends its connection and not the handler, so `close()` may settle and close the
client while handlers are at work; one that has not called the backend by then is refused.
`close()` of the native server is grpc-js's `tryShutdown`, which is taken to wait for open
calls, as it is documented to; that is an assumption (the guard of `Stopped`) and no result.

### GrpcWebBody, TrailerText

`GrpcWebBody` writes a body (`SendBody`), cuts off less than a frame of its end, and
lets it arrive in pieces (`Deliver`, `Finish`) at the decoders of base64 and of
frames, whose buffers are `pending` and `buffer`. Bytes have `Byte`
values and digits `Digit`; they are constants with the relation of 256 and 64, so
small instances have lengths of two bytes and groups that do not end with a frame.
`TrailerText` works on tokens, one for each thing the code tells apart: a word,
a space, a colon, a line break, a percent sign, a character outside of ASCII.

### FieldNumbers

The cache of `schema.ts` is a pair of relations, `ids` (`usedIds`) and `tags`
(`propertyGenCache[field].tag`), keyed by message. Translation is recursive:
`stack` holds the activations of `#convertObject`, each with the numbers its
allocator was seeded with, so a nested conversion that touches the same cache
entry is seen. The allocator yields the smallest number that is neither taken nor
withheld by protobuf; since it is only asked for the next number, that is what
`allocate()` computes. The router is chosen field by field as it is translated, so
a run covers every sequence of routers within the bounds. `Fail` ends a generation
anywhere: an exhausted allocator, a type that cannot be translated, or a crash.
Property names are abstract and distinct; a reference to a union that is still
being built, for which the code recurses without end, is left out.

### SchemaTypes, ProtoText, ValueCodec

`SchemaTypes` is the rest of the translator, as recursive operators: `mapField`,
`Fields`, `Arms`, `rpcMessageType` and `run` thread what is built (`t`) and the
messages nested in the current one (`n`) through a schema. A Zod schema is a record.
Names are strings with a table of the spellings the instances need. Schemas have no
identity: where a router uses one unnamed object twice (an input that is also the output, an
enum in two fields), the translator recognises it and keeps the name of its first place
(`#seenMessages`, `#seenEnums`), and the model, to which it is two schemas that look alike,
gives it two. A `z.set` cannot be translated: with Zod 4 the code finds no element in it and
maps the set itself, without end.

`ProtoText` gives the fields of such a schema numbers, as after any earlier
generation, and writes the text as declarations in their order (`toString`), then
reads it (`fromString`). The text of a type does not say whether a name is that of a
message or an enum; reading has to find out. The values of an enum come back in capitals and
without the name of the enum, whichever way they were written: that is what the code does, and
`ReadsBack` says it of each value and number.

`ValueCodec` takes a router from translation (`Generate`) to a call: `Send` looks up
the method and encodes any value Zod accepts, of the request or of the reply, and
`Receive` finds the procedure and decodes. A JavaScript value is a record with its
type. What protobuf.js does (`fromObject`, `toObject`, the lookup of a name,
duplicate names) is modelled as the code relies on it; its bytes are not.

### Timestamp

A Date is an integer of milliseconds. JavaScript's `%` and the truncation in `Date`
are modelled; protobuf.js is taken to carry both integers unchanged.

## 3. Runs

| Run | Instance | Checks |
|---|---|---|
| `batch_one_queue` | three queries and a subscription, batches of two, two flush slots | types, `NoLostCall`, `AbortOnlyWhenUnused`, `HeldOnce`, `WellFormedBatch`, `LastCancelAborts`, refinement `KeepsPromise` |
| `batch_liveness` | two queries and a mutation, batches of one | `Answered` |
| `gateways` | up to four messages or items, a response that holds two frames | `WireGrammar`, `BoundedBuffer`; `ForwardTruthfulTrailer`; `DirectOkMeansComplete`, `DirectStreamReleased`, `DirectPulledOnDemand`; `AbortReturns`, `HandlersReturn` |
| `typed_call` | both transports, unary and stream, three frames, no interceptor or two | `InOrder`, `Released`, `TruthfulCompletion`, `Settles` |
| `servers` | one part at a time, see below | `Matched`, `BatchSettles`; `HonestEnd`, `StreamsReleased`; `ClientServes`; `ClosesSettle`; `OriginsKept`, `FetchServed`; `Reassembled`, `Prompt`; `StatusKept` |
| `schema` | one part at a time, see below | `StableNumbers`, `DistinctNumbers`, `DeletedReserved` (`flat`), `NumbersKept` (`kinds`); `RoundTrip`; `ValidText`, `ReadsBack`; `ValuesSurvive` |

Each property is stated, with the code it is about, where it is defined. The runs
`gateways`, `servers` and `schema` are unions: a variable (`gateway`, `part`) says
which module a behaviour is of, and the variables of the others stay as they are.
`schema` has the field numbers twice, each with a state of its own, since the
interesting routers come in two sizes.
Since the parts share no state (the two gateways share the exchange, but no
behaviour is of both), what holds of the union holds of each part.

Bounds, and why they are enough:

- `batch_*`: three queries with batches of two give a full group, a group behind
  a full one, a call alone, and a call that subscribes while the others are under
  way; two flush slots let two flushes be in flight. In `batch_one_queue` an answer may
  have one result more than there were calls (`Surplus = 1`); `batch_liveness` has none more,
  as the liveness check grows with it.
- `gateways`: four messages over a buffer of two (`HighWater`) fill it, wait for
  `drain`, and fill it again.
- `typed_call`: three frames are two messages and a trailer, a trailer between
  messages, or frames after a trailer; the HTTP statuses map to different gRPC codes; the
  chains have an interceptor that retries outside and inside of another.
- `servers`: batches of up to three calls, of a query, a subscription and a path
  nobody has, with ids that may repeat or be missing; two native calls with streams
  of two items, so that one is cancelled while the other ends; two connections to the web
  server, with any number of requests on each, and two `close()`; ports that are absent, the default of the scheme, plain and
  out of range; two origins, one of them listed or none; bodies of two frames, among
  them empty, malformed, with further flags, and one whose length has two bytes, in pieces of 1, 2, 3 and 5
  bytes, so that every offset within a header, a payload and a base64 group is a cut,
  and up to two bytes missing; texts of up to three of the eight tokens,
  under three metadata names, with values that have blanks, escapes or are bytes.
- `schema`: `flat` has one message with nested objects and unions two levels deep, two
  field names, and the numbers 1 and 3 (2 is withheld, as protobuf withholds
  19000-19999): what a reuse takes is one field deleted and another added. `kinds` has two messages
  that refer to each other and are objects or scalars. Generations are unbounded,
  since the state is finite. Dates lie on and around whole seconds. The text of two
  routers, which between them have every kind of declaration, is written after
  any set of the numbers 1 to 4 has been used. The values are those of some
  forty routers (`Carried`): every scalar alone, in an array and optional, named and nested
  objects, messages of one name at two depths, records, enums, unions, intersections, and
  procedures of one name in several routers. A 32-bit integer
  is one between -4 and 3 (`Half = 4`); both ends are among the values.

Deadlock checking is off wherever things end: all calls are over, the exchange is
done, the value has arrived. `FieldNumbers` never stops.

### Disagreements between code and documentation

These runs have a counterexample; each is listed with its source lines under
`findings`.

| Run | Property | What the counterexample shows |
|---|---|---|
| `forward_early_close` | `ClosedCallIsCancelled` | the browser closes while the handler decodes the request; the call is made and never cancelled |
| `numbers_nested` | `DeletedReservedAnywhere` | a field deleted from a message nested two levels deep is not reserved in the `.proto` |
| `numbers_scalar` | `StableNumbers` | an output that turns from an object into a scalar reuses a number |
| `numbers_reentrant` | `DistinctNumbers` | an object nested under one field name three levels deep gets one number for two fields |
| `timestamp_before_1970` | `RoundTrip` | a date before 1970 arrives a second early |
| `values_record` | `ValuesSurvive` | a `z.record` that is a whole input arrives empty |

### Fairness

All of it is weak fairness, but for the connections of the web server.

- `batch_liveness`: the link's own steps (the event loop runs ready microtasks) and an
  answer to every request (`fetch` resolves or rejects). The application and the
  network's choice of answer are not constrained.
- `gateways`, forwarding: the handler's steps and the `status` event of
  a cancelled call (grpc-js always reports one). The backend itself may stay silent:
  `EndReturns` starts when its call ends. A browser that stays connected takes the
  bytes sent to it, or TCP closes the connection.
- `gateways`, direct: besides, procedures return, and no stream stays silent for ever.
  The latter is an assumption about the application, and `AbortReturns` needs it: the
  dispatcher looks at the signal only when an item arrives.
- `typed_call`: the link's and the transport's steps, and an end to every response.
  `Settles` leaves out calls that the application aborts, since the code swallows
  their errors, and a native callback that throws.
- `servers`: procedures, the context and the backend answer (`FairBatch`); procedures
  answer and streams end or, once their caller has gone, produce another item
  (`FairNative`); handlers settle, a connection that is idle again and again is ended some time,
  and Node tells a server that its last connection has ended (`FairWeb`). For connections this
  is strong fairness: `close()` waits for a browser that keeps its connection busy, and Node
  closes idle connections, or times them out. A subscription that neither ends nor is cancelled would
  keep `close()` from resolving; the assumption excludes it.

## 4. Proofs

| Module | Theorem | Statement |
|---|---|---|
| `BatchLinkProofs` | `TypeCorrect` | `Spec => []TypeOK` |
| | `Invariance` | `Spec => []IInv` |
| | `NothingLost` | `Spec => []NoLostCall` |
| | `AbortIsUnanimous` | `Spec => []AbortOnlyWhenUnused` |
| | `BatchesWellFormed` | `Spec => []WellFormedBatch` |
| | `PromiseKept` | `Spec => KeepsPromise`, the refinement of `CallPromise` |
| | `NoneHeldTwice` | `Spec => []HeldOnce` |
| | `LastOneAborts` | `Spec => LastCancelAborts` |
| `TypedCallProofs` | `NothingStaysInFlight` | `Spec => []Released` |
| | `ToldInOrder` | `Spec => []InOrder` |
| | `CompletionIsTruthful` | `Spec => TruthfulCompletion` |
| `GatewayProofs` | `ForwardedIsTrue` | `SpecGateways => []ForwardTruthfulTrailer` |
| | `OkFromDirect` | `SpecGateways => []DirectOkMeansComplete` |
| | `DirectStreamsEnd` | `SpecGateways => []DirectStreamReleased` |
| | `DirectIsPulled` | `SpecGateways => []DirectPulledOnDemand` |
| | `BodiesWellFormed`, `BuffersBounded` | `SpecGateways => []WireGrammar`, `[]BoundedBuffer` |
| `ServerProofs` | `BatchAnswersMatch` | `BatchSpec => []Matched` |
| | `EndsAreHonest` | `NativeSpec => []HonestEnd` |
| | `NothingLeaks` | `NativeSpec => []StreamsReleased` |
| | `ClientIsServing` | `WebSpec => []ClientServes` |
| | `OriginsAreKept`, `FetchIsServed` | `InitHttp /\ [][HttpNext]_http => []OriginsKept`, `[]FetchServed` |
| `WireProofs` | `StatusIsKept` | `InitTrailer /\ [][TrailerNext]_trailer => []StatusKept` |
| | `BodiesReassembled`, `MessagesPrompt` | `InitWire /\ [][WireNext]_wire => []Reassembled`, `[]Prompt` |
| `SchemaProofs` | `NumbersKept` | `Spec => []KeptNumbers`, if `MaxDepth <= 2` |
| | `NumbersAreStable`, `NumbersAreDistinct` | `Spec => []StableNumbers`, `[]DistinctNumbers`, if besides no scalar is wrapped |
| | `DeletedAreReserved` | `Spec => []DeletedReserved`, under the same conditions |
| | `RoundTripSince1970`, `ValidSince1970` | dates survive, and `nanos` is within its second |

Each holds for every value of the constants that the assumptions of its module allow:
any set of calls, any batch size and any number of flush slots for the batching link;
responses of any length, any chain of interceptors and any number of retries for the typed
call; any high water and any number of messages or items for the gateways; any calls,
errors, requests, ports, origins and header names for the servers; messages and metadata of any length, with any tokens, for the
trailers; any frames, good or bad, in any layout and any chunks for the bodies; any roots, field names
and numbers for the translator. `HttpPolicyAssumption` says of header names only that an
application's own are not among those the code knows, and that two of them do not become
one in lower case.

The hypotheses of `SchemaProofs` are where the code stops being right. Two levels are a
message and the messages nested in it. From the third on, a cache entry is named after the
last two names of a path (after all of it below a union): two messages can share an entry,
and one message can have two. With `MaxDepth = 3` TLC finds each of the four properties
violated, `KeptNumbers` when a message turns from a union into an object, the others when a
top-level message is called like the field of another; `numbers_reentrant` and
`numbers_nested` are such runs with distinct names. A wrapped scalar takes its number from an
allocator that knows none of the message's (`numbers_scalar`). A date before 1970 arrives
early (`timestamp_before_1970`).

**Batching link.** `NoLostCall` is not inductive: that a call is "still held" says
nothing of whether its holder will move. `IInv` adds what the code relies on.
`QueueWakes`: a queue that is not empty has its microtask. `FlushHolds`: which of `todo`,
`active` and `request` are in use at each point of the async function, so nothing is
overwritten that still holds a call. `HeldCalls`: what is held is subscribed and of the
holder's type. `ItemFlags`: `completed` and `cancelled` agree with what the observer was
told, so a settlement that finds an item closed does so for a reason.
`AbortsOwnRequest`: a call can abort the request it is in and no other, which makes
`AbortOnlyWhenUnused` inductive. The proof goes action by action over lemmas about
`Abort`, `Settle`, groups and sequences. The refinement follows from the invariant: every
step leaves each call's status alone or makes one step of `CallPromise`. `NoneHeldTwice`
looks at the places that hold calls as one function (`HeldBy`): a step only moves calls
between two of them or takes in a new one, and neither repeats a call (`Reshuffle`).
`LastOneAborts` needs `RequestAborts`: as long as a request is in flight, each of its calls
still points to it, so the leaving of the last one finds the controller to abort.

**Typed call.** `TypedInv` ties the three ends of a call together. `BodyInv`: the frames
not yet taken are the last of those sent, so a position in the body is a position in the
response. `ReadInv` says what the transport remembers at each point it may stand: the first
message taken, the last status. `FlightInv`: after an abort only a native call can still be
in flight, and an observable that has ended finds the link idle or aborted, which gives
`Released`. `ToldInv` says that what was told are the messages taken, in order; an
interceptor that retries starts over, which is why nothing may have been told until the
chain has returned.

**Gateways.** `ExchangeProofs` proves, for each step of `HttpExchange`, that it keeps
`ExchangeInv`, whichever dispatcher takes it: `Before`, `During` and `After` say what there
is at each point of the handler, `AbortedLate` that the signal aborts only with the
connection, `Shape` gives each frame by its position, and `Room` says that a response that
is full takes no more and that the message being encoded is the next one. The dispatchers
have to start an emit with the right message, and end with no emit going on.
`GatewayProofs` and `DirectGatewayProofs` show that they do, by counting: as long
as the connection is open, every message the source has produced is written, being
written, or waiting (`NoneLost`), and the ones that wait are in order. When the forwarding
dispatcher settles, its chain is empty and no emit is under way, so all of them are
written (`AllWritten`); a chain that has broken was cut by the signal, so nobody gets a
trailer (`ChainHeld`). The direct dispatcher leaves with `OK` only over an empty buffer
and a stream that has ended. `Drained` says why an iterable is never ahead: one that waits
to be pulled has had all it produced taken. `GatewayProofs` puts the two together, for the
specification TLC runs.

**Servers.** `BatchInv` says that every call of a batch has a slot from the start, that a
call refused has no output, and that the response is emitted once, over slots that are all
settled. `NativeInv` says per call what the handler has done at each point
(`Standing`), that a call which is not over has ended only because its caller cancelled
it, and that a streaming handler knows (`Heard`), and that the end is the truth (`Honest`).
`WebInv` says that connections are open only at a listener that is bound or closing
(`LinksHeld`), that the first `close()` is the one that finds it bound (`ListenerFirst`), that
the client is closed only with the listener (`ClientOwned`), and so a handler finds it closed
only when its browser has left (`RefusedLate`), and that a `close()` settles only with the
listener (`SettledLast`). The request head has no history, so its two theorems are about
one decision: the negotiation operators are shown to be inverse to each other (what
`createGrpcWebFetchCall` asks for is what `handleGrpcWebHttpRequest` reads and writes), and
the preflight of a browser to pass exactly when the policy names the application's headers.

**Trailers.** `TrailerInv` is plain: the text is the frame of what was told, and what was
heard is its `Decode`. The work is in `FrameRead`, which says what that is. An escaped text
holds no line break and no bare percent sign (`Escaped`), so no line of a frame has a break
inside (`NoBreakInside`), lines begin only where the writer began one (`FrameStarts`), and
a reader that looks for a name finds the status and the message once, whatever the third
line is. Trimming and escaping may change places (`TrimEscaped`), as neither touches a blank
inside. Texts have any length; where induction is needed, as for the first and last solid
character, a set of numbers has a smallest element because `<` is well-founded.
`TrailerTextAssumption` says that codes and names are words and that an escape is no token
of a server's text.

**Bodies.** `WireInv` says where the reader stands. While a body is read, the bytes that
the text decoder has made of it are the first bytes of the frames (`Stands`), and the frame
decoder has yielded the frames those bytes complete and keeps the rest (`ReadTo`). A header
tells the length of its frame (`DigitsRead`), each frame is found where the one before it
ends (`Off`, `NextFrame`), and so a push takes exactly the frames that are complete
(`PushTakes`). Every layout is, without its white space, a text of groups of at most three
bytes, four characters each, and a group shows its length in its padding (`LayoutText`,
`QuadRead`). A segment ends with a group, and what has arrived is decoded but for less than a
group, unless the reader stands inside a padding (`Halted`); that is the exception `Prompt`
makes. When the body ends with nothing waiting, fewer than five bytes are missing, which is
less than a frame, so every frame was read (`StandsNear`, `ReadEnds`); a whole body leaves
nothing waiting (`StandsLast`). The loops of the decoders are recursive functions over as
many turns as there can be: a turn takes five bytes or four characters at least. That these
functions exist (`FrameTurns`, `SegmentTurns`, `ChunkTurns`, and `FlatExists` for what
`FlattenSeq` is) follows by induction over a set of numbers (`SetInduction`), from `<` being
well-founded. `GrpcWebBodyAssumption` says that a digit has `k^3` values and a byte `k^4`,
as 64 and 256 have with `k = 4`, that four bytes hold the length of a payload, and that the
network loses at most four bytes or characters: with more, a body could end between two
frames, which the decoders cannot tell from a whole one.

**Field numbers.** `KeptInv` says that the cache is a function from fields to numbers and
that nothing is ever taken out of it: `schema.ts`, the translator's copy and the messages
form a chain of subsets. That gives `KeptNumbers`, also for wrapped scalars. The other three
need to know that two fields never get one number, although an allocator is seeded once and
used until its message is finished, while nested conversions write to the same cache.
`StackInv` is the reason: no message is built by two activations at once (`Nested`), since a
nested message can be reached only through its parent and the parent's activation is
directly below it, and so each activation knows every number of its message (`Seeded`).
`MarkInv` carries this to the files: a written `.proto` accounts for all of the cache, hence
for all that `given` will have, and an interrupted generation changes neither.

Only model-checked:

- all liveness properties (`Answered`, `AbortReturns`, `HandlersReturn`, `Settles`,
  `BatchSettles`, `ClosesSettle`), which need fairness and ENABLED;
- `ValidText`, `ReadsBack` and `ValuesSurvive`, about the schema, the `.proto` and the
  values: they say what recursive definitions compute of recursive data. The library's
  induction theorems take an operator as parameter, and the prover does not take
  RECURSIVE operators.

## 5. Not modelled

- *Command line and router loader* (`packages/plugin`): argument parsing and a dynamic
  import. What they start is the generator.
- *Prevalidation and Zod inspection*: one message for each kind of schema that is refused.
  What is let through bounds the schemas of `SchemaTypes`. The same goes for *utilities*:
  one-line helpers, but for the spellings of names.
- *Examples, benchmarks, documentation pages*: they carry no logic of the program.
- *Libraries*: gzip, protobuf.js, grpc-js, Zod and Node's HTTP server are external, and
  modelled by what this code relies on. Of gzip that is a mark on the payload.
- *Observers that throw*, in the batching link: the error would escape into the flush. The
  model assumes that tRPC's own do not.
- *The length of the chain of writes* of the forwarding dispatcher: nothing in the code
  bounds it, so there is no bound to state. A chain that rejects before the status event
  is, for Node, an unhandled rejection for that time; what the process does then is its
  configuration.
- *Enum values numbered by position*, and *names that collide* (two paths or keys with one
  spelling): the code does as its documents say, or no document says anything.
- *A reference to a union that is still being translated*, for which the code recurses
  without end.

`ValuesSurvive` is checked of the routers in `Carried`. These schemas are left out of it,
since encoding and decoding them are no inverses of each other in the code:

- a record or map as a whole input or output (`values_record` shows the record), and an
  object with the one key `value` in the place of a wrapped scalar;
- keys spelled with an underscore, which come back in camel case;
- `z.safeint` and unsigned integers, which are sent as int32 and wrap;
- maps, tuples, files, `any` and `Struct`, whose types the codec does not encode;
- an optional or a date as a whole output, and nested messages inside of a wrapped array;
- tracked envelopes, and messages whose names collide.

`ValueCodec` has most of these conversions, so a run over such routers shows them; they
differ from the documentation in the way `values_record` does, and one such run is kept.
