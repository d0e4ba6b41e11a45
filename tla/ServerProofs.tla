----------------------------- MODULE ServerProofs ------------------------------
(* The servers, for every set of calls, requests, paths, errors, origins and   *)
(* header names: a batch answers each of its calls; the native server tells    *)
(* the truth about its calls and releases their streams; the gRPC-Web server   *)
(* has its client for every browser that waits; its handler keeps to the       *)
(* origins it was given and agrees with the Fetch transport of the client.     *)
EXTENDS BatchServer, NativeServer, WebServer, HttpPolicy, SequenceTheorems, TLAPS

-----------------------------------------------------------------------------
(* Batches *)

UnaryPaths == Paths \ Streams

\* What is known of a call while its batch runs, ...
CallProgress(i) ==
  /\ outputs[i] \in {<<>>, <<Answer(calls[i])>>}
  /\ item[i].result \in {"running", "success", "error"}
  /\ item[i].result # "running" => item[i].id = calls[i].id
  /\ item[i].result = "success" => item[i].output = Answer(calls[i])
  /\ calls[i].path \notin UnaryPaths =>
       outputs[i] = <<>> /\ item[i].result = "error" /\ item[i].code = "UNIMPLEMENTED"

\* ... and of the batch at every point of the wrapper.
BatchInv ==
  /\ pc \in {"none", "context", "items", "returned", "rejected"}
  /\ mode \in {"direct", "forward"}
  /\ emitted \in {<<>>, <<item>>}
  /\ emitted # <<>> => pc = "returned" /\ AllSettled
  /\ pc = "none" => contexts = 0
  /\ pc = "context" => mode = "direct" /\ contexts = 1
  /\ pc # "none" => DOMAIN outputs = Indices
  /\ pc = "context" => \A i \in Indices : outputs[i] = <<>>
  /\ pc \in {"context", "items"} \/ emitted # <<>> => decodeBatchCalls(calls)
  /\ pc = "items" \/ emitted # <<>> =>
       /\ contexts = IF mode = "direct" THEN 1 ELSE 0
       /\ DOMAIN item = Indices
       /\ \A i \in Indices : CallProgress(i)

\* executeCall refuses exactly the calls without a unary route.
LEMMA StartedCall ==
  ASSUME NEW call
  PROVE  /\ call.path \in UnaryPaths => Start(call) = [result |-> "running"]
         /\ call.path \notin UnaryPaths => Start(call) = itemError(call, "UNIMPLEMENTED")
  <1>1. DOMAIN batchRoutes = Paths
    BY DEF batchRoutes
  <1>2. \A p \in Paths : batchRoutes[p].responseStream = (p \in Streams)
    BY DEF batchRoutes
  <1>3. QED
    BY <1>1, <1>2 DEF Start, UnaryPaths

\* What executeCall returns for a call that ran.
LEMMA ItemResultOf ==
  ASSUME NEW call, NEW code, NEW out, out \in {<<>>, <<Answer(call)>>}
  PROVE  LET r == ItemResult(call, code, out)
         IN /\ r.result \in {"success", "error"} /\ r.id = call.id
            /\ r.result = "success" => r.output = Answer(call)
  <1>1. CASE code # OK
    BY <1>1 DEF ItemResult, itemError
  <1>2. CASE code = OK /\ out = <<>>
    BY <1>2, Len(<<>>) = 0 DEF ItemResult, itemError
  <1>3. CASE code = OK /\ out = <<Answer(call)>>
    <2>1. Len(out) = 1 /\ out[1] = Answer(call)
      BY <1>3
    <2>2. ItemResult(call, code, out) = [result |-> "success", id |-> call.id, output |-> Answer(call)]
      BY <1>3, <2>1 DEF ItemResult
    <2>3. QED
      BY <2>2
  <1>4. QED
    BY <1>1, <1>2, <1>3

LEMMA BatchStep == BatchInv /\ [BatchNext]_batch => BatchInv'
  <1> SUFFICES ASSUME BatchInv, [BatchNext]_batch PROVE BatchInv'
    OBVIOUS
  <1> USE DEF BatchInv
  <1>1. CASE Receive
    <2>1. /\ pc = "none" /\ emitted = <<>> /\ contexts = 0
          /\ mode' \in {"direct", "forward"} /\ UNCHANGED <<aborted, emitted>>
          /\ outputs' = [i \in Indices' |-> <<>>]
      BY <1>1 DEF Receive, Indices
    <2>2. CASE ~decodeBatchCalls(calls') /\ pc' = "returned"
      BY <2>1, <2>2 DEF Indices
    <2>3. CASE decodeBatchCalls(calls') /\ pc' = "context" /\ mode' = "direct" /\ contexts' = contexts + 1
      BY <2>1, <2>3 DEF Indices
    <2>4. CASE decodeBatchCalls(calls') /\ ExecuteCalls(calls') /\ mode' = "forward" /\ UNCHANGED contexts
      <3>1. /\ pc' = "items" /\ DOMAIN item' = Indices' /\ DOMAIN outputs' = Indices'
            /\ \A i \in Indices' : item'[i] = Start(calls'[i]) /\ outputs'[i] = <<>>
        BY <2>1, <2>4 DEF ExecuteCalls, Indices
      <3>2. \A i \in Indices' : CallProgress(i)'
        BY <3>1, StartedCall DEF CallProgress, itemError
      <3>3. QED
        BY <2>1, <2>4, <3>1, <3>2
    <2>5. QED
      BY <1>1, <2>2, <2>3, <2>4 DEF Receive
  <1>2. CASE ContextCreated
    <2>1. /\ pc = "context" /\ emitted = <<>> /\ UNCHANGED <<mode, calls, contexts, outputs, emitted>>
          /\ pc' = "items" /\ DOMAIN item' = Indices' /\ Indices' = Indices
          /\ \A i \in Indices : item'[i] = Start(calls[i])
      BY <1>2 DEF ContextCreated, ExecuteCalls, Indices
    <2>2. \A i \in Indices' : CallProgress(i)'
      BY <2>1, StartedCall DEF CallProgress, itemError
    <2>3. QED
      BY <2>1, <2>2 DEF decodeBatchCalls
  <1>3. CASE ContextFails
    BY <1>3 DEF ContextFails, Indices
  <1>4. ASSUME NEW i \in Indices, EmitOutput(i) PROVE BatchInv'
    <2>1. /\ pc = "items" /\ emitted = <<>> /\ item[i].result = "running" /\ outputs[i] = <<>>
          /\ DOMAIN outputs' = Indices /\ outputs'[i] = Append(<<>>, Answer(calls[i]))
          /\ \A j \in Indices \ {i} : outputs'[j] = outputs[j]
          /\ UNCHANGED <<mode, calls, contexts, pc, item, emitted>> /\ Indices' = Indices
      BY <1>4 DEF EmitOutput, Running, Indices
    <2>2. Append(<<>>, Answer(calls[i])) = <<Answer(calls[i])>>
      OBVIOUS
    <2>3. \A j \in Indices : CallProgress(j)'
      BY <2>1, <2>2 DEF CallProgress
    <2>4. QED
      BY <2>1, <2>3
  <1>5. ASSUME NEW i \in Indices, NEW code, DispatchResolves(i, code) PROVE BatchInv'
    <2>1. /\ pc = "items" /\ emitted = <<>> /\ item[i].result = "running"
          /\ DOMAIN item' = Indices /\ item'[i] = ItemResult(calls[i], code, outputs[i])
          /\ \A j \in Indices \ {i} : item'[j] = item[j]
          /\ UNCHANGED <<mode, calls, contexts, pc, outputs, emitted>> /\ Indices' = Indices
      BY <1>5 DEF DispatchResolves, Running, Indices
    <2>2. /\ item'[i].result \in {"success", "error"} /\ item'[i].id = calls[i].id
          /\ item'[i].result = "success" => item'[i].output = Answer(calls[i])
      BY <2>1, ItemResultOf DEF CallProgress
    <2>3. \A j \in Indices : CallProgress(j)'
      BY <2>1, <2>2 DEF CallProgress
    <2>4. QED
      BY <2>1, <2>3
  <1>6. CASE Abort
    BY <1>6 DEF Abort, Indices, CallProgress, AllSettled
  <1>r. ASSUME NEW i \in Indices, DispatchRejects(i) PROVE BatchInv'
    <2>1. /\ pc = "items" /\ emitted = <<>> /\ pc' = "rejected" /\ Indices' = Indices
          /\ UNCHANGED <<mode, calls, contexts, item, outputs, emitted>>
      BY <1>r DEF DispatchRejects, Running, Indices
    <2>2. QED
      BY <2>1
  <1>7. CASE Respond \/ Cancelled
    <2>1. /\ pc = "items" /\ emitted = <<>> /\ AllSettled /\ pc' = "returned"
          /\ emitted' \in {<<>>, <<item>>}
          /\ UNCHANGED <<mode, calls, contexts, item, outputs>> /\ Indices' = Indices
      BY <1>7 DEF Respond, Cancelled, Indices
    <2>2. \A j \in Indices : CallProgress(j)'
      BY <2>1 DEF CallProgress
    <2>3. QED
      BY <2>1, <2>2 DEF AllSettled
  <1>8. CASE UNCHANGED batch
    BY <1>8 DEF batch, Indices, CallProgress, AllSettled
  <1>9. QED
    BY <1>1, <1>2, <1>3, <1>4, <1>5, <1>6, <1>r, <1>7, <1>8 DEF BatchNext, Execute

LEMMA BatchMatched == BatchInv => Matched
  <1> SUFFICES ASSUME BatchInv, NEW n \in DOMAIN emitted
               PROVE  LET results == emitted[n]
                      IN /\ contexts = IF mode = "direct" THEN 1 ELSE 0
                         /\ DOMAIN results = Indices
                         /\ \A i \in Indices : results[i].result \in {"success", "error"}
                         /\ \A i, j \in Indices : results[i].id = results[j].id => i = j
                         /\ \A i \in Indices :
                              /\ results[i].id = calls[i].id
                              /\ results[i].result = "success" => results[i].output = Answer(calls[i])
                              /\ calls[i].path \notin Paths \ Streams =>
                                   outputs[i] = <<>> /\ results[i].code = "UNIMPLEMENTED"
    BY DEF Matched
  <1>1. emitted = <<item>> /\ emitted[n] = item
    BY DEF BatchInv
  <1>2. /\ AllSettled /\ decodeBatchCalls(calls) /\ DOMAIN item = Indices
        /\ contexts = IF mode = "direct" THEN 1 ELSE 0
        /\ \A i \in Indices : CallProgress(i)
    BY <1>1 DEF BatchInv
  <1>3. \A i \in Indices : item[i].result \in {"success", "error"} /\ item[i].id = calls[i].id
    BY <1>2 DEF AllSettled, CallProgress
  <1>4. \A i, j \in Indices : item[i].id = item[j].id => i = j
    BY <1>2, <1>3 DEF decodeBatchCalls, Indices
  <1>5. QED
    BY <1>1, <1>2, <1>3, <1>4 DEF CallProgress, UnaryPaths

\* Whatever the number of calls, the order in which they settle and the moment
\* the browser leaves, a response answers each call of its batch in its place.
THEOREM BatchAnswersMatch == BatchSpec => []Matched
  <1>1. InitBatch => BatchInv
    BY DEF InitBatch, BatchInv
  <1>2. QED
    BY <1>1, BatchStep, BatchMatched, PTL DEF BatchSpec

-----------------------------------------------------------------------------
(* The native server *)

\* How a call may have ended for its caller.
Ends == {"OK", "CANCELLED"} \cup {toServiceError(e) : e \in Errors}

NativeTypeOK ==
  /\ server \in {"none", "binding", "bound", "rejected", "stopping", "stopped"}
  /\ stub \in [Calls -> {"none", "unary", "stream"}]
  /\ step \in [Calls -> {"none", "invoking", "pulling", "over"}]
  /\ source \in [Calls -> {"none", "active", "ended", "failed", "released"}]
  /\ items \in [Calls -> Nat]
  /\ written \in [Calls -> Nat]
  /\ gone \in [Calls -> BOOLEAN]
  /\ ended \in [Calls -> Ends \cup {"none"}]

-----------------------------------------------------------------------------
(* The native server: what holds of each call *)

\* A call nobody has made, or that has not returned a stream yet.
Untouched(c) ==
  /\ items[c] = 0 /\ written[c] = 0 /\ source[c] = "none"

\* What a handler has done for its call, at each point it may stand.
Standing(c) ==
  /\ step[c] = "none" => Untouched(c) /\ ended[c] = "none" /\ ~gone[c]
  /\ step[c] # "none" => stub[c] # "none"
  /\ step[c] = "invoking" => Untouched(c)
  /\ step[c] = "pulling" => source[c] = "active" /\ stub[c] = "stream" /\ written[c] = items[c]
  /\ step[c] = "over" => source[c] # "active" /\ ended[c] # "none"

\* A call that is not over has ended only if its caller has cancelled it, and a
\* streaming handler knows.
Heard(c) ==
  /\ step[c] # "over" => ended[c] \in {"none", "CANCELLED"}
  /\ gone[c] => stub[c] = "stream" /\ ended[c] = "CANCELLED" /\ items[c] <= written[c] + 1
  /\ step[c] # "over" /\ stub[c] = "stream" => (gone[c] <=> ended[c] = "CANCELLED")

\* HonestEnd, of one call.
Honest(c) ==
  /\ ended[c] = "OK" =>
       /\ step[c] = "over" /\ source[c] \in {"none", "ended"}
       /\ written[c] = IF stub[c] = "unary" THEN 1 ELSE items[c]
  /\ ended[c] \notin {"none", "OK", "CANCELLED"} => source[c] = "failed"

NativeInv ==
  /\ NativeTypeOK
  /\ \A c \in Calls : Standing(c) /\ Heard(c) /\ Honest(c)

-----------------------------------------------------------------------------
(* The native server: lemmas *)

\* An error's status is never taken for success, or for a call still open.
LEMMA ErrorStatus ==
  ASSUME NEW e
  PROVE  toServiceError(e) \notin {"none", "OK"}
<1>1. grpcStatus(e) \notin {"none", "OK"}
  BY DEF grpcStatus
<1> QED
  BY <1>1 DEF toServiceError

\* Ending a call keeps the first end it had, and leaves the other calls alone.
LEMMA EndsOnce ==
  ASSUME NativeTypeOK, NEW c \in Calls, NEW how \in Ends, EndCall(c, how)
  PROVE  /\ ended' \in [Calls -> Ends \cup {"none"}]
         /\ ended'[c] = IF ended[c] = "none" THEN how ELSE ended[c]
         /\ \A d \in Calls : d # c => ended'[d] = ended[d]
  BY DEF NativeTypeOK, EndCall

\* A step of one call that keeps its part of the invariant keeps all of it.
LEMMA OneCall ==
  ASSUME NativeInv, NativeTypeOK', server' = server, NEW c \in Calls,
         Standing(c)' /\ Heard(c)' /\ Honest(c)',
         \A d \in Calls \ {c} :
           /\ stub'[d] = stub[d] /\ step'[d] = step[d] /\ source'[d] = source[d]
           /\ items'[d] = items[d] /\ written'[d] = written[d]
           /\ gone'[d] = gone[d] /\ ended'[d] = ended[d]
  PROVE  NativeInv'
<1>1. \A d \in Calls \ {c} : Standing(d)' /\ Heard(d)' /\ Honest(d)'
  BY DEF NativeInv, Standing, Heard, Honest, Untouched
<1> QED
  BY <1>1 DEF NativeInv

-----------------------------------------------------------------------------
(* The native server: its steps *)

LEMMA NativeInitially == InitNative => NativeInv
  BY DEF InitNative, NativeInv, NativeTypeOK, Standing, Untouched, Heard, Honest

LEMMA NativeStep == NativeInv /\ [NativeNext]_native => NativeInv'
<1> SUFFICES ASSUME NativeInv, [NativeNext]_native PROVE NativeInv'
  OBVIOUS
<1> USE DEF NativeTypeOK
<1>1. CASE Bind \/ Bound \/ Close
  BY <1>1 DEF NativeInv, Bind, Bound, Close, callVars, Standing, Untouched, Heard, Honest
<1>2. CASE Stopped
  BY <1>2 DEF NativeInv, Stopped, callVars, Standing, Untouched, Heard, Honest
<1>3. ASSUME NEW c \in Calls, Accept(c) PROVE NativeInv'
  <2>1. NativeTypeOK'
    BY <1>3 DEF NativeInv, Accept
  <2>2. Standing(c)' /\ Heard(c)' /\ Honest(c)'
    BY <1>3 DEF NativeInv, Accept, Standing, Untouched, Heard, Honest
  <2> QED
    BY <1>3, <2>1, <2>2, OneCall DEF NativeInv, Accept
<1>4. ASSUME NEW c \in Calls, Cancel(c) PROVE NativeInv'
  <2>1. ended' \in [Calls -> Ends \cup {"none"}] /\ ended'[c] = "CANCELLED"
        /\ \A d \in Calls : d # c => ended'[d] = ended[d]
    BY <1>4, EndsOnce DEF NativeInv, Cancel, Ends
  <2>2. NativeTypeOK'
    BY <1>4, <2>1 DEF NativeInv, Cancel
  <2>3. Standing(c)' /\ Heard(c)' /\ Honest(c)'
    <3>1. gone'[c] <=> stub[c] = "stream"
      BY <1>4, Zenon DEF NativeInv, Cancel
    <3>2. step[c] \in {"invoking", "pulling"} /\ written[c] = items[c]
      BY <1>4 DEF NativeInv, Cancel, Standing, Untouched
    <3>3. /\ stub'[c] = stub[c] /\ step'[c] = step[c] /\ source'[c] = source[c]
          /\ items'[c] = items[c] /\ written'[c] = written[c]
      BY <1>4 DEF Cancel
    <3>4. Standing(c)'
      BY <2>1, <3>2, <3>3 DEF NativeInv, Standing, Untouched
    <3>5. Heard(c)'
      BY <2>1, <3>1, <3>2, <3>3 DEF NativeInv, Heard
    <3>6. Honest(c)'
      BY <2>1 DEF Honest
    <3> QED
      BY <3>4, <3>5, <3>6
  <2> QED
    BY <1>4, <2>1, <2>2, <2>3, OneCall DEF NativeInv, Cancel
<1>5. ASSUME NEW c \in Calls, AnswerUnary(c) PROVE NativeInv'
  <2>1. ended' \in [Calls -> Ends \cup {"none"}]
        /\ ended'[c] = (IF ended[c] = "none" THEN "OK" ELSE ended[c])
        /\ \A d \in Calls : d # c => ended'[d] = ended[d]
    BY <1>5, EndsOnce DEF NativeInv, AnswerUnary, Ends
  <2>2. NativeTypeOK'
    BY <1>5, <2>1 DEF NativeInv, AnswerUnary
  <2>3. Standing(c)' /\ Heard(c)' /\ Honest(c)'
    BY <1>5, <2>1 DEF NativeInv, AnswerUnary, Standing, Untouched, Heard, Honest
  <2> QED
    BY <1>5, <2>1, <2>2, <2>3, OneCall DEF NativeInv, AnswerUnary
<1>6. ASSUME NEW c \in Calls, Subscribe(c) PROVE NativeInv'
  <2>1. NativeTypeOK'
    BY <1>6 DEF NativeInv, Subscribe
  <2>2. Standing(c)' /\ Heard(c)' /\ Honest(c)'
    BY <1>6 DEF NativeInv, Subscribe, Standing, Untouched, Heard, Honest
  <2> QED
    BY <1>6, <2>1, <2>2, OneCall DEF NativeInv, Subscribe
<1>7. ASSUME NEW c \in Calls, Item(c) PROVE NativeInv'
  <2>1. CASE gone[c]
    <3>1. ended' \in [Calls -> Ends \cup {"none"}] /\ ended'[c] = "CANCELLED"
          /\ \A d \in Calls : d # c => ended'[d] = ended[d]
      BY <1>7, <2>1, EndsOnce DEF NativeInv, Item, Heard, Ends
    <3>2. NativeTypeOK'
      <4>1. /\ items' = [items EXCEPT ![c] = @ + 1]
            /\ source' = [source EXCEPT ![c] = "released"]
            /\ step' = [step EXCEPT ![c] = "over"]
            /\ UNCHANGED <<server, stub, written, gone>>
        BY <1>7, <2>1 DEF Item
      <4> QED
        BY <3>1, <4>1 DEF NativeInv
    <3>3. /\ stub'[c] = "stream" /\ step'[c] = "over" /\ source'[c] = "released"
          /\ items'[c] = written'[c] + 1
      BY <1>7, <2>1 DEF NativeInv, Item, Standing
    <3>4. Standing(c)' /\ Heard(c)' /\ Honest(c)'
      <4>1. Standing(c)' /\ Honest(c)'
        BY <3>1, <3>3 DEF Standing, Honest
      <4>2. items'[c] <= written'[c] + 1
        BY <3>2, <3>3
      <4>3. Heard(c)'
        BY <3>1, <3>3, <4>2 DEF Heard
      <4> QED
        BY <4>1, <4>3
    <3> QED
      BY <1>7, <2>1, <3>1, <3>2, <3>4, OneCall DEF NativeInv, Item
  <2>2. CASE ~gone[c]
    <3>1. NativeTypeOK'
      BY <1>7, <2>2 DEF NativeInv, Item
    <3>2. ended[c] = "none" /\ written[c] = items[c]
      BY <1>7, <2>2 DEF NativeInv, Item, Heard, Standing
    <3>3. Standing(c)' /\ Heard(c)' /\ Honest(c)'
      BY <1>7, <2>2, <3>2 DEF NativeInv, Item, Standing, Untouched, Heard, Honest
    <3> QED
      BY <1>7, <2>2, <3>1, <3>3, OneCall DEF NativeInv, Item
  <2> QED
    BY <2>1, <2>2
<1>8. ASSUME NEW c \in Calls, SourceEnds(c) PROVE NativeInv'
  <2>1. ended' \in [Calls -> Ends \cup {"none"}]
        /\ ended'[c] = (IF ended[c] = "none" THEN "OK" ELSE ended[c])
        /\ \A d \in Calls : d # c => ended'[d] = ended[d]
    BY <1>8, EndsOnce DEF NativeInv, SourceEnds, Ends
  <2>2. NativeTypeOK'
    BY <1>8, <2>1 DEF NativeInv, SourceEnds
  <2>3. Standing(c)' /\ Heard(c)' /\ Honest(c)'
    BY <1>8, <2>1 DEF NativeInv, SourceEnds, Standing, Untouched, Heard, Honest
  <2> QED
    BY <1>8, <2>1, <2>2, <2>3, OneCall DEF NativeInv, SourceEnds
<1>9. ASSUME NEW c \in Calls, NEW e \in Errors, Throws(c, e) \/ SourceFails(c, e)
      PROVE  NativeInv'
  <2>1. /\ step[c] \in {"invoking", "pulling"}
        /\ step' = [step EXCEPT ![c] = "over"]
        /\ source' = [source EXCEPT ![c] = "failed"]
        /\ IF gone[c] THEN UNCHANGED ended ELSE EndCall(c, toServiceError(e))
        /\ UNCHANGED <<server, stub, items, written, gone>>
    BY <1>9 DEF Throws, SourceFails
  <2>2. toServiceError(e) \in Ends /\ toServiceError(e) \notin {"none", "OK"}
    BY ErrorStatus DEF Ends
  <2>3. ended' \in [Calls -> Ends \cup {"none"}]
        /\ ended'[c] = (IF ended[c] = "none" THEN toServiceError(e) ELSE ended[c])
        /\ \A d \in Calls : d # c => ended'[d] = ended[d]
    <3>1. CASE gone[c]
      BY <2>1, <3>1 DEF NativeInv, Heard
    <3>2. CASE ~gone[c]
      BY <2>1, <2>2, <3>2, EndsOnce DEF NativeInv
    <3> QED
      BY <3>1, <3>2
  <2>4. NativeTypeOK'
    BY <2>1, <2>3 DEF NativeInv
  <2>5. Standing(c)' /\ Heard(c)' /\ Honest(c)'
    BY <2>1, <2>2, <2>3 DEF NativeInv, Standing, Untouched, Heard, Honest
  <2> QED
    BY <2>1, <2>2, <2>3, <2>4, <2>5, OneCall DEF NativeInv
<1>10. CASE UNCHANGED native
  BY <1>10 DEF NativeInv, native, Standing, Untouched, Heard, Honest
<1> QED
  BY <1>1, <1>2, <1>3, <1>4, <1>5, <1>6, <1>7, <1>8, <1>9, <1>10
     DEF NativeNext, Handler, Fails

\* What the native server knows of its calls holds at every point of a handler.
THEOREM NativeInvariance == NativeSpec => []NativeInv
  BY NativeInitially, NativeStep, PTL DEF NativeSpec

-----------------------------------------------------------------------------
(* The native server: what follows *)

\* HonestEnd, for any calls: what grpc/server.ts reports of a call is the truth.
THEOREM EndsAreHonest == NativeSpec => []HonestEnd
<1>1. NativeInv => HonestEnd
  BY DEF NativeInv, Honest, HonestEnd
<1> QED
  BY <1>1, NativeInvariance, PTL

\* StreamsReleased, for any calls and any number of items: no handler leaves its
\* loop without its stream, and a cancelled one takes one more item at most.
THEOREM NothingLeaks == NativeSpec => []StreamsReleased
<1>1. NativeInv => StreamsReleased
  BY DEF NativeInv, Standing, Heard, StreamsReleased
<1> QED
  BY <1>1, NativeInvariance, PTL

-----------------------------------------------------------------------------
(* The gRPC-Web server *)

CloseCall == [was : {"bound", "closing", "closed"}, now : {"pending", "resolved", "rejected"}]

WebTypeOK ==
  /\ upstream \in {"none", "open", "closed"}
  /\ listener \in {"none", "listening", "bound", "failed", "closing", "closed"}
  /\ link \in [Connections -> {"none", "open", "ended"}]
  /\ answer \in [Connections -> {"none", "handling", "forwarding", "handled",
                                 "refused", "notFound", "destroyed"}]
  /\ closeCalls \in Seq(CloseCall)

\* Connections are open only while the server listens or closes.
LinksHeld ==
  /\ listener \notin {"bound", "closing"} => \A x \in Connections : link[x] # "open"
  /\ \A x \in Connections : link[x] = "none" => answer[x] = "none"

\* close() comes only to a server that is bound, and the first finds it so.
ListenerFirst ==
  /\ listener \in {"none", "listening", "failed", "bound"} <=> closeCalls = <<>>
  /\ \A i \in DOMAIN closeCalls : closeCalls[i].was = "bound" <=> i = 1

\* The client is there from the start or not at all, and closed with the listener.
ClientOwned ==
  /\ listener = "none" => upstream = "none"
  /\ upstream = "closed" => listener \in {"failed", "closed"}
  /\ listener \in {"failed", "closed"} => upstream # "open"

\* A handler that found the client closed had lost its browser by then.
RefusedLate == \A x \in Connections : answer[x] = "refused" => link[x] = "ended"

\* A close() has settled only when the listener has closed.
SettledLast ==
  \A i \in DOMAIN closeCalls :
    closeCalls[i].now # "pending" =>
      listener = "closed" /\ (closeCalls[i].now = "resolved" <=> i = 1)

WebInv ==
  WebTypeOK /\ LinksHeld /\ ListenerFirst /\ ClientOwned /\ RefusedLate /\ SettledLast

-----------------------------------------------------------------------------
LEMMA WebInitially == InitWeb => WebInv
  BY DEF InitWeb, WebInv, WebTypeOK, LinksHeld, ListenerFirst, ClientOwned, RefusedLate,
         SettledLast

\* Where the last connection ends every close() settles, the first one well.
LEMMA ClosedStep == WebInv /\ Closed => WebInv'
<1> SUFFICES ASSUME WebInv, Closed PROVE WebInv'
  OBVIOUS
<1>1. /\ DOMAIN closeCalls' = DOMAIN closeCalls
      /\ closeCalls' \in Seq(CloseCall)
  <2>1. closeCalls \in Seq(CloseCall) /\ DOMAIN closeCalls = 1..Len(closeCalls)
        /\ Len(closeCalls) \in Nat
    BY DEF WebInv, WebTypeOK
  <2> DEFINE settled(i) ==
        IF closeCalls[i].now = "pending"
        THEN [closeCalls[i] EXCEPT
                !.now = IF closeCalls[i].was = "bound" THEN "resolved" ELSE "rejected"]
        ELSE closeCalls[i]
  <2>2. closeCalls' = [i \in 1..Len(closeCalls) |-> settled(i)]
    BY <2>1 DEF Closed
  <2>3. \A i \in 1..Len(closeCalls) : settled(i) \in CloseCall
    <3> TAKE i \in 1..Len(closeCalls)
    <3>1. closeCalls[i] \in CloseCall
      BY <2>1
    <3>2. PICK w \in {"bound", "closing", "closed"}, n \in {"pending", "resolved", "rejected"} :
            closeCalls[i] = [was |-> w, now |-> n]
      BY <3>1 DEF CloseCall
    <3>3. settled(i) = [was |-> w, now |-> IF n # "pending" THEN n
                                           ELSE IF w = "bound" THEN "resolved" ELSE "rejected"]
      BY <3>2
    <3> HIDE DEF settled
    <3> QED
      BY <3>3 DEF CloseCall
  <2> HIDE DEF settled
  <2>4. closeCalls' \in [1..Len(closeCalls) -> CloseCall]
    BY <2>2, <2>3
  <2>5. closeCalls' \in Seq(CloseCall)
    BY <2>1, <2>4, SeqDef
  <2> QED
    BY <2>1, <2>2, <2>5
<1>2. \A i \in DOMAIN closeCalls :
        /\ closeCalls'[i].was = closeCalls[i].was
        /\ closeCalls'[i].now = (IF closeCalls[i].now # "pending" THEN closeCalls[i].now
                                 ELSE IF closeCalls[i].was = "bound" THEN "resolved"
                                 ELSE "rejected")
  BY DEF WebInv, WebTypeOK, Closed, CloseCall
<1>3. closeCalls # <<>> /\ closeCalls' # <<>>
  BY <1>1 DEF WebInv, WebTypeOK, Closed
<1>4. /\ listener' = "closed" /\ UNCHANGED <<link, answer>>
      /\ \A x \in Connections : link[x] # "open"
  BY DEF Closed
<1>5. upstream' = IF upstream = "open" THEN "closed" ELSE upstream
  BY DEF Closed, closeUpstream
<1>6. WebTypeOK'
  BY <1>1, <1>4, <1>5 DEF WebInv, WebTypeOK
<1>7. ListenerFirst'
  BY <1>1, <1>2, <1>3, <1>4 DEF WebInv, ListenerFirst
<1>8. ClientOwned' /\ LinksHeld' /\ RefusedLate'
  BY <1>4, <1>5 DEF WebInv, WebTypeOK, ClientOwned, LinksHeld, RefusedLate
<1>9. SettledLast'
  BY <1>1, <1>2, <1>4 DEF WebInv, WebTypeOK, ListenerFirst, SettledLast
<1> QED
  BY <1>6, <1>7, <1>8, <1>9 DEF WebInv

LEMMA CloseServerStep == WebInv /\ CloseServer => WebInv'
<1> SUFFICES ASSUME WebInv, CloseServer PROVE WebInv'
  OBVIOUS
<1> DEFINE new == [was |-> listener, now |-> "pending"]
<1>1. closeCalls \in Seq(CloseCall) /\ new \in CloseCall
  BY DEF WebInv, WebTypeOK, CloseServer, CloseCall
<1>2. /\ closeCalls' = Append(closeCalls, new)
      /\ closeCalls' \in Seq(CloseCall)
      /\ closeCalls' # <<>>
      /\ DOMAIN closeCalls' = 1..Len(closeCalls) + 1
      /\ \A i \in DOMAIN closeCalls : closeCalls'[i] = closeCalls[i]
      /\ closeCalls'[Len(closeCalls) + 1] = new
  BY <1>1 DEF CloseServer
<1>3. listener = "bound" <=> Len(closeCalls) = 0
  BY <1>1 DEF WebInv, ListenerFirst, CloseServer
<1>4. /\ listener' = IF listener = "bound" THEN "closing" ELSE listener
      /\ listener \in {"bound", "closing", "closed"}
      /\ UNCHANGED <<upstream, link, answer>>
  BY DEF CloseServer
<1>5. WebTypeOK'
  BY <1>2, <1>4 DEF WebInv, WebTypeOK
<1>6. ListenerFirst'
  BY <1>1, <1>2, <1>3, <1>4 DEF WebInv, ListenerFirst
<1>7. ClientOwned' /\ LinksHeld' /\ RefusedLate'
  BY <1>4 DEF WebInv, ClientOwned, LinksHeld, RefusedLate
<1>8. SettledLast'
  BY <1>1, <1>2, <1>4 DEF WebInv, SettledLast
<1> QED
  BY <1>5, <1>6, <1>7, <1>8 DEF WebInv

\* A step of a connection that keeps what concerns connections keeps all of it.
LEMMA OneConnection ==
  ASSUME WebInv, UNCHANGED <<upstream, listener, closeCalls>>,
         NEW x \in Connections,
         NEW l \in {"none", "open", "ended"}, link' = [link EXCEPT ![x] = l],
         NEW a \in {"none", "handling", "forwarding", "handled", "refused", "notFound",
                    "destroyed"},
         answer' = [answer EXCEPT ![x] = a],
         l = "open" => listener \in {"bound", "closing"},
         l = "none" => a = "none",
         a = "refused" => l = "ended"
  PROVE  WebInv'
<1>1. /\ link'[x] = l /\ answer'[x] = a
      /\ \A y \in Connections : y # x => link'[y] = link[y] /\ answer'[y] = answer[y]
  BY DEF WebInv, WebTypeOK
<1>2. WebTypeOK'
  BY DEF WebInv, WebTypeOK
<1>3. LinksHeld' /\ RefusedLate'
  BY <1>1 DEF WebInv, LinksHeld, RefusedLate
<1>4. ListenerFirst' /\ ClientOwned' /\ SettledLast'
  BY DEF WebInv, ListenerFirst, ClientOwned, SettledLast
<1> QED
  BY <1>2, <1>3, <1>4 DEF WebInv

LEMMA ConnectionStep ==
  ASSUME WebInv, NEW x \in Connections,
         Request(x) \/ UseClient(x) \/ Answered(x) \/ ConnectionEnds(x)
  PROVE  WebInv'
<1>1. /\ link \in [Connections -> {"none", "open", "ended"}]
      /\ answer \in [Connections -> {"none", "handling", "forwarding", "handled", "refused",
                                     "notFound", "destroyed"}]
      /\ link = [link EXCEPT ![x] = link[x]] /\ answer = [answer EXCEPT ![x] = answer[x]]
  BY DEF WebInv, WebTypeOK
<1>2. /\ link[x] = "open" => listener \in {"bound", "closing"}
      /\ link[x] = "none" => answer[x] = "none"
      /\ answer[x] = "refused" => link[x] = "ended"
  BY DEF WebInv, LinksHeld, RefusedLate
<1>3. CASE Request(x)
  BY <1>2, <1>3, OneConnection DEF Request
<1>4. CASE UseClient(x)
  <2> DEFINE a == IF upstream = "open" THEN "forwarding" ELSE "refused"
  <2>1. /\ answer[x] = "handling" /\ answer' = [answer EXCEPT ![x] = a]
        /\ link' = [link EXCEPT ![x] = link[x]]
        /\ UNCHANGED <<upstream, listener, closeCalls>>
    BY <1>1, <1>4 DEF UseClient
  <2>2. link[x] # "none"
    BY <1>2, <2>1
  <2>3. a = "refused" => link[x] = "ended"
    BY <1>1, <1>2, <1>4, <2>2 DEF UseClient, WebInv, WebTypeOK, ClientOwned
  <2>4. a \in {"forwarding", "refused"} /\ link[x] \in {"none", "open", "ended"}
    BY <1>1
  <2> HIDE DEF a
  <2> QED
    BY <1>2, <2>1, <2>2, <2>3, <2>4, OneConnection
<1>5. CASE Answered(x)
  <2>1. PICK how \in {"handled", "notFound", "destroyed"} :
          /\ answer' = [answer EXCEPT ![x] = how]
          /\ link' = [link EXCEPT ![x] = IF how = "destroyed" THEN "ended" ELSE @]
    BY <1>5 DEF Answered
  <2> DEFINE l == IF how = "destroyed" THEN "ended" ELSE link[x]
  <2>2. link' = [link EXCEPT ![x] = l] /\ l \in {"none", "open", "ended"}
    BY <1>1, <2>1
  <2>3. link[x] # "none" /\ UNCHANGED <<upstream, listener, closeCalls>>
    BY <1>2, <1>5 DEF Answered, Live
  <2>4. l # "none" /\ (l = "open" => listener \in {"bound", "closing"})
    BY <1>2, <2>3
  <2> HIDE DEF l
  <2> QED
    BY <2>1, <2>2, <2>3, <2>4, OneConnection
<1>6. CASE ConnectionEnds(x)
  BY <1>1, <1>6, OneConnection DEF ConnectionEnds
<1> QED
  BY <1>3, <1>4, <1>5, <1>6

LEMMA WebStep == WebInv /\ [WebNext]_web => WebInv'
<1> SUFFICES ASSUME WebInv, [WebNext]_web PROVE WebInv'
  OBVIOUS
<1> USE DEF WebInv, WebTypeOK, LinksHeld, ListenerFirst, ClientOwned, RefusedLate, SettledLast
<1>1. CASE RefuseAddress
  BY <1>1 DEF RefuseAddress
<1>2. CASE Serve
  BY <1>2 DEF Serve, createHandler
<1>3. CASE Listening
  BY <1>3 DEF Listening
<1>4. CASE ListenFails
  BY <1>4 DEF ListenFails, closeUpstream
<1>5. CASE UNCHANGED web
  BY <1>5 DEF web
<1> QED
  BY <1>1, <1>2, <1>3, <1>4, <1>5, ConnectionStep, CloseServerStep, ClosedStep DEF WebNext

\* ClientServes for any connections: in web/server.ts the client of a gateway is
\* closed neither under a browser that waits nor later than the listener.
THEOREM ClientIsServing == WebSpec => []ClientServes
<1>1. WebInv => ClientServes
  BY DEF WebInv, ClientOwned, RefusedLate, SettledLast, ClientServes
<1> QED
  BY <1>1, WebInitially, WebStep, PTL DEF WebSpec

-----------------------------------------------------------------------------
(* The decisions of the HTTP handler *)

\* The policy is one a server may be given, and a reply is what the handler
\* makes of the request at hand.
HttpInv ==
  /\ cors \in Policies
  /\ request # None => request \in Requests \cup Preflights \cup FetchRequests
  /\ request = None => reply = None
  /\ reply # None => reply = handleGrpcWebHttpRequest(request)

LEMMA HttpStep == HttpInv /\ [HttpNext]_http => HttpInv'
  <1> SUFFICES ASSUME HttpInv, [HttpNext]_http PROVE HttpInv'
    OBVIOUS
  <1>1. CASE Arrive
    BY <1>1 DEF Arrive, HttpInv
  <1>2. CASE Decide
    <2>1. /\ request # None /\ UNCHANGED <<cors, request>>
          /\ reply' = handleGrpcWebHttpRequest(request)
      BY <1>2 DEF Decide
    <2>2. handleGrpcWebHttpRequest(request)' = handleGrpcWebHttpRequest(request)
      BY <2>1 DEF handleGrpcWebHttpRequest, handleCorsPreflight, Dispatched
    <2>3. QED
      BY <2>1, <2>2 DEF HttpInv
  <1>3. CASE UNCHANGED http
    BY <1>3 DEF http, HttpInv, handleGrpcWebHttpRequest, handleCorsPreflight, Dispatched
  <1>4. QED
    BY <1>1, <1>2, <1>3 DEF HttpNext

LEMMA HttpInvariance == InitHttp /\ [][HttpNext]_http => []HttpInv
  <1>1. InitHttp => HttpInv
    BY DEF InitHttp, HttpInv, Policies
  <1>2. QED
    BY <1>1, HttpStep, PTL

\* A reply the handler makes for this request keeps to the policy.
LEMMA ReplyKeepsOrigins ==
  ASSUME cors # None
  PROVE  LET r == handleGrpcWebHttpRequest(request)
         IN /\ r.allowed => request.origin \in cors.origins
            /\ r.status = 200 => request.origin \in cors.origins \cup {None}
  <1>1. CASE request.method = "OPTIONS" /\ request.origin # None
    BY <1>1 DEF handleGrpcWebHttpRequest, handleCorsPreflight, Reply
  <1>2. CASE ~(request.method = "OPTIONS" /\ request.origin # None)
    <2>2. Dispatched(request).allowed = (request.origin # None /\ cors # None)
      BY DEF Dispatched
    <2>3. CASE request.method # "POST" \/ grpcWebEncoding(request.contentType) = None
      <3>1. handleGrpcWebHttpRequest(request) = Reply(404, FALSE)
        BY <1>2, <2>3 DEF handleGrpcWebHttpRequest
      <3>2. handleGrpcWebHttpRequest(request) = [status |-> 404, allowed |-> FALSE]
        BY <3>1 DEF Reply
      <3>3. QED
        BY <3>2
    <2>4. CASE /\ request.method = "POST" /\ grpcWebEncoding(request.contentType) # None
               /\ request.origin # None /\ request.origin \notin cors.origins
      <3>1. handleGrpcWebHttpRequest(request) = Reply(403, FALSE)
        BY <1>2, <2>4 DEF handleGrpcWebHttpRequest
      <3>2. handleGrpcWebHttpRequest(request) = [status |-> 403, allowed |-> FALSE]
        BY <3>1 DEF Reply
      <3>3. QED
        BY <3>2
    <2>5. CASE /\ request.method = "POST" /\ grpcWebEncoding(request.contentType) # None
               /\ request.origin # None => request.origin \in cors.origins
      <3>1. handleGrpcWebHttpRequest(request) = Dispatched(request)
        BY <1>2, <2>5 DEF handleGrpcWebHttpRequest
      <3>2. QED
        BY <2>2, <2>5, <3>1
    <2>6. QED
      BY <2>3, <2>4, <2>5
  <1>3. QED
    BY <1>1, <1>2

\* However requests are made up, no origin gets past the policy of a server.
THEOREM OriginsAreKept == InitHttp /\ [][HttpNext]_http => []OriginsKept
  <1>1. HttpInv => OriginsKept
    BY ReplyKeepsOrigins DEF HttpInv, OriginsKept
  <1>2. QED
    BY <1>1, HttpInvariance, PTL
-----------------------------------------------------------------------------
(* The Fetch transport and the handler *)

\* Comparing header names does not mistake one for another.
LEMMA LowerOf ==
  /\ \A c \in Custom : Lower(c) = c /\ Lower(Spelled[c]) = c
  /\ \A h \in DefaultCorsRequestHeaders : Lower(h) = h
  <1>1. ASSUME NEW c \in Custom PROVE Lower(Spelled[c]) = c
    BY HttpPolicyAssumption DEF Lower
  <1>2. ASSUME NEW c \in Custom PROVE Lower(c) = c
    <2>1. \A d \in Custom : Spelled[d] = c => d = c
      BY HttpPolicyAssumption
    <2>2. QED
      BY <2>1 DEF Lower
  <1>3. ASSUME NEW h \in DefaultCorsRequestHeaders PROVE Lower(h) = h
    <2>1. ~ \E c \in Custom : Spelled[c] = h
      BY HttpPolicyAssumption
    <2>2. QED
      BY <2>1 DEF Lower
  <1>4. QED
    BY <1>1, <1>2, <1>3

\* What a browser adds to a request of its own.
Added == BrowserHeaders \cup BrowserMetadata

\* The headers of a Fetch request ahead of which the browser asks, ...
LEMMA FetchHeaderNames ==
  ASSUME NEW e, NEW c \in BOOLEAN, NEW m \in SUBSET MetadataNames, NEW v,
         NEW b \in SUBSET BrowserMetadata, NEW o,
         NEW r, r = FetchRequest(e, c, m, v, b, o)
  PROVE  /\ r.headers \ Added \subseteq DefaultCorsRequestHeaders \cup Custom
         /\ (r.headers \ Added) \cap Custom = r.headers \cap Custom
         /\ r.headers \ SkipMetadataHeaders =
              r.headers \cap (MetadataNames \cup BrowserMetadata)
         /\ "grpc-encoding" \in r.headers <=> c
  <1>1. r.headers = BrowserHeaders \cup b \cup m \cup FetchHeaders(c)
    BY DEF FetchRequest
  <1>2. /\ BrowserHeaders \subseteq SkipMetadataHeaders
        /\ FetchHeaders(c) \subseteq SkipMetadataHeaders \cap DefaultCorsRequestHeaders
        /\ "authorization" \notin SkipMetadataHeaders
        /\ "authorization" \in DefaultCorsRequestHeaders
        /\ BrowserMetadata \cap SkipMetadataHeaders = {}
        /\ "grpc-encoding" \notin BrowserMetadata
    BY DEF BrowserHeaders, BrowserMetadata, FetchHeaders, SkipMetadataHeaders,
           DefaultCorsRequestHeaders
  <1>3. Custom \cap (DefaultCorsRequestHeaders \cup SkipMetadataHeaders
                     \cup BrowserMetadata) = {}
    BY HttpPolicyAssumption
  <1>4. "grpc-encoding" \in SkipMetadataHeaders
    BY DEF SkipMetadataHeaders
  <1>5. /\ "grpc-encoding" \in FetchHeaders(c) <=> c
        /\ "grpc-encoding" \notin BrowserHeaders
    BY DEF FetchHeaders, BrowserHeaders
  <1>6. m \subseteq {"authorization"} \cup Custom
    BY DEF MetadataNames
  <1>7. r.headers \ Added \subseteq DefaultCorsRequestHeaders \cup Custom
    BY <1>1, <1>2, <1>6 DEF Added
  <1>8. (r.headers \ Added) \cap Custom = r.headers \cap Custom
    BY <1>2, <1>3 DEF Added
  <1>9. r.headers \ SkipMetadataHeaders = r.headers \cap (MetadataNames \cup BrowserMetadata)
    BY <1>1, <1>2, <1>3, <1>6 DEF MetadataNames
  <1>10. "grpc-encoding" \in r.headers <=> c
    BY <1>1, <1>2, <1>3, <1>4, <1>5, <1>6
  <1>11. QED
    BY <1>7, <1>8, <1>9, <1>10

\* The handler takes for metadata what the application set and what the browser
\* added of its own, where it has a value, and no header of the transport.
LEMMA FetchMetadata ==
  ASSUME NEW e, NEW c \in BOOLEAN, NEW m \in SUBSET MetadataNames, NEW v,
         NEW b \in SUBSET BrowserMetadata, NEW o
  PROVE  LET r == FetchRequest(e, c, m, v, b, o)
         IN metadataFromRequest(r) =
              (r.headers \cap (MetadataNames \cup BrowserMetadata)) \ r.empty
  <1> DEFINE r == FetchRequest(e, c, m, v, b, o)
  <1> HIDE DEF r
  <1>1. r.headers \ SkipMetadataHeaders = r.headers \cap (MetadataNames \cup BrowserMetadata)
    BY FetchHeaderNames DEF r
  <1>2. QED
    BY <1>1 DEF metadataFromRequest, r

\* ... and whether its answer lets the call through.
LEMMA PreflightOfFetch ==
  ASSUME cors \in Policies, cors # None,
         NEW e, NEW c \in BOOLEAN, NEW m \in SUBSET MetadataNames, NEW v,
         NEW b \in SUBSET BrowserMetadata, NEW o \in Origins,
         NEW r, r = FetchRequest(e, c, m, v, b, o), o \in cors.origins
  PROVE  Preflighted(r) <=>
           r.headers \cap Custom \subseteq {Lower(h) : h \in cors.additional}
  <1>1. /\ cors.headers = DefaultCorsRequestHeaders \cup {Lower(h) : h \in cors.additional}
    BY DEF Policies, createCorsPolicy
  <1> DEFINE p == PreflightOf(r)
             asked == r.headers \ Added
  <1>2. /\ p.method = "OPTIONS" /\ p.requestMethod = "POST" /\ p.origin = o
        /\ p.requestHeaders = asked
    BY DEF PreflightOf, FetchRequest, Added
  <1>3. o # None
    BY HttpPolicyAssumption
  <1> DEFINE passed == Reply(204, TRUE)
             refused == Reply(403, TRUE)
  <1>p. Preflighted(r) <=> handleGrpcWebHttpRequest(p) = passed
    BY DEF Preflighted
  <1>q. passed # refused
    BY DEF Reply
  <1>a. \A h : h \in asked <=> h \in r.headers \ Added
    OBVIOUS
  <1>b. r.headers \ Added \subseteq DefaultCorsRequestHeaders \cup Custom
    BY FetchHeaderNames
  <1>c. (r.headers \ Added) \cap Custom = r.headers \cap Custom
    BY FetchHeaderNames
  <1> HIDE DEF p, asked, passed, refused
  <1>4. handleGrpcWebHttpRequest(p) = handleCorsPreflight(p)
    BY <1>2, <1>3 DEF handleGrpcWebHttpRequest
  <1>5. ASSUME \E h \in asked : Lower(h) \notin cors.headers PROVE ~ Preflighted(r)
    <2>1. handleCorsPreflight(p) = refused
      BY <1>2, <1>5 DEF handleCorsPreflight, refused
    <2>2. QED
      BY <1>4, <1>p, <1>q, <2>1
  <1>6. ASSUME \A h \in asked : Lower(h) \in cors.headers PROVE Preflighted(r)
    <2>1. ~ \E h \in p.requestHeaders : Lower(h) \notin cors.headers
      BY <1>2, <1>6
    <2>2. handleCorsPreflight(p) = Reply(204, TRUE)
      BY <1>2, <2>1 DEF handleCorsPreflight
    <2>3. QED
      BY <1>4, <1>p, <2>2 DEF passed
  <1>7. \A h \in asked : h \in DefaultCorsRequestHeaders \/ h \in r.headers \cap Custom
    BY <1>a, <1>b
  <1>8. \A h \in asked : Lower(h) = h
    BY <1>7, LowerOf
  <1>9. \A h \in r.headers \cap Custom : h \in asked /\ h \notin DefaultCorsRequestHeaders
    BY <1>a, <1>c, HttpPolicyAssumption
  <1>10. (\A h \in asked : Lower(h) \in cors.headers) <=>
           r.headers \cap Custom \subseteq {Lower(h) : h \in cors.additional}
    BY <1>1, <1>7, <1>8, <1>9
  <1>11. QED
    BY <1>5, <1>6, <1>10

\* The handler reads the content type the transport writes, and writes back in
\* the same.
LEMMA FetchEncodings ==
  ASSUME NEW e \in {"raw", "base64"}
  PROVE  LET t == grpcWebContentType(e)
         IN /\ grpcWebEncoding(t) = e /\ e # None
            /\ \A d : responseEncoding(t, d) = e
            /\ \A d : negotiateGrpcWebResponseEncoding(<<t>>, d) = e
  <1>1. None \notin {"raw", "base64"}
    BY HttpPolicyAssumption
  <1>2. grpcWebEncoding(grpcWebContentType(e)) = e /\ e # None
    BY <1>1 DEF grpcWebEncoding, grpcWebContentType
  <1>3. \A d : responseEncoding(grpcWebContentType(e), d) = e
    BY <1>2 DEF responseEncoding
  <1>4. ASSUME NEW d PROVE negotiateGrpcWebResponseEncoding(<<grpcWebContentType(e)>>, d) = e
    <2> DEFINE accept == <<grpcWebContentType(e)>>
               known == {i \in DOMAIN accept : grpcWebEncoding(accept[i]) # None}
    <2>1. known = {1} /\ accept[1] = grpcWebContentType(e)
      BY <1>2
    <2>2. (CHOOSE i \in known : \A j \in known : i <= j) = 1
      BY <2>1
    <2>3. QED
      BY <1>2, <2>1, <2>2 DEF negotiateGrpcWebResponseEncoding
  <1>5. QED
    BY <1>2, <1>3, <1>4

\* What the handler makes of a Fetch request: it is dispatched if the policy
\* allows its origin, or no policy applies.
LEMMA FetchReply ==
  ASSUME NEW r \in FetchRequests
  PROVE  LET a == handleGrpcWebHttpRequest(r)
         IN /\ a.status = 200 <=> cors = None \/ r.origin \in cors.origins
            /\ a.status = 200 =>
                 /\ a.allowed <=> cors # None
                 /\ a.decodes \in {"raw", "base64"} /\ a.encodes = a.decodes
                 /\ r.contentType = grpcWebContentType(a.decodes)
                 /\ a.inflates = "gzip" <=> "grpc-encoding" \in r.headers
                 /\ a.deflates = "gzip"
                 /\ a.metadata =
                      (r.headers \cap (MetadataNames \cup BrowserMetadata)) \ r.empty
  <1>p. PICK e \in {"raw", "base64"}, c \in BOOLEAN, m \in SUBSET MetadataNames,
             v \in SUBSET MetadataNames, b \in SUBSET BrowserMetadata,
             o \in Origins : r = FetchRequest(e, c, m, v, b, o)
    BY DEF FetchRequests
  <1>1. /\ r.method = "POST" /\ r.origin = o /\ r.contentType = grpcWebContentType(e)
        /\ r.accept = <<grpcWebContentType(e)>> /\ r.accepts = {"gzip"}
        /\ r.compression = IF c THEN "gzip" ELSE None
    BY <1>p DEF FetchRequest
  <1>2. o # None /\ None # "gzip"
    BY HttpPolicyAssumption
  <1>3. /\ grpcWebEncoding(r.contentType) = e /\ e # None
        /\ negotiateGrpcWebResponseEncoding(r.accept, e) = e
    BY <1>1, FetchEncodings
  <1>4. /\ parseGrpcWebCompressionEncoding(r.compression) = IF c THEN "gzip" ELSE "identity"
        /\ negotiatedResponseCompression(r.accepts) = "gzip"
    BY <1>1, <1>2 DEF parseGrpcWebCompressionEncoding, negotiatedResponseCompression
  <1>5. metadataFromRequest(r) =
          (r.headers \cap (MetadataNames \cup BrowserMetadata)) \ r.empty
    BY <1>p, FetchMetadata
  <1>6. LET a == Dispatched(r)
        IN /\ a.status = 200
           /\ a.allowed <=> cors # None
           /\ a.decodes = e /\ a.encodes = e
           /\ a.inflates = IF c THEN "gzip" ELSE "identity"
           /\ a.deflates = "gzip"
           /\ a.metadata = (r.headers \cap (MetadataNames \cup BrowserMetadata)) \ r.empty
    BY <1>1, <1>2, <1>3, <1>4, <1>5 DEF Dispatched
  <1>7. ASSUME cors # None, o \notin cors.origins
        PROVE  handleGrpcWebHttpRequest(r).status # 200
    <2>1. handleGrpcWebHttpRequest(r) = Reply(403, FALSE)
      BY <1>1, <1>2, <1>3, <1>7 DEF handleGrpcWebHttpRequest
    <2>2. handleGrpcWebHttpRequest(r) = [status |-> 403, allowed |-> FALSE]
      BY <2>1 DEF Reply
    <2>3. QED
      BY <2>2
  <1>8. cors = None \/ o \in cors.origins => handleGrpcWebHttpRequest(r) = Dispatched(r)
    BY <1>1, <1>2, <1>3 DEF handleGrpcWebHttpRequest
  <1>9. "grpc-encoding" \in r.headers <=> c
    BY <1>p, FetchHeaderNames
  <1>10. "gzip" # "identity"
    OBVIOUS
  <1>11. QED
    BY <1>1, <1>6, <1>7, <1>8, <1>9, <1>10

\* Server and Fetch transport agree for any origins, policies and names an
\* application may use.
THEOREM FetchIsServed == InitHttp /\ [][HttpNext]_http => []FetchServed
  <1>1. ASSUME HttpInv, reply # None, request.mine PROVE FetchServed
    <2>1. /\ reply = handleGrpcWebHttpRequest(request) /\ cors \in Policies
          /\ request \in Requests \cup Preflights \cup FetchRequests
      BY <1>1 DEF HttpInv
    <2>2. request \in FetchRequests
      <3>1. ASSUME request \in Requests PROVE ~ request.mine
        BY <3>1 DEF Requests
      <3>2. ASSUME request \in Preflights PROVE ~ request.mine
        BY <3>2 DEF Preflights
      <3>3. QED
        BY <1>1, <2>1, <3>1, <3>2
    <2>3. PICK e \in {"raw", "base64"}, c \in BOOLEAN, m \in SUBSET MetadataNames,
               v \in SUBSET MetadataNames, b \in SUBSET BrowserMetadata,
               o \in Origins : request = FetchRequest(e, c, m, v, b, o)
      BY <2>2 DEF FetchRequests
    <2>4. /\ request.origin = o /\ request.contentType = grpcWebContentType(e)
      BY <2>3 DEF FetchRequest
    <2>5. cors # None /\ request.origin \in cors.origins =>
            (Preflighted(request) <=>
               request.headers \cap Custom \subseteq {Lower(h) : h \in cors.additional})
      BY <2>1, <2>3, <2>4, PreflightOfFetch
    <2>6. Preflighted(request) => cors # None /\ o \in cors.origins
      <3>1. /\ PreflightOf(request).method = "OPTIONS" /\ PreflightOf(request).origin = o
        BY <2>3 DEF PreflightOf, FetchRequest
      <3>2. Reply(404, FALSE) # Reply(204, TRUE) /\ Reply(403, FALSE) # Reply(204, TRUE)
        BY DEF Reply
      <3>3. QED
        BY <3>1, <3>2, HttpPolicyAssumption
           DEF Preflighted, handleGrpcWebHttpRequest, handleCorsPreflight
    <2>7. /\ reply.status = 200 <=> cors = None \/ request.origin \in cors.origins
          /\ reply.status = 200 =>
               /\ reply.allowed <=> cors # None
               /\ reply.decodes \in {"raw", "base64"} /\ reply.encodes = reply.decodes
               /\ request.contentType = grpcWebContentType(reply.decodes)
               /\ reply.inflates = "gzip" <=> "grpc-encoding" \in request.headers
               /\ reply.deflates = "gzip"
               /\ reply.metadata =
                    (request.headers \cap (MetadataNames \cup BrowserMetadata)) \ request.empty
      BY <2>1, <2>2, FetchReply
    <2>10. \A e1, d \in {"raw", "base64"} : responseEncoding(grpcWebContentType(e1), d) = e1
      BY FetchEncodings
    <2>11. parseGrpcWebCompressionEncoding("gzip") # "unsupported"
      BY DEF parseGrpcWebCompressionEncoding
    <2>12. Preflighted(request) => reply.status = 200 /\ reply.allowed
      BY <2>4, <2>6, <2>7
    <2>13. reply.status = 200 =>
             /\ reply.metadata =
                  (request.headers \cap (MetadataNames \cup BrowserMetadata)) \ request.empty
             /\ grpcWebContentType(reply.decodes) = request.contentType
             /\ \A d \in {"raw", "base64"} :
                  responseEncoding(grpcWebContentType(reply.encodes), d) = reply.encodes
             /\ reply.encodes = reply.decodes
             /\ (reply.inflates = "gzip") = ("grpc-encoding" \in request.headers)
             /\ parseGrpcWebCompressionEncoding(reply.deflates) # "unsupported"
      BY <2>7, <2>10, <2>11
    <2>14. QED
      BY <2>5, <2>12, <2>13 DEF FetchServed
  <1>2. HttpInv => FetchServed
    BY <1>1 DEF FetchServed
  <1>3. QED
    BY <1>2, HttpInvariance, PTL
==============================================================================
