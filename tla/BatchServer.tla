----------------------------- MODULE BatchServer ------------------------------
(***************************************************************************)
(* The batch procedure on the server (packages/runtime/src/batch):         *)
(* createDirectBatchDispatcher and createForwardingBatchDispatcher around  *)
(* a dispatcher of single calls.  The dispatcher here is the direct or     *)
(* the forwarding one, abstracted to what the wrapper sees: messages       *)
(* emitted, and a status.                                                  *)
(*                                                                         *)
(* Calls of a batch run concurrently and settle in any order; the browser  *)
(* may go away at any time.                                                *)
(***************************************************************************)
EXTENDS Naturals, Sequences, FiniteSets

CONSTANTS
  MaxCalls,     \* bound on the calls of a batch
  Paths,        \* of the procedures the schema maps
  Streams,      \* those of them that are subscriptions
  Codes         \* errors of procedures, other than those named below

ASSUME BatchServerAssumption == MaxCalls \in Nat \ {0} /\ Streams \subseteq Paths

OK == "OK"
Unmapped == "unmapped"          \* the path of no procedure

VARIABLES
  mode,         \* "direct" or "forward"
  calls,        \* the calls of the batch
  context,      \* none, creating, shared, failed
  contexts,     \* contexts the application has been asked for
  pc,           \* the wrapper: none, context, items, returned, rejected
  item,         \* per call: waiting, running, or its BatchWireResult
  outputs,      \* per call: what the dispatcher has emitted for it
  aborted,      \* the signal of the request
  emitted,      \* the responses emitted: none or one
  status        \* what the wrapper resolves with

batch == <<mode, calls, context, contexts, pc, item, outputs, aborted, emitted, status>>

Ids == 0..MaxCalls
Call == [id : Ids, path : Paths \cup {Unmapped, ""}]
Indices == DOMAIN calls

InitBatch ==
  /\ mode = "direct" /\ calls = <<>> /\ context = "none" /\ contexts = 0 /\ pc = "none"
  /\ item = <<>> /\ outputs = <<>> /\ aborted = FALSE /\ emitted = <<>> /\ status = "none"

-----------------------------------------------------------------------------
(* Validation and results *)

\* [mutant] two calls may have one id
decodeBatchCallsAnyId(cs) ==
  \A i \in DOMAIN cs : cs[i].id > 0 /\ cs[i].path # ""

\* decodeBatchCalls accepts: calls with unique positive ids and paths.  Id 0 and
\* path "" stand for what is missing, too; no calls at all are fine.
decodeBatchCalls(cs) ==
  /\ \A i \in DOMAIN cs : cs[i].id > 0 /\ cs[i].path # ""
  /\ \A i, j \in DOMAIN cs : i # j => cs[i].id # cs[j].id

itemError(call, code) == [result |-> "error", id |-> call.id, code |-> code]

\* What executeCall returns once the dispatcher has: its status, or one message.
ItemResult(call, code, out) ==
  IF code # OK THEN itemError(call, code)
  ELSE IF Len(out) # 1 THEN itemError(call, "INTERNAL")
  ELSE [result |-> "success", id |-> call.id, output |-> out[1]]

\* What a procedure answers, told from another's.
Answer(call) == <<"answer", call.path, call.id>>

-----------------------------------------------------------------------------
(* The wrapper *)

\* The procedures of the schema, and whether they respond with a stream.
batchRoutes == [path \in Paths |-> [responseStream |-> path \in Streams]]

\* executeCall refuses a path without a unary route, else dispatches.
Start(call) ==
  IF call.path \notin DOMAIN batchRoutes \/ batchRoutes[call.path].responseStream
  THEN itemError(call, "UNIMPLEMENTED")
  ELSE [result |-> "running"]

\* Promise.all over the calls: all of them start at once.
ExecuteCalls(cs) ==
  /\ pc' = "items"
  /\ item' = [i \in DOMAIN cs |-> Start(cs[i])]

\* A batch arrives; with a bad envelope nothing runs.
Receive ==
  /\ pc = "none"
  /\ mode' \in {"direct", "forward"}
  /\ calls' \in UNION {[1..n -> Call] : n \in 0..MaxCalls}
  /\ outputs' = [i \in DOMAIN calls' |-> <<>>]
  /\ \/ /\ ~decodeBatchCalls(calls')
        /\ pc' = "returned" /\ status' = "INVALID_ARGUMENT"
        /\ UNCHANGED <<item, context, contexts>>
     \/ /\ decodeBatchCalls(calls') /\ mode' = "direct"
        /\ pc' = "context" /\ context' = "creating" /\ contexts' = contexts + 1
        /\ UNCHANGED <<item, status>>
     \/ /\ decodeBatchCalls(calls') /\ mode' = "forward"
        /\ ExecuteCalls(calls')
        /\ UNCHANGED <<context, contexts, status>>
  /\ UNCHANGED <<aborted, emitted>>

\* The application has made the context all the calls share.
ContextCreated ==
  /\ pc = "context"
  /\ context' = "shared"
  /\ ExecuteCalls(calls)
  /\ UNCHANGED <<mode, calls, contexts, outputs, aborted, emitted, status>>

\* It throws: the wrapper rejects, and the handler answers INTERNAL for all.
ContextFails ==
  /\ pc = "context"
  /\ context' = "failed" /\ pc' = "rejected" /\ status' = "INTERNAL"
  /\ UNCHANGED <<mode, calls, contexts, item, outputs, aborted, emitted>>

Running(i) == pc = "items" /\ item[i].result = "running"

\* The dispatcher emits the answer of a call.
EmitOutput(i) ==
  /\ Running(i) /\ outputs[i] = <<>>
  /\ outputs' = [outputs EXCEPT ![i] = Append(@, Answer(calls[i]))]
  /\ UNCHANGED <<mode, calls, context, contexts, pc, item, aborted, emitted, status>>

\* The dispatcher resolves.  The direct one reads the signal when the procedure
\* has answered; a backend may cancel a call, or report OK without a message.
DispatchResolves(i, code) ==
  /\ Running(i)
  /\ code = OK /\ mode = "direct" => outputs[i] # <<>> /\ ~aborted
  /\ code = "CANCELLED" /\ mode = "direct" => outputs[i] # <<>> /\ aborted
  /\ code = "CANCELLED" /\ mode = "forward" => outputs[i] = <<>>
  /\ code \in Codes => outputs[i] = <<>>
  /\ item' = [item EXCEPT ![i] = ItemResult(calls[i], code, outputs[i])]
  /\ UNCHANGED <<mode, calls, context, contexts, pc, outputs, aborted, emitted, status>>

\* The dispatcher rejects: the forwarding one throws where the metadata of the request
\* is none gRPC takes, or its client is closed.  So does Promise.all, and with it the
\* wrapper; what the other calls come to reaches nobody.
DispatchRejects(i) ==
  /\ Running(i) /\ mode = "forward" /\ outputs[i] = <<>>
  /\ pc' = "rejected" /\ status' = "INTERNAL"
  /\ UNCHANGED <<mode, calls, context, contexts, item, outputs, aborted, emitted>>

\* The browser goes away.
Abort ==
  /\ pc \notin {"none", "returned", "rejected"} /\ ~aborted
  /\ aborted' = TRUE
  /\ UNCHANGED <<mode, calls, context, contexts, pc, item, outputs, emitted, status>>

\* [mutant] Promise.all of successes
AllSucceeded == \A i \in Indices : item[i].result = "success"

AllSettled == \A i \in Indices : item[i].result # "running"

\* All have settled: the response, in the order of the calls.
Respond ==
  /\ pc = "items" /\ AllSettled /\ ~aborted
  /\ pc' = "returned" /\ emitted' = <<item>> /\ status' = OK
  /\ UNCHANGED <<mode, calls, context, contexts, item, outputs, aborted>>

\* All have settled, but nobody waits any more.
Cancelled ==
  /\ pc = "items" /\ AllSettled /\ aborted
  /\ pc' = "returned" /\ status' = "CANCELLED"
  /\ UNCHANGED <<mode, calls, context, contexts, item, outputs, aborted, emitted>>

Execute(i) ==
  \/ EmitOutput(i) \/ DispatchRejects(i)
  \/ \E code \in Codes \cup {OK, "CANCELLED"} : DispatchResolves(i, code)

BatchNext ==
  \/ Receive \/ ContextCreated \/ ContextFails
  \/ \E i \in Indices : Execute(i)
  \/ Abort \/ Respond \/ Cancelled

BatchSpec == InitBatch /\ [][BatchNext]_batch

\* The application's procedures, its context and the backend answer some time.
FairBatch ==
  /\ WF_batch(ContextCreated \/ ContextFails)
  /\ \A i \in 1..MaxCalls :
       WF_batch(i \in Indices /\ \E c \in Codes \cup {OK, "CANCELLED"} : DispatchResolves(i, c))
  /\ WF_batch(Respond \/ Cancelled)
-----------------------------------------------------------------------------
(* Properties *)

\* The response holds one result for each call, under its id and in its place: a
\* success is the answer of that very call, and a path without a unary route
\* never runs.  The calls of a direct batch share one context (README.md:240).
Matched ==
  \A n \in DOMAIN emitted :
    LET results == emitted[n]
    IN /\ contexts = IF mode = "direct" THEN 1 ELSE 0
       /\ DOMAIN results = Indices
       /\ \A i \in Indices : results[i].result \in {"success", "error"}
       /\ \A i, j \in Indices : results[i].id = results[j].id => i = j
       /\ \A i \in Indices :
            /\ results[i].id = calls[i].id
            /\ results[i].result = "success" => results[i].output = Answer(calls[i])
            /\ calls[i].path \notin Paths \ Streams =>
                 outputs[i] = <<>> /\ results[i].code = "UNIMPLEMENTED"

\* A batch comes to an end whatever its calls do, as long as each settles.
BatchSettles == pc \in {"context", "items"} ~> pc \in {"returned", "rejected"}
=============================================================================
