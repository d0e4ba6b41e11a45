------------------------------ MODULE BatchLink ------------------------------
(***************************************************************************)
(* The browser's batching link                                             *)
(* (packages/runtime/src/batch/link/web_link.ts).                          *)
(*                                                                         *)
(* Calls are queued per procedure type and flushed by a microtask.  A      *)
(* flush is an async function that splits what it took into groups of at   *)
(* most MaxItems and sends them one after another, each as one batch RPC.  *)
(* JavaScript runs to completion: `running' is the flush whose synchronous *)
(* code is on the stack.  The application acts (subscribes, unsubscribes,  *)
(* aborts a signal) when nothing runs, or re-entrantly from the observer   *)
(* callback of a call that has just settled (`callback').                  *)
(***************************************************************************)
EXTENDS Naturals, Sequences

CONSTANTS Calls,      \* the operations an application may issue
          OpType,     \* op.type of each of them
          MaxItems,   \* largest number of calls in one batch request
          Surplus,    \* bound on the results an answer holds beyond its calls
          Flushes,    \* slots for the async flush functions alive at once
          NoFlush     \* "no flush": undefined abortBatch, empty call stack

Queues == {"query", "mutation"}

ASSUME ConstantsAssumption ==
  /\ OpType \in [Calls -> Queues \cup {"subscription"}]
  /\ MaxItems \in Nat \ {0} /\ Surplus \in Nat
  /\ NoFlush \notin Flushes

VARIABLES
  subscribed, \* the observable of a call has been subscribed to
  aborted,    \* op.signal.aborted
  torn,       \* the teardown of the observable has run
  completed,  \* `completed' in link()
  cancelled,  \* item.cancelled
  notified,   \* what the observer of a call has been told
  abortBatch, \* item.abortBatch: the flush whose request it would abort
  pending,    \* per queue: calls waiting for the microtask
  scheduled,  \* per queue: the flush microtask is queued
  pc,         \* per flush: where its async function stands
  type,       \* per flush: the queue it drains
  todo,       \* per flush: calls of the groups not yet started
  active,     \* per flush: calls of the group still to be encoded
  request,    \* per flush: request.calls; a call's id is its position
  unused,     \* per flush: controller.signal.aborted
  results,    \* per flush: results of the decoded response
  at,         \* per flush: position of the loop over byId
  running,    \* the flush on the stack, or NoFlush
  callback    \* an observer callback of a settled call is on the stack

itemVars   == <<subscribed, aborted, torn, completed, cancelled, notified>>
queueVars  == <<pending, scheduled>>
flushVars  == <<pc, type, todo, active, request, results, at>>
vars == <<itemVars, abortBatch, unused, queueVars, flushVars, running, callback>>

Causes == {"unsupported", "unmapped", "encode", "transport", "omitted",
           "status", "decode"}

\* What an observer is told: data decoded from the answer to call `of', or
\* an error.
Data(c)  == [kind |-> "data", of |-> c]
Error(e) == [kind |-> "error", cause |-> e]
Outcomes == {Data(c) : c \in Calls} \cup {Error(e) : e \in Causes}

\* An entry of BatchResponse.results.  The server computes it from the call
\* whose id it carries.
Results == [id : Nat, result : {"output", "error"}]

Members(s) == {s[i] : i \in DOMAIN s}

-----------------------------------------------------------------------------
Init ==
  /\ subscribed = [c \in Calls |-> FALSE]
  /\ aborted = [c \in Calls |-> FALSE]
  /\ torn = [c \in Calls |-> FALSE]
  /\ completed = [c \in Calls |-> FALSE]
  /\ cancelled = [c \in Calls |-> FALSE]
  /\ notified = [c \in Calls |-> <<>>]
  /\ abortBatch = [c \in Calls |-> NoFlush]
  /\ pending = [q \in Queues |-> <<>>]
  /\ scheduled = [q \in Queues |-> FALSE]
  /\ pc = [f \in Flushes |-> "idle"]
  /\ type = [f \in Flushes |-> "query"]
  /\ todo = [f \in Flushes |-> <<>>]
  /\ active = [f \in Flushes |-> <<>>]
  /\ request = [f \in Flushes |-> <<>>]
  /\ unused = [f \in Flushes |-> FALSE]
  /\ results = [f \in Flushes |-> <<>>]
  /\ at = [f \in Flushes |-> 1]
  /\ running = NoFlush
  /\ callback = FALSE

-----------------------------------------------------------------------------
(* The item of a call *)

\* [mutant] any call that leaves takes the request with it
UnusedEager(c, gone) == {f \in Flushes : abortBatch[c] = f}

\* [mutant] looks at the signals and forgets who unsubscribed
UnusedSignals(c, gone) ==
  {f \in Flushes : abortBatch[c] = f /\ \A d \in Members(request[f]) : aborted[d]}

\* abortWhenUnused, run for call c once `gone' are the cancelled items: the
\* flush whose request no live call waits for any more, if c's is one.
Unused(c, gone) ==
  {f \in Flushes : abortBatch[c] = f /\ \A d \in Members(request[f]) : gone[d]}

\* abort(): mark the item and abort the request when it was its last user.
Abort(c) ==
  /\ cancelled' = [cancelled EXCEPT ![c] = TRUE]
  /\ unused' = [f \in Flushes |-> unused[f] \/ f \in Unused(c, cancelled')]

\* deliver() and fail(): tell the observer, unless it has been told or has
\* gone; complete() and error() then run the teardown, which is abort().
Settle(c, outcome) ==
  IF completed[c] \/ cancelled[c]
  THEN /\ callback' = FALSE
       /\ UNCHANGED <<torn, completed, cancelled, notified, unused>>
  ELSE /\ completed' = [completed EXCEPT ![c] = TRUE]
       /\ notified' = [notified EXCEPT ![c] = Append(@, outcome)]
       /\ torn' = [torn EXCEPT ![c] = TRUE]
       /\ Abort(c)
       /\ callback' = TRUE

-----------------------------------------------------------------------------
(* The application *)

\* Application code runs: from the event loop or inside an observer callback.
AppTurn == running = NoFlush \/ callback

\* The queue link() hands a call to.
QueueOf(c) == OpType[c]

\* The application subscribes to a query or a mutation.
Subscribe(c) ==
  /\ AppTurn
  /\ ~subscribed[c]
  /\ OpType[c] \in Queues
  /\ subscribed' = [subscribed EXCEPT ![c] = TRUE]
  /\ cancelled' = [cancelled EXCEPT ![c] = aborted[c]]
  /\ pending' = [pending EXCEPT ![QueueOf(c)] = Append(@, c)]
  /\ scheduled' = [scheduled EXCEPT ![QueueOf(c)] = TRUE]
  /\ UNCHANGED <<aborted, torn, completed, notified, abortBatch, unused,
                 flushVars, running, callback>>

\* A subscription is refused on the spot.
RefuseSubscription(c) ==
  /\ AppTurn
  /\ ~subscribed[c]
  /\ OpType[c] = "subscription"
  /\ subscribed' = [subscribed EXCEPT ![c] = TRUE]
  /\ torn' = [torn EXCEPT ![c] = TRUE]
  /\ notified' = [notified EXCEPT ![c] = Append(@, Error("unsupported"))]
  /\ UNCHANGED <<aborted, completed, cancelled, abortBatch, unused,
                 queueVars, flushVars, running, callback>>

\* The application unsubscribes: the teardown runs, once.
Unsubscribe(c) ==
  /\ AppTurn
  /\ subscribed[c] /\ ~torn[c]
  /\ torn' = [torn EXCEPT ![c] = TRUE]
  /\ Abort(c)
  /\ UNCHANGED <<subscribed, aborted, completed, notified, abortBatch,
                 queueVars, flushVars, running, callback>>

\* op.signal aborts.  The listener is there from subscription to settlement.
SignalAbort(c) ==
  /\ AppTurn
  /\ ~aborted[c]
  /\ aborted' = [aborted EXCEPT ![c] = TRUE]
  /\ IF subscribed[c] /\ OpType[c] \in Queues /\ ~completed[c]
     THEN Abort(c)
     ELSE UNCHANGED <<cancelled, unused>>
  /\ UNCHANGED <<subscribed, torn, completed, notified, abortBatch,
                 queueVars, flushVars, running, callback>>

-----------------------------------------------------------------------------
(* The flush microtask and the groups *)

\* flush(): take what is pending; its async function starts synchronously.
Flush(q, f) ==
  /\ running = NoFlush
  /\ scheduled[q]
  /\ pc[f] = "idle"
  /\ scheduled' = [scheduled EXCEPT ![q] = FALSE]
  /\ pending' = [pending EXCEPT ![q] = <<>>]
  /\ pc' = [pc EXCEPT ![f] = "next"]
  /\ type' = [type EXCEPT ![f] = q]
  /\ todo' = [todo EXCEPT ![f] = pending[q]]
  /\ running' = f
  /\ UNCHANGED <<itemVars, abortBatch, unused, active, request, results, at,
                 callback>>

\* [mutant] one call too many
GroupSizePlusOne(s) == IF Len(s) <= MaxItems THEN Len(s) ELSE MaxItems + 1

GroupSize(s) == IF Len(s) < MaxItems THEN Len(s) ELSE MaxItems
Group(s) == SubSeq(s, 1, GroupSize(s))

\* [mutants] the next group starts one call late, or one call early
RestLate(s)  == SubSeq(s, GroupSize(s) + 2, Len(s))
RestEarly(s) == SubSeq(s, GroupSize(s), Len(s))

Rest(s)  == SubSeq(s, GroupSize(s) + 1, Len(s))

Live(c) == ~cancelled[c] /\ ~aborted[c]

\* items.filter(): the positions of the live calls of s, in their order.
LivePositions(s) ==
  LET P == {i \in DOMAIN s : Live(s[i])} IN
  {h \in UNION {[1..k -> P] : k \in 0..Len(s)} :
     /\ \A i, j \in DOMAIN h : i < j => h[i] < h[j]
     /\ \A p \in P : \E i \in DOMAIN h : h[i] = p}

\* #execute starts on the next group: calls cancelled meanwhile drop out.
StartGroup(f) ==
  /\ running \in {NoFlush, f}
  /\ pc[f] = "next" /\ todo[f] # <<>>
  /\ \E h \in LivePositions(Group(todo[f])) :
       active' = [active EXCEPT ![f] = [i \in DOMAIN h |-> todo[f][h[i]]]]
  /\ todo' = [todo EXCEPT ![f] = Rest(@)]
  /\ pc' = [pc EXCEPT ![f] = "prepare"]
  /\ running' = f
  /\ UNCHANGED <<itemVars, abortBatch, unused, queueVars, type, request,
                 results, at, callback>>

\* No group is left: the async function returns.
FlushDone(f) ==
  /\ running \in {NoFlush, f}
  /\ pc[f] = "next" /\ todo[f] = <<>>
  /\ pc' = [pc EXCEPT ![f] = "idle"]
  /\ running' = NoFlush
  /\ UNCHANGED <<itemVars, abortBatch, unused, queueVars, type, todo, active,
                 request, results, at, callback>>

\* The loop over `active', one call at a time: no unary rpc has its path, or
\* its input does not encode ...
PrepareFails(f) ==
  /\ running = f
  /\ pc[f] = "prepare" /\ active[f] # <<>>
  /\ \E cause \in {"unmapped", "encode"} : Settle(Head(active[f]), Error(cause))
  /\ active' = [active EXCEPT ![f] = Tail(@)]
  /\ UNCHANGED <<subscribed, aborted, abortBatch, queueVars, pc, type, todo,
                 request, results, at, running>>

\* ... or it joins the request, under the next id.
PrepareCall(f) ==
  /\ running = f
  /\ pc[f] = "prepare" /\ active[f] # <<>>
  /\ request' = [request EXCEPT ![f] = Append(@, Head(active[f]))]
  /\ active' = [active EXCEPT ![f] = Tail(@)]
  /\ callback' = FALSE
  /\ UNCHANGED <<itemVars, abortBatch, unused, queueVars, pc, type, todo,
                 results, at, running>>

\* Nothing to send: #execute returns.
SkipGroup(f) ==
  /\ running = f
  /\ pc[f] = "prepare" /\ active[f] = <<>> /\ request[f] = <<>>
  /\ pc' = [pc EXCEPT ![f] = "next"]
  /\ running' = NoFlush
  /\ callback' = FALSE
  /\ UNCHANGED <<itemVars, abortBatch, unused, queueVars, type, todo, active,
                 request, results, at>>

\* The request leaves with a fresh AbortController; #execute awaits it.
Send(f) ==
  /\ running = f
  /\ pc[f] = "prepare" /\ active[f] = <<>> /\ request[f] # <<>>
  /\ abortBatch' = [c \in Calls |->
                      IF c \in Members(request[f]) THEN f ELSE abortBatch[c]]
  /\ pc' = [pc EXCEPT ![f] = "await"]
  /\ running' = NoFlush
  /\ callback' = FALSE
  /\ UNCHANGED <<itemVars, unused, queueVars, type, todo, active, request,
                 results, at>>

-----------------------------------------------------------------------------
(* The answer *)

DistinctIds(R) == \A i, j \in DOMAIN R : R[i].id = R[j].id => i = j

\* [mutant] a failed RPC goes unreported
CatchPcSilent(f) == "finally"

\* The catch clause fails the calls, unless the request was given up.
CatchPc(f) == IF unused[f] THEN "finally" ELSE "catch"

\* The RPC fails, or its answer is a stream or does not decode.
Reject(f) ==
  /\ running = NoFlush
  /\ pc[f] = "await"
  /\ pc' = [pc EXCEPT ![f] = CatchPc(f)]
  /\ running' = f
  /\ UNCHANGED <<itemVars, abortBatch, unused, queueVars, type, todo, active,
                 request, results, at, callback>>

\* The RPC answers with results R: in any order, some missing, repeated or nobody's.
Respond(f, R) ==
  /\ running = NoFlush
  /\ pc[f] = "await"
  /\ pc' = [pc EXCEPT ![f] = IF DistinctIds(R) THEN "deliver" ELSE CatchPc(f)]
  /\ results' = [results EXCEPT ![f] = IF DistinctIds(R) THEN R ELSE <<>>]
  /\ running' = f
  /\ UNCHANGED <<itemVars, abortBatch, unused, queueVars, type, todo, active,
                 request, at, callback>>

\* [mutant] the ids of the results are taken to be counted from 0
ResultsFromZero(R, id) == {R[i] : i \in {j \in DOMAIN R : R[j].id = id - 1}}

ResultsFor(R, id) == {R[i] : i \in {j \in DOMAIN R : R[j].id = id}}

\* [mutant] the observer gets the entry itself, not what it decodes to
VerdictsRaw(R, calls, id) ==
  IF ResultsFor(R, id) = {} THEN {Error("omitted")} ELSE ResultsFor(R, id)

\* What the loop over byId may tell the call with this id.
Verdicts(R, calls, id) ==
  IF ResultsFor(R, id) = {} THEN {Error("omitted")}
  ELSE UNION {IF r.result = "error" THEN {Error("status")}
              ELSE {Data(calls[r.id]), Error("decode")} : r \in ResultsFor(R, id)}

\* The loop over byId, one call at a time.
Deliver(f) ==
  /\ running = f
  /\ pc[f] = "deliver" /\ at[f] \in DOMAIN request[f]
  /\ \E outcome \in Verdicts(results[f], request[f], at[f]) :
       Settle(request[f][at[f]], outcome)
  /\ at' = [at EXCEPT ![f] = @ + 1]
  /\ UNCHANGED <<subscribed, aborted, abortBatch, queueVars, pc, type, todo,
                 active, request, results, running>>

\* The loop of the catch clause, one call at a time.
FailOne(f) ==
  /\ running = f
  /\ pc[f] = "catch" /\ at[f] \in DOMAIN request[f]
  /\ Settle(request[f][at[f]], Error("transport"))
  /\ at' = [at EXCEPT ![f] = @ + 1]
  /\ UNCHANGED <<subscribed, aborted, abortBatch, queueVars, pc, type, todo,
                 active, request, results, running>>

\* The finally clause; the request, its controller and its answer are dropped.
Finally(f) ==
  /\ running = f
  /\ \/ pc[f] \in {"deliver", "catch"} /\ at[f] \notin DOMAIN request[f]
     \/ pc[f] = "finally"
  /\ abortBatch' = [c \in Calls |->
                      IF c \in Members(request[f]) THEN NoFlush ELSE abortBatch[c]]
  /\ pc' = [pc EXCEPT ![f] = "next"]
  /\ request' = [request EXCEPT ![f] = <<>>]
  /\ results' = [results EXCEPT ![f] = <<>>]
  /\ at' = [at EXCEPT ![f] = 1]
  /\ unused' = [unused EXCEPT ![f] = FALSE]
  /\ running' = NoFlush
  /\ callback' = FALSE
  /\ UNCHANGED <<itemVars, queueVars, type, todo, active>>

-----------------------------------------------------------------------------
\* Responses a server may give to n calls: entries for them and for a call that is
\* not among them (one kind will do: nobody reads its result), in any order, with
\* omissions and repetitions.
Responses(n) ==
  LET entries == [id : 1..n, result : {"output", "error"}]
                   \cup {[id |-> n + 1, result |-> "output"]}
  IN UNION {[1..k -> entries] : k \in 0..n + Surplus}

App(c) ==
  Subscribe(c) \/ RefuseSubscription(c) \/ Unsubscribe(c) \/ SignalAbort(c)

\* The synchronous code of a flush.
Run(f) ==
  \/ StartGroup(f) \/ FlushDone(f)
  \/ PrepareFails(f) \/ PrepareCall(f) \/ SkipGroup(f) \/ Send(f)
  \/ Deliver(f) \/ FailOne(f) \/ Finally(f)

\* The event loop resumes a flush with the outcome of its RPC.
Answer(f) == Reject(f) \/ \E R \in Responses(Len(request[f])) : Respond(f, R)

Next ==
  \/ \E c \in Calls : App(c)
  \/ \E q \in Queues, f \in Flushes : Flush(q, f)
  \/ \E f \in Flushes : Run(f) \/ Answer(f)

Spec == Init /\ [][Next]_vars

\* JavaScript's scheduler: microtasks run and code on the stack continues;
\* fetch ends every RPC one way or another.
Fairness ==
  /\ \A q \in Queues : WF_vars(\E f \in Flushes : Flush(q, f))
  /\ \A f \in Flushes : WF_vars(Run(f)) /\ WF_vars(Answer(f))

FairSpec == Spec /\ Fairness
-----------------------------------------------------------------------------
(* Properties *)

TypeOK ==
  /\ subscribed \in [Calls -> BOOLEAN]
  /\ aborted \in [Calls -> BOOLEAN]
  /\ torn \in [Calls -> BOOLEAN]
  /\ completed \in [Calls -> BOOLEAN]
  /\ cancelled \in [Calls -> BOOLEAN]
  /\ notified \in [Calls -> Seq(Outcomes)]
  /\ abortBatch \in [Calls -> Flushes \cup {NoFlush}]
  /\ pending \in [Queues -> Seq(Calls)]
  /\ scheduled \in [Queues -> BOOLEAN]
  /\ pc \in [Flushes -> {"idle", "next", "prepare", "await", "deliver",
                         "catch", "finally"}]
  /\ type \in [Flushes -> Queues]
  /\ todo \in [Flushes -> Seq(Calls)]
  /\ active \in [Flushes -> Seq(Calls)]
  /\ request \in [Flushes -> Seq(Calls)]
  /\ unused \in [Flushes -> BOOLEAN]
  /\ results \in [Flushes -> Seq(Results)]
  /\ at \in [Flushes -> Nat \ {0}]
  /\ running \in Flushes \cup {NoFlush}
  /\ callback \in BOOLEAN

\* Positions of the calls a flush has still to deal with.
Left(f) == {i \in DOMAIN request[f] : i >= at[f]}

\* Someone still holds the call and will come back to it: the queue with its
\* microtask, a group not yet started, the loop over `active', or the request
\* being awaited or settled.
Waiting(c) ==
  \/ \E q \in Queues : scheduled[q] /\ c \in Members(pending[q])
  \/ \E f \in Flushes :
       /\ pc[f] # "idle"
       /\ \/ c \in Members(todo[f]) \cup Members(active[f])
          \/ \E i \in Left(f) : request[f][i] = c

\* No call is lost: one that the application has made and not given up has
\* been told its outcome or is still held, through splitting, encoding errors,
\* failed and incomplete answers, and callbacks that re-enter the link.
NoLostCall ==
  \A c \in Calls :
    subscribed[c] => notified[c] # <<>> \/ cancelled[c] \/ Waiting(c)

\* A request in flight is aborted only when every call in it has gone: nobody
\* can take down the calls that share its batch.
AbortOnlyWhenUnused ==
  \A f \in Flushes : unused[f] => \A c \in Members(request[f]) : cancelled[c]

InFlight(f) == pc[f] \in {"await", "deliver", "catch"}
AllGone(f) == \A c \in Members(request[f]) : cancelled[c]

\* The call that leaves last takes the request in flight with it.
LastCancelAborts ==
  [][\A f \in Flushes :
       InFlight(f) /\ InFlight(f)' /\ ~AllGone(f) /\ AllGone(f)' => unused'[f]]_vars

Holders == ({"pending"} \X Queues) \cup ({"todo", "active", "request"} \X Flushes)
Held(h) ==
  CASE h[1] = "pending" -> pending[h[2]]
    [] h[1] = "todo"    -> todo[h[2]]
    [] h[1] = "active"  -> active[h[2]]
    [] h[1] = "request" -> request[h[2]]

\* A call is held in one place at a time, once: no mutation is sent twice.
HeldOnce ==
  \A g, h \in Holders : \A i \in DOMAIN Held(g), j \in DOMAIN Held(h) :
    Held(g)[i] = Held(h)[j] => g = h /\ i = j

\* Every request holds calls of the type of its queue only, and at most
\* MaxItems of them.
WellFormedBatch ==
  \A f \in Flushes :
    /\ Len(request[f]) <= MaxItems
    /\ \A c \in Members(request[f]) : OpType[c] = type[f]

\* Where a call stands, as its observer sees it.
Status ==
  [c \in Calls |-> IF ~subscribed[c] THEN "new"
                   ELSE IF notified[c] # <<>> THEN "told"
                   ELSE IF cancelled[c] THEN "gone"
                   ELSE "open"]

Promise == INSTANCE CallPromise WITH
  Errors <- {Error(e) : e \in Causes}, told <- notified, status <- Status

\* The link implements the promise made to the observer of every call.
KeepsPromise == Promise!Spec

\* A call is answered, unless the application gives it up: no group waits
\* for ever behind another one, no microtask is missed, no item forgotten.
Answered ==
  \A c \in Calls : subscribed[c] ~> notified[c] # <<>> \/ cancelled[c]
-----------------------------------------------------------------------------
(* The inductive invariant behind NoLostCall and the promise *)

\* A queue that holds calls has its microtask scheduled.
QueueWakes == \A q \in Queues : pending[q] # <<>> => scheduled[q]

\* What a flush holds at each point of its async function.
FlushHolds ==
  \A f \in Flushes :
    /\ pc[f] = "idle" => todo[f] = <<>>
    /\ pc[f] # "prepare" => active[f] = <<>>
    /\ pc[f] \in {"idle", "next"} => request[f] = <<>>
    /\ pc[f] \in {"idle", "next", "prepare", "await"} => at[f] = 1
    /\ pc[f] \in {"idle", "next", "prepare"} => ~unused[f]
    /\ pc[f] = "finally" => unused[f]
    /\ Len(active[f]) + Len(request[f]) <= MaxItems

\* Only the calls of a request that has been sent can abort it.
AbortsOwnRequest ==
  \A c \in Calls, f \in Flushes :
    abortBatch[c] = f =>
      pc[f] \in {"await", "deliver", "catch", "finally"} /\ c \in Members(request[f])

\* Every call held anywhere is subscribed and of the type of its holder.
HeldCalls ==
  /\ \A q \in Queues : \A c \in Members(pending[q]) : subscribed[c] /\ OpType[c] = q
  /\ \A f \in Flushes :
       \A c \in Members(todo[f]) \cup Members(active[f]) \cup Members(request[f]) :
         subscribed[c] /\ OpType[c] = type[f]

\* The flags of an item and what its observer has been told agree.
ItemFlags ==
  \A c \in Calls :
    /\ ~subscribed[c] => ~cancelled[c] /\ ~completed[c] /\ notified[c] = <<>>
    /\ completed[c] => notified[c] # <<>>
    /\ notified[c] # <<>> /\ OpType[c] \in Queues => completed[c]
    /\ subscribed[c] /\ aborted[c] /\ OpType[c] \in Queues =>
         cancelled[c] \/ completed[c]

IInv ==
  /\ TypeOK
  /\ QueueWakes
  /\ FlushHolds
  /\ AbortsOwnRequest
  /\ HeldCalls
  /\ ItemFlags
  /\ AbortOnlyWhenUnused
  /\ NoLostCall
=============================================================================
