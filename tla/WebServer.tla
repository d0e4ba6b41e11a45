------------------------------- MODULE WebServer ------------------------------
(***************************************************************************)
(* serveGrpcWeb (packages/runtime/src/web/server.ts): the HTTP listener in *)
(* front of the gRPC-Web handler, and the gRPC client a forwarding handler *)
(* owns, from listening to close.  HttpExchange is what happens within one *)
(* request; here a connection comes and ends, and each of its requests is  *)
(* dispatched, answered or fails.                                          *)
(*                                                                         *)
(* Node's http server is external: it takes one request at a time from a   *)
(* connection; a connection may end at any time, also with a handler at    *)
(* work, which goes on; close() takes no connection any more and calls     *)
(* back when the last one has ended, with an error if nothing listened.    *)
(***************************************************************************)
EXTENDS Naturals, Sequences, FiniteSets

CONSTANTS
  Connections,  \* connections of browsers
  Ports         \* ports an address may name

ASSUME WebServerAssumption == Ports \subseteq Nat

VARIABLES
  listenAt,     \* the port of the address option
  upstream,     \* the client of a forwarding handler: none, open, closed
  listener,     \* none, listening, bound, failed, closing, closed
  boundPort,    \* the port the listener is bound to, 0 before
  link,         \* per connection: none, open, ended
  answer,       \* the handler of its latest request: none, handling, forwarding,
                \*   handled, refused, notFound, destroyed
  closeCalls,   \* calls of close(), and how each settles: pending, resolved, rejected
  outcome       \* serveGrpcWeb: pending, resolved, rejected

web == <<listenAt, upstream, listener, boundPort, link, answer, closeCalls, outcome>>

InitWeb ==
  /\ listenAt = 0 /\ upstream = "none" /\ listener = "none" /\ boundPort = 0
  /\ link = [x \in Connections |-> "none"] /\ answer = [x \in Connections |-> "none"]
  /\ closeCalls = <<>> /\ outcome = "pending"

-----------------------------------------------------------------------------
(* Listening *)

\* listenTarget: a URL has no port of its own where it names the default one of
\* its scheme, and Number("") is 0.
listenTarget(port) == IF port = 80 THEN 0 ELSE port

MaxPort == 65535
SomePort == 49152       \* a port the system picks

\* An address out of range: serveGrpcWeb rejects before it makes anything.
RefuseAddress ==
  /\ listener = "none"
  /\ listenAt' \in Ports /\ listenAt' > MaxPort
  /\ listener' = "failed" /\ outcome' = "rejected"
  /\ UNCHANGED <<upstream, boundPort, link, answer, closeCalls>>

\* A forwarding handler makes its client, and owns it.
createHandler == upstream' \in {"none", "open"}
closeUpstream == upstream' = IF upstream = "open" THEN "closed" ELSE upstream

\* serveGrpcWeb is called: the handler is made, and with it, in forward mode, the
\* client; then the server listens.
Serve ==
  /\ listener = "none"
  /\ listenAt' \in Ports /\ listenAt' <= MaxPort
  /\ createHandler
  /\ listener' = "listening"
  /\ UNCHANGED <<boundPort, link, answer, closeCalls, outcome>>

\* The listener is bound, to a port the system picks where the target's is 0.
Listening ==
  /\ listener = "listening"
  /\ listener' = "bound" /\ outcome' = "resolved"
  /\ boundPort' = IF listenTarget(listenAt) = 0 THEN SomePort ELSE listenTarget(listenAt)
  /\ UNCHANGED <<listenAt, upstream, link, answer, closeCalls>>

\* Listening fails: the client is closed, and serveGrpcWeb rejects.
ListenFails ==
  /\ listener = "listening"
  /\ listener' = "failed" /\ outcome' = "rejected"
  /\ closeUpstream
  /\ UNCHANGED <<listenAt, boundPort, link, answer, closeCalls>>

-----------------------------------------------------------------------------
(* Connections and their requests *)

Live(x) == answer[x] \in {"handling", "forwarding"}

\* A request on a new connection, or on one kept alive, which is served also while
\* the server closes.
Request(x) ==
  /\ ~Live(x)
  /\ \/ link[x] = "none" /\ listener = "bound"
     \/ link[x] = "open"
  /\ link' = [link EXCEPT ![x] = "open"]
  /\ answer' = [answer EXCEPT ![x] = "handling"]
  /\ UNCHANGED <<listenAt, upstream, listener, boundPort, closeCalls, outcome>>

\* A forwarding handler has read its request and calls the backend; a client that
\* is closed throws, and the handler is through with an INTERNAL trailer.
UseClient(x) ==
  /\ answer[x] = "handling" /\ upstream # "none"
  /\ answer' = [answer EXCEPT ![x] = IF upstream = "open" THEN "forwarding" ELSE "refused"]
  /\ UNCHANGED <<listenAt, upstream, listener, boundPort, link, closeCalls, outcome>>

\* The handler has answered; it has not, and the server answers 404; or it has
\* rejected, and the response is destroyed, its connection with it.
Answered(x) ==
  /\ Live(x)
  /\ \E how \in {"handled", "notFound", "destroyed"} :
       /\ answer[x] = "forwarding" => how # "notFound"
       /\ answer' = [answer EXCEPT ![x] = how]
       /\ link' = [link EXCEPT ![x] = IF how = "destroyed" THEN "ended" ELSE @]
  /\ UNCHANGED <<listenAt, upstream, listener, boundPort, closeCalls, outcome>>

\* The browser leaves, or an idle connection times out.  A handler at work goes on.
ConnectionEnds(x) ==
  /\ link[x] = "open"
  /\ link' = [link EXCEPT ![x] = "ended"]
  /\ UNCHANGED <<listenAt, upstream, listener, boundPort, answer, closeCalls, outcome>>

-----------------------------------------------------------------------------
(* Closing *)

\* [mutant] close() closes the client, ahead of the connections that are left
CloseServerAndClient ==
  /\ listener \in {"bound", "closing", "closed"} /\ Len(closeCalls) < 2
  /\ listener' = IF listener = "bound" THEN "closing" ELSE listener
  /\ closeUpstream
  /\ closeCalls' = Append(closeCalls, [was |-> listener, now |-> "pending"])
  /\ UNCHANGED <<listenAt, boundPort, link, answer, outcome>>

\* close() of the handle, any number of times (two are enough).
CloseServer ==
  /\ listener \in {"bound", "closing", "closed"} /\ Len(closeCalls) < 2
  /\ listener' = IF listener = "bound" THEN "closing" ELSE listener
  /\ closeCalls' = Append(closeCalls, [was |-> listener, now |-> "pending"])
  /\ UNCHANGED <<listenAt, upstream, boundPort, link, answer, outcome>>

\* [mutant] only the first close() is called back
ClosedFirst ==
  /\ closeCalls # <<>>
  /\ \A x \in Connections : link[x] # "open"
  /\ listener' = "closed"
  /\ closeUpstream
  /\ closeCalls' = [closeCalls EXCEPT ![1].now = "resolved"]
  /\ UNCHANGED <<listenAt, boundPort, link, answer, outcome>>

\* The last connection has ended: every close() settles, the client is closed.  A
\* handler whose browser has left may still be at work.
Closed ==
  /\ \E i \in DOMAIN closeCalls : closeCalls[i].now = "pending"
  /\ \A x \in Connections : link[x] # "open"
  /\ listener' = "closed"
  /\ closeUpstream
  /\ closeCalls' = [i \in DOMAIN closeCalls |->
       IF closeCalls[i].now = "pending"
       THEN [closeCalls[i] EXCEPT
               !.now = IF closeCalls[i].was = "bound" THEN "resolved" ELSE "rejected"]
       ELSE closeCalls[i]]
  /\ UNCHANGED <<listenAt, boundPort, link, answer, outcome>>

WebNext ==
  \/ RefuseAddress \/ Serve \/ Listening \/ ListenFails
  \/ \E x \in Connections : Request(x) \/ UseClient(x) \/ Answered(x) \/ ConnectionEnds(x)
  \/ CloseServer \/ Closed

WebSpec == InitWeb /\ [][WebNext]_web

\* A handler settles some time; a connection that falls idle time and again is
\* ended some time, by its browser or its timeout; and the server notices.
FairWeb ==
  /\ WF_web(Listening \/ ListenFails)
  /\ \A x \in Connections : WF_web(Answered(x)) /\ SF_web(~Live(x) /\ ConnectionEnds(x))
  /\ WF_web(Closed)
-----------------------------------------------------------------------------
(* Properties *)

\* A forwarding gateway has its client for every browser that waits for an answer,
\* also one whose request came after close(): only a handler whose browser has left
\* can find the client closed.  The client outlives neither the listener nor a
\* failure to listen, and of the calls of close() the first resolves.
ClientServes ==
  /\ \A x \in Connections : answer[x] = "refused" => link[x] = "ended"
  /\ listener \in {"failed", "closed"} => upstream # "open"
  /\ \A i \in DOMAIN closeCalls :
       closeCalls[i].now # "pending" => (closeCalls[i].now = "resolved") = (i = 1)

\* Every request ends and every close() settles, if handlers settle and idle
\* connections end.
WebSettles ==
  /\ \A x \in Connections : Live(x) ~> ~Live(x)
  /\ closeCalls # <<>> ~> \A i \in DOMAIN closeCalls : closeCalls[i].now # "pending"
=============================================================================
