------------------------------- MODULE MCServers ------------------------------
(* The parts of the servers for TLC, one of which a behaviour is about: part     *)
(* says which, and the others stay as they are.  They do not share state, so     *)
(* that what is checked of their union is checked of each.                       *)
EXTENDS BatchServer, NativeServer, WebServer, HttpPolicy, GrpcWebBody, TrailerText

VARIABLE part

TokenSpelled == [c \in Custom |-> "X-Token"]

\* Bodies of two frames, good and malformed, and one that takes two digits to
\* tell its length.
M(payload) == [kind |-> "message", payload |-> payload]
T(payload) == [kind |-> "trailers", payload |-> payload]
Other(payload, flags) == [kind |-> "other", payload |-> payload, flags |-> flags]
ShortFrames == {M(<<>>), M(<<1>>), M(<<1, 2>>), T(<<3>>), T(<<>>), Other(<<2>>, 3), Other(<<>>, 9)}
TwoFrames == {<<f, g>> : f, g \in ShortFrames} \cup {<<M([i \in 1..17 |-> i % 3]), T(<<3>>)>>}

\* Metadata with blanks, escapes and bytes.
SomeMetadata == {<<>>, <<"a">>, <<"0">>, <<"SP", "a">>, <<"%", "CRLF">>, Binary}

Init ==
  /\ part \in {"batch", "native", "web", "http", "wire", "trailer"}
  /\ InitBatch /\ InitNative /\ InitWeb /\ InitHttp /\ InitWire /\ InitTrailer

Next ==
  /\ UNCHANGED part
  /\ \/ part = "batch"   /\ BatchNext   /\ UNCHANGED <<native, web, http, wire, trailer>>
     \/ part = "native"  /\ NativeNext  /\ UNCHANGED <<batch, web, http, wire, trailer>>
     \/ part = "web"     /\ WebNext     /\ UNCHANGED <<batch, native, http, wire, trailer>>
     \/ part = "http"    /\ HttpNext    /\ UNCHANGED <<batch, native, web, wire, trailer>>
     \/ part = "wire"    /\ WireNext    /\ UNCHANGED <<batch, native, web, http, trailer>>
     \/ part = "trailer" /\ TrailerNext /\ UNCHANGED <<batch, native, web, http, wire>>

Spec ==
  /\ Init
  /\ [][Next]_<<part, batch, native, web, http, wire, trailer>>
  /\ FairBatch /\ FairNative /\ FairWeb

\* close() of either server settles, and with it every request: streams and
\* handlers that end let it.
ClosesSettle == CloseResolves /\ WebSettles
=============================================================================
