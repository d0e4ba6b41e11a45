------------------------------ MODULE HttpPolicy ------------------------------
(***************************************************************************)
(* What the HTTP handler decides from the head of a request, and what the  *)
(* Fetch transport makes of the head of the response                       *)
(* (packages/runtime/src/web/http_handler.ts, content_type.ts,             *)
(* codec/compression.ts, fetch_call.ts): the preflight of a browser, the   *)
(* origin, the content types of both bodies, compression and metadata.     *)
(*                                                                         *)
(* HttpExchange is what happens after these decisions.  A header name is a *)
(* string, a list header a sequence; whitespace, case of values and media  *)
(* parameters, which the code strips, are left out.                        *)
(***************************************************************************)
EXTENDS Naturals, Sequences

CONSTANTS
  Origins,      \* origins of browsers
  Custom,       \* header names of an application, in lower case
  Spelled,      \* how an application may write one of them
  None          \* an absent header, policy, request or reply

VARIABLES
  cors,      \* the policy of the server, or None
  request,   \* the request a browser sends
  reply      \* what the handler decides

http == <<cors, request, reply>>

Elements(s) == {s[i] : i \in DOMAIN s}

-----------------------------------------------------------------------------
(* Content types and compression *)

\* The media types the code knows, and one it does not.
MediaTypes == {"grpc-web", "grpc-web+proto", "grpc-web-text", "grpc-web-text+proto",
               "json", None}

grpcWebContentType(encoding) ==
  IF encoding = "raw" THEN "grpc-web+proto" ELSE "grpc-web-text+proto"

grpcWebEncoding(value) ==
  CASE value \in {"grpc-web-text", "grpc-web-text+proto"} -> "base64"
    [] value \in {"grpc-web", "grpc-web+proto"} -> "raw"
    [] OTHER -> None

\* How the Fetch transport reads a response of that content type.
responseEncoding(contentType, requestEncoding) ==
  IF grpcWebEncoding(contentType) = None THEN requestEncoding ELSE grpcWebEncoding(contentType)

\* The first supported value of Accept, then the encoding of the request.
negotiateGrpcWebResponseEncoding(accept, requestEncoding) ==
  LET known == {i \in DOMAIN accept : grpcWebEncoding(accept[i]) # None}
  IN IF known = {} THEN requestEncoding
     ELSE grpcWebEncoding(accept[CHOOSE i \in known : \A j \in known : i <= j])

\* grpc-encoding of a response whose request accepts these compressions.
negotiatedResponseCompression(accepted) ==
  IF "gzip" \in accepted THEN "gzip" ELSE None

\* parseGrpcWebCompressionEncoding throws on anything else.
parseGrpcWebCompressionEncoding(encoding) ==
  CASE encoding \in {None, "identity"} -> "identity"
    [] encoding = "gzip" -> "gzip"
    [] OTHER -> "unsupported"

-----------------------------------------------------------------------------
(* CORS *)

DefaultCorsRequestHeaders ==
  {"accept", "authorization", "content-type", "grpc-accept-encoding",
   "grpc-encoding", "grpc-timeout", "x-grpc-web", "x-user-agent"}

\* Header names are compared in lower case.
Lower(name) ==
  IF \E c \in Custom : Spelled[c] = name THEN CHOOSE c \in Custom : Spelled[c] = name
  ELSE name

\* [mutant] additional headers keep the case they are configured with
createCorsPolicyAsIs(origins, additional) ==
  [origins |-> origins, additional |-> additional,
   headers |-> DefaultCorsRequestHeaders \cup additional]

createCorsPolicy(origins, additional) ==
  [origins |-> origins, additional |-> additional,
   headers |-> DefaultCorsRequestHeaders \cup {Lower(h) : h \in additional}]

\* A reply with this status and, if allowed, CORS headers for the origin.
Reply(status, allowed) == [status |-> status, allowed |-> allowed]

\* [mutant] the preflight does not look at the origin
handleCorsPreflightAnyOrigin(r) ==
  IF r.requestMethod # "POST" THEN Reply(405, TRUE)
  ELSE IF \E h \in r.requestHeaders : Lower(h) \notin cors.headers THEN Reply(403, TRUE)
  ELSE Reply(204, TRUE)

handleCorsPreflight(r) ==
  IF r.origin \notin cors.origins THEN Reply(403, FALSE)
  ELSE IF r.requestMethod # "POST" THEN Reply(405, TRUE)
  ELSE IF \E h \in r.requestHeaders : Lower(h) \notin cors.headers THEN Reply(403, TRUE)
  ELSE Reply(204, TRUE)

-----------------------------------------------------------------------------
(* Metadata *)

\* SKIP_METADATA_HEADERS: headers of the transport.
SkipMetadataHeaders ==
  {"accept", "accept-encoding", "connection", "content-length", "content-type",
   "grpc-accept-encoding", "grpc-encoding", "host", "keep-alive", "origin",
   "proxy-authenticate", "proxy-authorization", "proxy-connection", "te", "trailer",
   "transfer-encoding", "upgrade", "user-agent", "x-grpc-web", "x-user-agent"}

\* The names of the metadata a dispatcher is given: no value, no metadata.
metadataFromRequest(r) == (r.headers \ SkipMetadataHeaders) \ r.empty

\* The headers createGrpcWebFetchCall sets, next to those of the metadata.
FetchHeaders(compress) ==
  {"accept", "content-type", "grpc-accept-encoding", "x-grpc-web", "x-user-agent"}
  \cup (IF compress THEN {"grpc-encoding"} ELSE {})

\* Headers the browser itself adds to a request, no part of a preflight: those of
\* every request, and some of those it adds where they apply.
BrowserHeaders == {"host", "origin", "user-agent", "content-length", "accept-encoding",
                   "connection"}
BrowserMetadata == {"referer", "accept-language", "sec-fetch-mode", "cookie"}

\* The metadata of a call: credentials and an application's own names.
MetadataNames == {"authorization"} \cup Custom

\* What is absent is no value.  An application's own names are none the code
\* knows, and two that differ are not spelled alike.
ASSUME HttpPolicyAssumption ==
  /\ None \notin Origins \cup {"raw", "base64", "gzip"}
  /\ DOMAIN Spelled = Custom
  /\ \A c, d \in Custom : Spelled[c] \in {d, Spelled[d]} => c = d
  /\ \A c \in Custom :
       {c, Spelled[c]} \cap
         (DefaultCorsRequestHeaders \cup SkipMetadataHeaders \cup BrowserMetadata) = {}

-----------------------------------------------------------------------------
(* The handler *)

InitHttp == cors = None /\ request = None /\ reply = None

\* The policies of a server: none, or some origins and headers.
Policies ==
  {None} \cup {createCorsPolicy(o, h) : o \in SUBSET Origins,
                                        h \in SUBSET {Spelled[c] : c \in Custom}}

\* Accept, absent or naming two types.
Accepts == {<<>>} \cup {<<a, b>> : a, b \in MediaTypes \ {None}}

\* Another program's request, whatever its head.
Requests ==
  [method : {"OPTIONS", "POST", "GET"}, origin : Origins \cup {None},
   contentType : MediaTypes, accept : Accepts,
   compression : {None, "gzip", "br"}, accepts : SUBSET {"gzip"},
   requestMethod : {None}, requestHeaders : {{}}, headers : {BrowserHeaders},
   empty : {{}}, mine : {FALSE}]

\* A preflight, as any program may send it.
Preflights ==
  [method : {"OPTIONS"}, origin : Origins \cup {None}, contentType : {None},
   accept : {<<>>}, compression : {None}, accepts : {{}},
   requestMethod : {None, "GET", "POST"},
   requestHeaders : SUBSET (MetadataNames \cup {"content-type"}),
   headers : {BrowserHeaders}, empty : {{}}, mine : {FALSE}]

\* The request of the Fetch transport: metadata, some of it without a value, and
\* what the browser adds.
FetchRequest(encoding, compress, metadata, empty, added, origin) ==
  [method |-> "POST", origin |-> origin, contentType |-> grpcWebContentType(encoding),
   accept |-> <<grpcWebContentType(encoding)>>,
   compression |-> IF compress THEN "gzip" ELSE None, accepts |-> {"gzip"},
   requestMethod |-> None, requestHeaders |-> {},
   headers |-> BrowserHeaders \cup added \cup metadata \cup FetchHeaders(compress),
   empty |-> empty \cap metadata, mine |-> TRUE]

FetchRequests ==
  {FetchRequest(e, c, m, v, b, o) : e \in {"raw", "base64"}, c \in BOOLEAN,
                                    m, v \in SUBSET MetadataNames,
                                    b \in SUBSET BrowserMetadata, o \in Origins}

\* The preflight a browser sends ahead of it.
PreflightOf(r) ==
  [r EXCEPT !.method = "OPTIONS", !.requestMethod = "POST", !.contentType = None,
            !.requestHeaders = r.headers \ (BrowserHeaders \cup BrowserMetadata),
            !.mine = FALSE]

\* A request arrives at a server.
Arrive ==
  /\ request = None
  /\ cors' \in Policies
  /\ request' \in Requests \cup Preflights \cup FetchRequests
  /\ UNCHANGED reply

\* What the handler has settled when it dispatches a request.
Dispatched(r) ==
  [status |-> 200,
   allowed |-> r.origin # None /\ cors # None,
   decodes |-> grpcWebEncoding(r.contentType),
   inflates |-> parseGrpcWebCompressionEncoding(r.compression),
   encodes |-> negotiateGrpcWebResponseEncoding(r.accept, grpcWebEncoding(r.contentType)),
   deflates |-> negotiatedResponseCompression(r.accepts),
   metadata |-> metadataFromRequest(r)]

\* handleGrpcWebHttpRequest, up to the dispatch; 404 stands for a request it
\* leaves to the server.
handleGrpcWebHttpRequest(r) ==
  IF r.method = "OPTIONS" /\ cors # None /\ r.origin # None THEN handleCorsPreflight(r)
  ELSE IF r.method # "POST" \/ grpcWebEncoding(r.contentType) = None THEN Reply(404, FALSE)
  ELSE IF r.origin # None /\ cors # None /\ r.origin \notin cors.origins
  THEN Reply(403, FALSE)
  ELSE Dispatched(r)

Decide ==
  /\ request # None /\ reply = None
  /\ reply' = handleGrpcWebHttpRequest(request)
  /\ UNCHANGED <<cors, request>>

HttpNext == Arrive \/ Decide
-----------------------------------------------------------------------------
(* Properties *)

\* The browser gets an answer to its preflight that lets the call through.
Preflighted(r) == handleGrpcWebHttpRequest(PreflightOf(r)) = Reply(204, TRUE)

\* A reply is readable across origins only by an origin the policy allows, and
\* with a policy no other origin's call is dispatched.
OriginsKept ==
  reply # None /\ cors # None =>
    /\ reply.allowed => request.origin \in cors.origins
    /\ reply.status = 200 => request.origin \in cors.origins \cup {None}

\* Server and Fetch transport agree, across their files: a call whose preflight
\* passes is dispatched; the preflight passes whenever the policy names the
\* origin and the application's own headers, for those the transport sets are
\* allowed already; the call's metadata is what the application set and what the
\* browser added of its own, without what has no value and without a header of the
\* transport; and the body comes back as the transport said it reads it.
FetchServed ==
  reply # None /\ request.mine =>
    /\ cors # None /\ request.origin \in cors.origins =>
         (Preflighted(request) <=>
            request.headers \cap Custom \subseteq {Lower(h) : h \in cors.additional})
    /\ Preflighted(request) => reply.status = 200 /\ reply.allowed
    /\ reply.status = 200 =>
         /\ reply.metadata =
              (request.headers \cap (MetadataNames \cup BrowserMetadata)) \ request.empty
         /\ grpcWebContentType(reply.decodes) = request.contentType
         /\ \A e \in {"raw", "base64"} :
              responseEncoding(grpcWebContentType(reply.encodes), e) = reply.encodes
         /\ reply.encodes = reply.decodes
         /\ (reply.inflates = "gzip") = ("grpc-encoding" \in request.headers)
         /\ parseGrpcWebCompressionEncoding(reply.deflates) # "unsupported"
=============================================================================
