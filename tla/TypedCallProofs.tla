---------------------------- MODULE TypedCallProofs ----------------------------
(* A typed call, for responses of any length and any chains of interceptors:   *)
(* its observer is told one response in order and without a gap, success only  *)
(* by an OK status, and a Fetch request does not outlive the observable.       *)
EXTENDS TypedCall, TLAPS

-----------------------------------------------------------------------------
(* The transport *)

FrameSet == {Message(n) : n \in Nat} \cup {Malformed} \cup {Trailers(s) : s \in Statuses}

\* The frames taken out of the body so far.
Taken == Len(sent) - Len(frames)

\* The frames not yet taken are the last of those sent, and a message tells its
\* place.
BodyInv ==
  /\ sent \in Seq(FrameSet) /\ frames \in Seq(FrameSet)
  /\ \A i \in 1..Len(sent) : sent[i][1] = "message" \/ transport = "native" => sent[i] = Message(i)
  /\ Len(frames) <= Len(sent)
  /\ \A i \in 1..Len(frames) : frames[i] = sent[Taken + i]

\* The first message taken is the n-th frame.
FirstTaken(n) ==
  /\ n \in 1..Taken /\ sent[n] = Message(n)
  /\ \A k \in 1..n - 1 : sent[k][1] # "message"

\* What a transport knows of the frames it has taken, at each point it may stand.
ReadInv ==
  /\ kind \in {"unary", "stream"} /\ first \in Nat /\ last \in {"none"} \cup Statuses
  /\ tpc = "encoding" => transport = "fetch"
  /\ tpc \in {"encoding", "waiting"} =>
       sent = <<>> /\ frames = <<>> /\ first = 0 /\ last = "none"
  /\ tpc = "waiting" /\ transport = "native" => kind = "unary"
  /\ tpc = "collecting" =>
       /\ kind = "unary" /\ transport = "fetch"
       /\ first = 0 => \A k \in 1..Taken : sent[k][1] # "message"
       /\ first # 0 => FirstTaken(first)
       /\ last # "none" => \E i \in 1..Taken : sent[i] = Trailers(last)
  /\ tpc = "resolved" =>
       /\ kind = "unary" /\ FirstTaken(first)
       /\ transport = "fetch" => body = "ended" /\ \E i \in 1..Taken : sent[i] = Trailers("OK")
  /\ tpc = "open" =>
       /\ kind = "stream"
       /\ \A k \in 1..Taken : sent[k][1] = "message"

StubInv == BodyInv /\ ReadInv

\* A frame is told from its kind.
LEMMA FrameKinds ==
  ASSUME NEW f \in FrameSet, f[1] = "trailers"
  PROVE  f = Trailers(f[2]) /\ f[2] \in Statuses
  BY DEF FrameSet, Message, Trailers, Malformed, Statuses

\* The first frame that is left.
LEMMA HeadFrame ==
  ASSUME BodyInv, frames # <<>>
  PROVE  /\ Taken \in Nat /\ Taken + 1 \in 1..Len(sent)
         /\ Head(frames) = sent[Taken + 1] /\ Head(frames) \in FrameSet
         /\ Head(frames)[1] = "message" => Head(frames) = Message(Taken + 1)
         /\ Head(frames)[1] = "message" => Head(frames)[2] = Taken + 1
         /\ transport = "native" => Head(frames)[1] = "message"
  <1>1. Len(frames) \in Nat /\ Len(sent) \in Nat /\ Len(frames) # 0
    BY DEF BodyInv
  <1>2. Taken \in Nat /\ Taken + 1 \in 1..Len(sent)
    BY <1>1 DEF BodyInv, Taken
  <1>3. Head(frames) = frames[1] /\ frames[1] = sent[Taken + 1]
    BY <1>1 DEF BodyInv
  <1>4. sent[Taken + 1] \in FrameSet
    BY <1>2 DEF BodyInv
  <1>5. Message(Taken + 1)[1] = "message" /\ Message(Taken + 1)[2] = Taken + 1
    BY DEF Message
  <1>6. QED
    BY <1>2, <1>3, <1>4, <1>5 DEF BodyInv

\* Frames that are not touched.
LEMMA BodyKept ==
  ASSUME BodyInv, UNCHANGED <<transport, sent, frames>>
  PROVE  BodyInv' /\ Taken' = Taken /\ \A n : FirstTaken(n)' = FirstTaken(n)
  BY DEF BodyInv, Taken, FirstTaken

\* A response that has just begun.
LEMMA BodyFresh ==
  ASSUME sent' = <<>>, frames' = <<>>
  PROVE  BodyInv' /\ Taken' = 0
  BY DEF BodyInv, Taken

\* One more frame is sent.
LEMMA BodySent ==
  ASSUME BodyInv, UNCHANGED transport, NEW f \in Frame,
         sent' = Append(sent, f), frames' = Append(frames, f)
  PROVE  /\ BodyInv' /\ Taken' = Taken /\ Taken \in Nat /\ Taken <= Len(sent)
         /\ \A i \in 1..Len(sent) : sent'[i] = sent[i]
         /\ Len(sent') = Len(sent) + 1 /\ Len(sent) \in Nat
  <1>1. f \in FrameSet
    BY DEF Frame, FrameSet, BodyInv
  <1>2. f[1] = "message" \/ transport = "native" => f = Message(Len(sent) + 1)
    BY DEF Frame, Malformed, Trailers
  <1>3. /\ sent' \in Seq(FrameSet) /\ frames' \in Seq(FrameSet)
        /\ Len(sent') = Len(sent) + 1 /\ Len(frames') = Len(frames) + 1
        /\ Len(sent) \in Nat /\ Len(frames) \in Nat
        /\ \A i \in 1..Len(sent) : sent'[i] = sent[i]
        /\ \A i \in 1..Len(frames) : frames'[i] = frames[i]
        /\ sent'[Len(sent) + 1] = f /\ frames'[Len(frames) + 1] = f
    BY <1>1 DEF BodyInv
  <1>4. Taken' = Taken /\ Taken \in Nat /\ Taken <= Len(sent)
    BY <1>3 DEF Taken, BodyInv
  <1>5. ASSUME NEW i \in 1..Len(sent') PROVE (sent[i][1] = "message" \/ transport = "native" => sent[i] = Message(i))'
    BY <1>2, <1>3 DEF BodyInv
  <1>6. ASSUME NEW i \in 1..Len(frames') PROVE frames'[i] = sent'[Taken' + i]
    <2>1. CASE i = Len(frames) + 1
      <3>1. Taken + i = Len(sent) + 1
        BY <1>3, <2>1 DEF Taken
      <3>2. QED
        BY <1>3, <1>4, <2>1, <3>1
    <2>2. CASE i \in 1..Len(frames)
      <3>1. Taken + i \in 1..Len(sent)
        BY <1>3, <1>4, <2>2 DEF Taken
      <3>2. QED
        BY <1>3, <1>4, <2>2, <3>1 DEF BodyInv
    <2>3. i = Len(frames) + 1 \/ i \in 1..Len(frames)
      BY <1>3
    <2>4. QED
      BY <2>1, <2>2, <2>3
  <1>7. Len(frames') <= Len(sent')
    BY <1>3 DEF BodyInv
  <1>8. BodyInv'
    BY <1>3, <1>5, <1>6, <1>7 DEF BodyInv
  <1>9. QED
    BY <1>3, <1>4, <1>8

\* One frame is taken.
LEMMA BodyTaken ==
  ASSUME BodyInv, frames # <<>>, UNCHANGED <<transport, sent>>, frames' = Tail(frames)
  PROVE  BodyInv' /\ Taken' = Taken + 1
  <1>1. /\ Len(frames) \in Nat /\ Len(sent) \in Nat /\ Len(frames) # 0
        /\ frames' \in Seq(FrameSet) /\ Len(frames') = Len(frames) - 1
        /\ \A i \in 1..Len(frames') : frames'[i] = frames[i + 1]
    BY DEF BodyInv
  <1>2. Taken' = Taken + 1
    BY <1>1 DEF Taken
  <1>3. ASSUME NEW i \in 1..Len(frames') PROVE frames'[i] = sent[Taken' + i]
    <2>1. i + 1 \in 1..Len(frames) /\ Taken' + i = Taken + (i + 1)
      BY <1>1, <1>2 DEF Taken
    <2>2. QED
      BY <1>1, <2>1 DEF BodyInv
  <1>4. Len(frames') <= Len(sent')
    <2>1. \A l, n \in Nat : l <= n => l - 1 <= n
      OBVIOUS
    <2>2. QED
      BY <1>1, <2>1 DEF BodyInv
  <1>5. \A i \in 1..Len(sent') :
          (sent'[i][1] = "message" \/ transport' = "native") => sent'[i] = Message(i)
    BY DEF BodyInv
  <1>6. QED
    BY <1>1, <1>2, <1>3, <1>4, <1>5 DEF BodyInv, Message

-----------------------------------------------------------------------------
(* The steps of the transport and of the peer *)

LEMMA AbortKeeps == StubInv /\ AbortStub => StubInv'
  <1> SUFFICES ASSUME StubInv, AbortStub PROVE StubInv'
    OBVIOUS
  <1>1. /\ UNCHANGED <<kind, transport, tpc, sent, frames, first, last>>
        /\ body = "ended" => body' = "ended"
    BY DEF AbortStub, given
  <1>2. BodyInv' /\ Taken' = Taken /\ \A n : FirstTaken(n)' = FirstTaken(n)
    BY <1>1, BodyKept DEF StubInv
  <1>3. QED
    BY <1>1, <1>2 DEF StubInv, ReadInv

\* A rejection leaves what has been read alone.
LEMMA RejectKeeps ==
  ASSUME StubInv, NEW code, code \notin {"encoding", "waiting", "collecting", "resolved", "open"},
         Rejected(code)
  PROVE  StubInv'
  <1>1. UNCHANGED <<kind, transport, sent, frames, body, first, last>> /\ tpc' = code
    BY DEF Rejected, given, reading
  <1>2. BodyInv' /\ Taken' = Taken
    BY <1>1, BodyKept DEF StubInv
  <1>3. QED
    BY <1>1, <1>2 DEF StubInv, ReadInv

LEMMA HttpCode ==
  ASSUME NEW s
  PROVE  missingGrpcStatus(s) \in {"INTERNAL", "UNAUTHENTICATED", "PERMISSION_DENIED",
                                   "UNIMPLEMENTED", "UNAVAILABLE", "UNKNOWN"}
  BY DEF missingGrpcStatus

\* A call starts, over either transport.
LEMMA StartKeeps ==
  ASSUME StubInv, FetchEncode \/ NativeStream \/ NativeUnary
  PROVE  StubInv' /\ Taken' = 0
  <1>1. /\ UNCHANGED <<kind, transport>> /\ sent' = <<>> /\ frames' = <<>>
        /\ first' = 0 /\ last' = "none"
    BY DEF FetchEncode, NativeStream, NativeUnary, Fresh
  <1>2. BodyInv' /\ Taken' = 0
    BY <1>1, BodyFresh
  <1>3. \/ tpc' = "encoding" /\ transport = "fetch"
        \/ tpc' = "open" /\ transport = "native" /\ kind = "stream"
        \/ tpc' = "waiting" /\ transport = "native" /\ kind = "unary"
    BY DEF FetchEncode, NativeStream, NativeUnary
  <1>4. QED
    BY <1>1, <1>2, <1>3 DEF StubInv, ReadInv

\* One frame of a unary body.
LEMMA CollectKeeps == StubInv /\ Collect => StubInv'
  <1> SUFFICES ASSUME StubInv, Collect PROVE StubInv'
    OBVIOUS
  <1> DEFINE f == Head(frames)
             n == Taken + 1
  <1>1. /\ tpc = "collecting" /\ frames # <<>> /\ frames' = Tail(frames)
        /\ UNCHANGED <<kind, transport, sent, body>>
    BY DEF Collect, given
  <1>2. BodyInv' /\ Taken' = n
    BY <1>1, BodyTaken DEF StubInv
  <1>3. /\ Taken \in Nat /\ f = sent[n] /\ f \in FrameSet /\ n \in 1..Len(sent)
        /\ f[1] = "message" => f = Message(n) /\ f[2] = n
    BY <1>1, HeadFrame DEF StubInv
  <1>4. /\ kind = "unary" /\ transport = "fetch" /\ first \in Nat
        /\ last \in {"none"} \cup Statuses
        /\ first = 0 => \A k \in 1..Taken : sent[k][1] # "message"
        /\ first # 0 => FirstTaken(first)
        /\ last # "none" => \E i \in 1..Taken : sent[i] = Trailers(last)
    BY <1>1 DEF StubInv, ReadInv
  <1>5. /\ 1..Taken \subseteq 1..n /\ n \in 1..n /\ n \in Nat /\ n # 0
        /\ 1..n - 1 = 1..Taken
        /\ \A k \in 1..n : k \in 1..Taken \/ k = n
    BY <1>3
  <1>6. ASSUME first # 0, UNCHANGED first PROVE FirstTaken(first)'
    BY <1>1, <1>2, <1>4, <1>5, <1>6 DEF FirstTaken
  <1>7. last # "none" => \E i \in 1..Taken' : sent'[i] = Trailers(last)
    BY <1>1, <1>2, <1>4, <1>5
  <1> HIDE DEF f, n
  <1>8. CASE f[1] = "message"
    <2>1. first' = (IF first = 0 THEN n ELSE first) /\ UNCHANGED <<tpc, last>>
      BY <1>3, <1>8 DEF Collect, Kept, f
    <2>2. first' # 0 /\ first' \in Nat
      BY <1>4, <1>5, <2>1
    <2>3. CASE first = 0
      <3>1. /\ first' = n /\ sent'[n] = Message(n)
            /\ \A k \in 1..n - 1 : sent'[k][1] # "message"
        BY <1>1, <1>3, <1>4, <1>5, <1>8, <2>1, <2>3
      <3>2. FirstTaken(first)'
        BY <1>2, <1>5, <3>1 DEF FirstTaken
      <3>3. QED
        BY <1>1, <1>2, <1>4, <1>7, <2>1, <2>2, <3>2 DEF StubInv, ReadInv
    <2>4. CASE first # 0
      BY <1>1, <1>2, <1>4, <1>6, <1>7, <2>1, <2>2, <2>4 DEF StubInv, ReadInv
    <2>5. QED
      BY <2>3, <2>4
  <1>9. CASE f[1] = "trailers"
    <2>1. last' = f[2] /\ UNCHANGED <<tpc, first>>
      BY <1>9 DEF Collect, f
    <2>2. f = Trailers(last') /\ last' \in Statuses
      BY <1>3, <1>9, <2>1, FrameKinds
    <2>3. \E i \in 1..Taken' : sent'[i] = Trailers(last')
      BY <1>1, <1>2, <1>3, <1>5, <2>2
    <2>4. first = 0 => \A k \in 1..Taken' : sent'[k][1] # "message"
      BY <1>1, <1>2, <1>3, <1>4, <1>5, <1>9
    <2>5. QED
      BY <1>1, <1>2, <1>4, <1>6, <2>1, <2>2, <2>3, <2>4 DEF StubInv, ReadInv
  <1>10. CASE f[1] \notin {"message", "trailers"}
    <2>1. tpc' = "INTERNAL" /\ UNCHANGED <<first, last>>
      BY <1>10 DEF Collect, f
    <2>2. QED
      BY <1>1, <1>2, <1>4, <2>1 DEF StubInv, ReadInv
  <1>11. QED
    BY <1>8, <1>9, <1>10

LEMMA StubStepKeeps == StubInv /\ StubStep => StubInv'
  <1> SUFFICES ASSUME StubInv, StubStep PROVE StubInv'
    OBVIOUS
  <1>1. CASE FetchSend
    <2>1. CASE tpc' = "waiting" /\ UNCHANGED <<kind, transport, sent, frames, body, first, last>>
      <3>1. BodyInv'
        BY <2>1, BodyKept DEF StubInv
      <3>2. QED
        BY <1>1, <2>1, <3>1 DEF FetchSend, StubInv, ReadInv
    <2>2. QED
      BY <1>1, <2>1, RejectKeeps DEF FetchSend, given, reading
  <1>2. CASE FetchRefused
    BY <1>2, RejectKeeps, HttpCode DEF FetchRefused
  <1>3. CASE FetchAnswered
    <2>1. /\ tpc = "waiting" /\ transport = "fetch" /\ tpc' = IF kind = "stream" THEN "open" ELSE "collecting"
          /\ UNCHANGED <<kind, transport, sent, frames, first, last>>
      BY <1>3 DEF FetchAnswered, given
    <2>2. /\ BodyInv' /\ Taken' = 0 /\ first = 0 /\ last = "none"
      BY <2>1, BodyFresh DEF StubInv, ReadInv
    <2>3. \A k \in 1..Taken' : sent'[k][1] = "message" /\ sent'[k][1] # "message"
      BY <2>2
    <2>4. CASE kind = "stream"
      BY <2>1, <2>2, <2>3, <2>4 DEF StubInv, ReadInv
    <2>5. CASE kind # "stream"
      <3>1. kind = "unary"
        BY <2>5 DEF StubInv, ReadInv
      <3>2. QED
        BY <2>1, <2>2, <2>3, <2>5, <3>1 DEF StubInv, ReadInv
    <2>6. QED
      BY <2>4, <2>5
  <1>4. CASE Collect
    BY <1>4, CollectKeeps
  <1>5. CASE CollectEnds
    <2>1. /\ tpc = "collecting" /\ body = "ended" /\ tpc' = Verdict
          /\ UNCHANGED <<kind, transport, sent, frames, body, first, last>>
      BY <1>5 DEF CollectEnds, Whole, given, reading
    <2>2. BodyInv' /\ Taken' = Taken /\ \A n : FirstTaken(n)' = FirstTaken(n)
      BY <2>1, BodyKept DEF StubInv
    <2>3. /\ Verdict \in {"UNKNOWN", "FAILED", "INTERNAL", "resolved"}
          /\ Verdict = "resolved" => last = "OK" /\ first # 0
      <3>1. last \in {"none", "OK", "FAILED"} /\ missingGrpcStatus(200) = "UNKNOWN"
        BY DEF StubInv, ReadInv, Statuses, missingGrpcStatus
      <3>2. QED
        BY <3>1 DEF Verdict
    <2>4. QED
      BY <2>1, <2>2, <2>3 DEF StubInv, ReadInv
  <1>6. CASE CollectFails
    BY <1>6, RejectKeeps DEF CollectFails
  <1>7. CASE FetchFails
    BY <1>7, RejectKeeps DEF FetchFails
  <1>8. CASE NativeCallback
    <2>1. /\ tpc = "waiting" /\ transport = "native" /\ frames = <<>> /\ sent = <<>>
          /\ kind = "unary" /\ last = "none" /\ first = 0
          /\ UNCHANGED <<kind, transport, frames, last>>
      BY <1>8 DEF NativeCallback, StubInv, ReadInv, given
    <2>2. CASE tpc' \in {"FAILED", "thrown"} /\ UNCHANGED <<sent, first>>
      <3>1. BodyInv'
        BY <2>1, <2>2, BodyKept DEF StubInv
      <3>2. QED
        BY <2>1, <2>2, <3>1 DEF StubInv, ReadInv
    <2>3. CASE tpc' = "resolved" /\ sent' = <<Message(1)>> /\ first' = 1
      <3>1. /\ Len(sent') = 1 /\ sent'[1] = Message(1) /\ Len(frames') = 0
            /\ frames' \in Seq(FrameSet) /\ Message(1) \in FrameSet
        BY <2>1, <2>3 DEF FrameSet
      <3>2. Taken' = 1 /\ sent' \in Seq(FrameSet)
        BY <2>3, <3>1 DEF Taken
      <3>3. BodyInv'
        BY <3>1, <3>2 DEF BodyInv
      <3>4. FirstTaken(first)'
        BY <2>3, <3>1, <3>2 DEF FirstTaken
      <3>5. QED
        BY <2>1, <2>3, <3>3, <3>4 DEF StubInv, ReadInv
    <2>4. QED
      BY <1>8, <2>2, <2>3 DEF NativeCallback
  <1>9. QED
    BY <1>1, <1>2, <1>3, <1>4, <1>5, <1>6, <1>7, <1>8 DEF StubStep

\* The peer adds to a response whose frames stay where they are.
LEMMA PeerKeeps ==
  ASSUME StubInv, PeerStep
  PROVE  /\ StubInv' /\ Taken' = Taken /\ Taken \in Nat /\ UNCHANGED <<tpc, kind, transport, aborted>>
         /\ \A i \in 1..Len(sent) : i \in 1..Len(sent') /\ sent'[i] = sent[i]
         /\ live' => live
  <1>1. CASE PeerEnds
    <2>1. /\ tpc \in {"collecting", "open"}
          /\ UNCHANGED <<kind, transport, aborted, tpc, sent, frames, first, last>> /\ live' = FALSE
      BY <1>1 DEF PeerEnds, Hangup, given
    <2>2. BodyInv' /\ Taken' = Taken /\ \A n : FirstTaken(n)' = FirstTaken(n)
      BY <2>1, BodyKept DEF StubInv
    <2>3. Taken \in Nat
      BY DEF StubInv, BodyInv, Taken
    <2>4. StubInv'
      BY <2>1, <2>2 DEF StubInv, ReadInv
    <2>5. QED
      BY <2>1, <2>2, <2>3, <2>4
  <1>2. CASE PeerSends
    <2>1. /\ tpc \in {"collecting", "open"}
          /\ UNCHANGED <<kind, transport, aborted, tpc, live, body, first, last>>
      BY <1>2 DEF PeerSends, given
    <2>2. PICK f \in Frame : sent' = Append(sent, f) /\ frames' = Append(frames, f)
      BY <1>2 DEF PeerSends
    <2>3. /\ BodyInv' /\ Taken' = Taken /\ Taken \in Nat /\ Taken <= Len(sent)
          /\ \A i \in 1..Len(sent) : sent'[i] = sent[i]
          /\ Len(sent') = Len(sent) + 1 /\ Len(sent) \in Nat
      BY <2>1, <2>2, BodySent DEF StubInv
    <2>4. \A i \in 1..Len(sent) : i \in 1..Len(sent')
      BY <2>3
    <2>5. \A i \in 1..Taken : i \in 1..Len(sent) /\ sent'[i] = sent[i]
      BY <2>3
    <2>6. first # 0 /\ FirstTaken(first) => FirstTaken(first)'
      <3>1. first \in Nat
        BY DEF StubInv, ReadInv
      <3>2. ASSUME FirstTaken(first) PROVE \A k \in 1..first - 1 : k \in 1..Taken
        BY <2>3, <3>1, <3>2 DEF FirstTaken
      <3>3. QED
        BY <2>1, <2>3, <2>5, <3>1, <3>2 DEF FirstTaken
    <2>7. StubInv'
      BY <2>1, <2>3, <2>5, <2>6 DEF StubInv, ReadInv
    <2>8. QED
      BY <2>1, <2>3, <2>4, <2>7
  <1>3. QED
    BY <1>1, <1>2 DEF PeerStep

-----------------------------------------------------------------------------
(* What is in flight *)

\* A Fetch request is in flight only until the abort, which every end of the
\* observable brings about, unless no call was made.
FlightInv ==
  /\ transport \in {"fetch", "native"}
  /\ obs \in {"new", "open", "done", "left", "batched"}
  /\ aborted /\ live => transport = "native"
  /\ obs \in {"done", "left"} => aborted \/ lpc = "idle"
  /\ obs \in {"new", "batched"} => lpc = "idle" /\ told = <<>>
  /\ lpc = "idle" => ~live

\* An abort leaves nothing in flight but a native call.
LEMMA AbortEnds ==
  ASSUME FlightInv, AbortStub
  PROVE  /\ aborted' = TRUE /\ UNCHANGED transport
         /\ live' => live /\ transport = "native"
  BY DEF FlightInv, AbortStub, given

\* An observable that comes to an end brings about the abort.
Settling ==
  \/ obs' = obs /\ UNCHANGED stub
  \/ obs' \in {"done", "left"} /\ AbortStub

LEMMA SettlingKeeps ==
  ASSUME FlightInv, Settling, lpc # "idle", lpc' # "idle"
  PROVE  FlightInv'
  <1>1. CASE obs' = obs /\ UNCHANGED stub
    BY <1>1 DEF FlightInv, stub
  <1>2. CASE obs' \in {"done", "left"} /\ AbortStub
    BY <1>2, AbortEnds DEF FlightInv
  <1>3. QED
    BY <1>1, <1>2 DEF Settling

LEMMA TellSettles ==
  ASSUME NEW events, Tell(events)
  PROVE  Settling
  <1>1. CASE obs # "open"
    BY <1>1 DEF Tell, Settling
  <1>2. CASE obs = "open"
    BY <1>2 DEF Tell, Settling
  <1>3. QED
    BY <1>1, <1>2

LEMMA GivesUpSettles ==
  ASSUME NEW code, GivesUp(code)
  PROVE  Settling
  <1>1. CASE aborted
    BY <1>1 DEF GivesUp, Settling
  <1>2. CASE ~aborted
    BY <1>2, TellSettles DEF GivesUp
  <1>3. QED
    BY <1>1, <1>2

LEMMA UnwindSettles ==
  ASSUME NEW from, NEW code, Unwind(from, code)
  PROVE  Settling /\ lpc' \in {"chain", "over"}
  <1>1. CASE lpc' = "chain" /\ UNCHANGED <<stub, told, obs>>
    BY <1>1 DEF Settling
  <1>2. CASE lpc' = "over" /\ GivesUp(code)
    BY <1>2, GivesUpSettles
  <1>3. QED
    BY <1>1, <1>2 DEF Unwind

LEMMA FlightStep == FlightInv /\ [Next]_vars => FlightInv'
  <1> SUFFICES ASSUME FlightInv, [Next]_vars PROVE FlightInv'
    OBVIOUS
  <1>1. CASE Subscribe
    BY <1>1 DEF Subscribe, FlightInv, stub
  <1>2. CASE Unsubscribe
    BY <1>2, AbortEnds DEF Unsubscribe, FlightInv
  <1>3. CASE SignalAborts
    <2>1. CASE AbortStub
      BY <1>3, <2>1, AbortEnds DEF SignalAborts, FlightInv
    <2>2. CASE UNCHANGED stub
      BY <1>3, <2>2 DEF SignalAborts, FlightInv, stub
    <2>3. QED
      BY <1>3, <2>1, <2>2 DEF SignalAborts
  <1>4. CASE Intercept
    BY <1>4 DEF Intercept, FlightInv, stub
  <1>5. CASE InterceptRejects
    BY <1>5, UnwindSettles, SettlingKeeps DEF InterceptRejects
  <1>6. CASE InterceptAnswers
    BY <1>6, TellSettles, SettlingKeeps DEF InterceptAnswers
  <1>7. CASE Invoke
    BY <1>7 DEF Invoke, FlightInv, FetchEncode, NativeStream, NativeUnary, Fresh
  <1>8. CASE InvokeRejects
    BY <1>8, UnwindSettles, SettlingKeeps DEF InvokeRejects
  <1>9. CASE Rejects
    BY <1>9, UnwindSettles, SettlingKeeps DEF Rejects
  <1>10. CASE DeliverValue
    BY <1>10, TellSettles, SettlingKeeps DEF DeliverValue
  <1>11. CASE DeliverAndLeave
    BY <1>11, SettlingKeeps DEF DeliverAndLeave, Settling
  <1>12. CASE DeliverItem
    BY <1>12 DEF DeliverItem, FlightInv
  <1>13. CASE EndStream
    BY <1>13, TellSettles, SettlingKeeps DEF EndStream
  <1>14. CASE StreamThrows
    BY <1>14, GivesUpSettles, SettlingKeeps DEF StreamThrows
  <1>15. CASE Transport
    <2>1. StubStep /\ lpc = "call" /\ UNCHANGED <<obs, lpc>>
      BY <1>15 DEF Transport, link
    <2>2. CASE FetchSend
      <3>1. CASE aborted
        BY <2>1, <2>2, <3>1 DEF FetchSend, Rejected, given, FlightInv
      <3>2. CASE ~aborted
        BY <2>1, <2>2, <3>2 DEF FetchSend, given, FlightInv
      <3>3. QED
        BY <3>1, <3>2
    <2>3. CASE FetchFails \/ NativeCallback
      <3>1. live' = FALSE /\ UNCHANGED <<transport, aborted>>
        BY <2>3 DEF FetchFails, NativeCallback, Rejected, Hangup, given
      <3>2. QED
        BY <2>1, <3>1 DEF FlightInv
    <2>4. CASE FetchRefused \/ FetchAnswered \/ Collect \/ CollectEnds \/ CollectFails
      <3>1. UNCHANGED <<live, transport, aborted>>
        BY <2>4 DEF FetchRefused, FetchAnswered, Collect, CollectEnds, CollectFails, Rejected, given
      <3>2. QED
        BY <2>1, <3>1 DEF FlightInv
    <2>5. QED
      BY <2>1, <2>2, <2>3, <2>4 DEF StubStep
  <1>16. CASE Peer
    <2>1. PeerStep /\ UNCHANGED <<obs, lpc, told>>
      BY <1>16 DEF Peer, link
    <2>2. CASE PeerSends
      BY <2>1, <2>2 DEF PeerSends, given, FlightInv
    <2>3. CASE PeerEnds
      BY <2>1, <2>3 DEF PeerEnds, Hangup, given, FlightInv
    <2>4. QED
      BY <2>1, <2>2, <2>3 DEF PeerStep
  <1>17. CASE UNCHANGED vars
    BY <1>17 DEF vars, stub, link, FlightInv
  <1>18. QED
    BY <1>1, <1>2, <1>3, <1>4, <1>5, <1>6, <1>7, <1>8, <1>9, <1>10, <1>11, <1>12, <1>13,
       <1>14, <1>15, <1>16, <1>17 DEF Next, Application, Link

LEMMA FlightInvariance == Spec => []FlightInv
  <1>1. Init => FlightInv
    BY DEF Init, InitStub, FlightInv
  <1>2. QED
    BY <1>1, FlightStep, PTL DEF Spec

\* However often a call is retried and whoever ends it first, a Fetch request
\* does not outlive the observable.
THEOREM NothingStaysInFlight == Spec => []Released
  <1>1. FlightInv => Released
    BY DEF FlightInv, Released
  <1>2. QED
    BY <1>1, FlightInvariance, PTL

-----------------------------------------------------------------------------
(* The response as the link reads it *)

LEMMA SettlingReads == StubInv /\ Settling => StubInv'
  <1>1. StubInv /\ UNCHANGED stub => StubInv'
    BY DEF stub, StubInv, BodyInv, ReadInv, Taken, FirstTaken
  <1>2. QED
    BY <1>1, AbortKeeps DEF Settling

\* What the next pull gives, and from what.
LEMMA NextPull ==
  ASSUME StubInv
  PROVE  /\ next[1] = "message" =>
              frames # <<>> /\ next = Message(Taken + 1) /\ sent[Taken + 1] = Message(Taken + 1)
         /\ next[1] = "end" =>
              \/ frames # <<>> /\ sent[Taken + 1] = Trailers("OK")
              \/ frames = <<>> /\ transport = "native" /\ body = "ended"
  <1>1. CASE frames # <<>>
    <2> DEFINE f == Head(frames)
    <2>1. /\ f = sent[Taken + 1]
          /\ f[1] = "message" => f = Message(Taken + 1)
      BY <1>1, HeadFrame DEF StubInv
    <2>2. CASE f[1] = "message"
      <3>1. next = f
        BY <1>1, <2>2 DEF next, StreamNext
      <3>2. next[1] = "message"
        BY <2>2, <3>1
      <3>3. next = Message(Taken + 1) /\ sent[Taken + 1] = Message(Taken + 1)
        BY <2>1, <2>2, <3>1
      <3>4. QED
        BY <1>1, <3>2, <3>3
    <2>3. CASE f[1] # "message" /\ f = Trailers("OK")
      <3>1. next = <<"end">>
        BY <1>1, <2>3 DEF next, StreamNext
      <3>2. next[1] = "end" /\ sent[Taken + 1] = Trailers("OK")
        BY <2>1, <2>3, <3>1
      <3>3. QED
        BY <1>1, <3>2
    <2>4. CASE f[1] # "message" /\ f # Trailers("OK")
      <3>1. next[1] = "throw"
        BY <1>1, <2>4 DEF next, StreamNext
      <3>2. QED
        BY <3>1
    <2>5. QED
      BY <2>2, <2>3, <2>4
  <1>2. CASE frames = <<>>
    BY <1>2 DEF next, StreamNext
  <1>3. QED
    BY <1>1, <1>2

LEMMA ItemKeeps ==
  ASSUME StubInv, DeliverItem
  PROVE  /\ StubInv' /\ Taken' = Taken + 1 /\ Taken \in Nat
         /\ next = Message(Taken + 1)
  <1>1. /\ tpc = "open" /\ next[1] = "message" /\ frames' = Tail(frames)
        /\ UNCHANGED <<kind, transport, tpc, sent, body, first, last>>
    BY DEF DeliverItem, ItemDue
  <1>2. frames # <<>> /\ next = Message(Taken + 1) /\ sent[Taken + 1] = Message(Taken + 1)
    BY <1>1, NextPull
  <1>3. BodyInv' /\ Taken' = Taken + 1 /\ Taken \in Nat
    BY <1>1, <1>2, BodyTaken, HeadFrame DEF StubInv
  <1>4. \A k \in 1..Taken + 1 : k \in 1..Taken \/ k = Taken + 1
    BY <1>3
  <1>5. Message(Taken + 1)[1] = "message"
    BY DEF Message
  <1>6. \A k \in 1..Taken' : sent'[k][1] = "message"
    BY <1>1, <1>2, <1>3, <1>4, <1>5 DEF StubInv, ReadInv
  <1>7. StubInv'
    BY <1>1, <1>3, <1>6 DEF StubInv, ReadInv
  <1>8. QED
    BY <1>2, <1>3, <1>7

\* The steps of the link that do no more to the transport than end the call.
LEMMA LinkSettles ==
  ASSUME InterceptRejects \/ InterceptAnswers \/ InvokeRejects \/ Rejects
         \/ DeliverValue \/ DeliverAndLeave \/ EndStream \/ StreamThrows
  PROVE  Settling
  <1>1. CASE InterceptRejects
    BY <1>1, UnwindSettles DEF InterceptRejects
  <1>2. CASE InterceptAnswers
    BY <1>2, TellSettles DEF InterceptAnswers
  <1>3. CASE InvokeRejects
    BY <1>3, UnwindSettles DEF InvokeRejects
  <1>4. CASE Rejects
    BY <1>4, UnwindSettles DEF Rejects
  <1>5. CASE DeliverValue
    BY <1>5, TellSettles DEF DeliverValue
  <1>6. CASE DeliverAndLeave
    BY <1>6 DEF DeliverAndLeave, Settling
  <1>7. CASE EndStream
    BY <1>7, TellSettles DEF EndStream
  <1>8. CASE StreamThrows
    BY <1>8, GivesUpSettles DEF StreamThrows
  <1>9. QED
    BY <1>1, <1>2, <1>3, <1>4, <1>5, <1>6, <1>7, <1>8

LEMMA StubNext == StubInv /\ [Next]_vars => StubInv'
  <1> SUFFICES ASSUME StubInv, [Next]_vars PROVE StubInv'
    OBVIOUS
  <1>1. CASE UNCHANGED stub \/ AbortStub
    <2>1. CASE UNCHANGED stub
      BY <2>1, SettlingReads DEF stub, StubInv, BodyInv, ReadInv, Taken, FirstTaken
    <2>2. QED
      BY <1>1, <2>1, AbortKeeps
  <1>2. CASE Subscribe \/ Unsubscribe \/ SignalAborts \/ Intercept \/ UNCHANGED vars
    BY <1>1, <1>2 DEF Subscribe, Unsubscribe, SignalAborts, Intercept, vars
  <1>3. CASE InterceptRejects \/ InterceptAnswers \/ InvokeRejects \/ Rejects
             \/ DeliverValue \/ DeliverAndLeave \/ EndStream \/ StreamThrows
    BY <1>3, LinkSettles, SettlingReads
  <1>4. CASE Invoke
    BY <1>4, StartKeeps DEF Invoke
  <1>5. CASE DeliverItem
    BY <1>5, ItemKeeps
  <1>6. CASE Transport
    BY <1>6, StubStepKeeps DEF Transport
  <1>7. CASE Peer
    BY <1>7, PeerKeeps DEF Peer
  <1>8. QED
    BY <1>2, <1>3, <1>4, <1>5, <1>6, <1>7 DEF Next, Application, Link

-----------------------------------------------------------------------------
(* What the observer has been told *)

ErrorCodes == RejectCodes \cup {"UNMAPPED", "TOKEN", "ENCODE", "DECODE"}

Events == {Data(n) : n \in Nat} \cup {Error(c) : c \in ErrorCodes} \cup {Completion}

\* Nothing is told before there is an answer, and of a stream what has been taken.
ToldInv ==
  /\ told \in Seq(Events)
  /\ lpc = "idle" => \A i \in DOMAIN told : told[i][1] # "data"
  /\ lpc = "chain" => told = <<>>
  /\ lpc = "call" /\ tpc # "open" => told = <<>>
  /\ lpc = "call" /\ tpc = "open" =>
       Len(told) = Taken /\ \A i \in 1..Taken : told[i] = Data(i)
  /\ InOrder

LEMMA EventKinds ==
  /\ Completion \in Events /\ Completion[1] = "complete"
  /\ \A n \in Nat : Data(n) \in Events /\ Data(n)[1] = "data" /\ Data(n)[2] = n
  /\ \A c \in ErrorCodes : Error(c) \in Events
  /\ \A c : Error(c)[1] = "error" /\ Error(c) # Completion
  BY DEF Events, Completion, Data, Error

\* A response that grows, and what is told at the end of a call, does not
\* disturb the order.
LEMMA OrderExtends ==
  ASSUME InOrder, told \in Seq(Events), told' \in Seq(Events), sent \in Seq(FrameSet),
         sent' \in Seq(FrameSet),
         \A i \in 1..Len(sent) : i \in 1..Len(sent') /\ sent'[i] = sent[i],
         \A i \in 1..Len(told) : i \in 1..Len(told') /\ told'[i] = told[i],
         \A i \in 1..Len(told') : i \notin 1..Len(told) => told'[i][1] # "data"
  PROVE  InOrder'
  <1>1. CASE Answered
    BY <1>1 DEF InOrder, Answered
  <1>2. CASE ~Answered
    <2>1. SUFFICES ASSUME NEW i \in 1..Len(told'), told'[i][1] = "data"
                   PROVE  InPlace(i)'
      BY DEF InOrder
    <2> DEFINE n == told[i][2]
    <2>2. i \in 1..Len(told) /\ told'[i] = told[i] /\ told[i][1] = "data"
      BY <2>1
    <2>3. InPlace(i)
      BY <1>2, <2>2 DEF InOrder
    <2>4. n \in 1..Len(sent) /\ sent[n] = Message(n)
      BY <2>3 DEF InPlace
    <2>5. \A k \in 1..n - 1 : k \in 1..Len(sent) /\ sent'[k] = sent[k]
      <3>1. Len(sent) \in Nat
        OBVIOUS
      <3>2. \A k \in 1..n - 1 : k \in 1..Len(sent)
        BY <2>4, <3>1
      <3>3. QED
        BY <3>2
    <2>6. \A j \in 1..i - 1 : j \in 1..Len(told) /\ told'[j] = told[j]
      <3>1. Len(told) \in Nat
        OBVIOUS
      <3>2. \A j \in 1..i - 1 : j \in 1..Len(told)
        BY <2>2, <3>1
      <3>3. QED
        BY <3>2
    <2>7. told'[i][2] = n /\ n \in 1..Len(sent') /\ sent'[n] = Message(n)
      BY <2>2, <2>4
    <2>8. \A k \in 1..n - 1 : sent'[k][1] = "message" => \E j \in 1..i - 1 : told'[j] = Data(k)
      BY <2>3, <2>5, <2>6 DEF InPlace
    <2>9. \A j \in 1..i - 1 : told'[j][1] = "data" => told'[j][2] < n
      BY <2>3, <2>6 DEF InPlace
    <2> HIDE DEF n
    <2>10. n \in DOMAIN sent'
      BY <2>7
    <2>11. QED
      BY <2>7, <2>8, <2>9, <2>10 DEF InPlace, Message, Data
  <1>3. QED
    BY <1>1, <1>2

\* A stream is told item by item.
LEMMA OrderOfItems ==
  ASSUME NEW m \in Nat, told' \in Seq(Events), sent' \in Seq(FrameSet),
         Len(told') = m, m <= Len(sent'),
         \A i \in 1..m : told'[i] = Data(i) /\ sent'[i] = Message(i)
  PROVE  InOrder'
  <1>1. SUFFICES ASSUME NEW i \in 1..m PROVE InPlace(i)'
    BY DEF InOrder
  <1>2. told'[i][2] = i /\ i \in DOMAIN sent' /\ sent'[i] = Message(i)
    <2>1. Len(sent') \in Nat /\ i \in 1..Len(sent')
      OBVIOUS
    <2>2. QED
      BY <2>1, EventKinds
  <1>3. \A k \in 1..i - 1 : k \in 1..m /\ k \in Nat /\ k < i
    OBVIOUS
  <1>4. \A k \in 1..i - 1 : told'[k] = Data(k) /\ told'[k][2] < i
    BY <1>3, EventKinds
  <1>5. QED
    BY <1>2, <1>4 DEF InPlace, Message, Data

\* A value is the first message of its response.
LEMMA OrderOfValue ==
  ASSUME BodyInv, UNCHANGED sent, first \in Nat, FirstTaken(first),
         told' \in Seq(Events), Len(told') \in 1..2, told'[1] = Data(first),
         Len(told') = 2 => told'[2] = Completion
  PROVE  InOrder'
  <1>1. first \in 1..Len(sent) /\ sent[first] = Message(first)
    <2>1. Len(sent) \in Nat /\ Len(frames) \in Nat
      BY DEF BodyInv
    <2>2. first \in 1..Len(sent)
      BY <2>1 DEF FirstTaken, Taken
    <2>3. QED
      BY <2>2 DEF FirstTaken
  <1>2. SUFFICES ASSUME NEW i \in 1..Len(told'), told'[i][1] = "data" PROVE InPlace(i)'
    BY DEF InOrder
  <1>3. i = 1
    <2>1. i = 1 \/ (i = 2 /\ Len(told') = 2)
      <3>1. \A l \in 1..2 : \A x \in 1..l : x = 1 \/ (x = 2 /\ l = 2)
        OBVIOUS
      <3>2. QED
        BY <3>1
    <2>2. QED
      BY <1>2, <2>1, EventKinds
  <1>4. told'[i][2] = first /\ first \in DOMAIN sent' /\ sent'[first] = Message(first)
    BY <1>1, <1>3, EventKinds DEF BodyInv
  <1>5. \A k \in 1..first - 1 : sent'[k][1] # "message"
    BY DEF FirstTaken
  <1>6. \A j : j \notin 1..i - 1
    BY <1>3
  <1>7. QED
    BY <1>4, <1>5, <1>6 DEF InPlace, Message, Data

-----------------------------------------------------------------------------
(* Telling *)

\* The observer is told the end of a call, if it is still there.
LEMMA EndTold ==
  ASSUME StubInv, ToldInv, NEW e \in Events, e[1] # "data", Tell(<<e>>), lpc' = "over"
  PROVE  ToldInv'
  <1>1. sent' = sent /\ sent \in Seq(FrameSet) /\ told \in Seq(Events) /\ InOrder
    <2>1. sent' = sent
      BY DEF Tell, AbortStub, stub
    <2>2. QED
      BY <2>1 DEF StubInv, BodyInv, ToldInv
  <1>2. \/ told' = told
        \/ /\ told' \in Seq(Events) /\ Len(told') = Len(told) + 1 /\ told'[Len(told) + 1] = e
           /\ \A i \in 1..Len(told) : told'[i] = told[i]
    BY <1>1, SMTT(40) DEF Tell
  <1>3. Len(told) \in Nat
    BY <1>1
  <1>4. /\ told' \in Seq(Events)
        /\ \A i \in 1..Len(told) : i \in 1..Len(told') /\ told'[i] = told[i]
        /\ \A i \in 1..Len(told') : i \notin 1..Len(told) => told'[i][1] # "data"
    <2>1. \A l \in Nat : \A i \in 1..l + 1 : i \in 1..l \/ i = l + 1
      OBVIOUS
    <2>2. CASE told' = told
      BY <1>1, <2>2
    <2>3. CASE ~(told' = told)
      BY <1>2, <1>3, <2>1, <2>3
    <2>4. QED
      BY <2>2, <2>3
  <1>5. InOrder'
    BY <1>1, <1>4, OrderExtends
  <1>6. QED
    BY <1>4, <1>5 DEF ToldInv

\* Nothing is told, and the call is over or waits for another try.
LEMMA NothingTold ==
  ASSUME StubInv, ToldInv, UNCHANGED <<stub, told>>,
         lpc' = "over" \/ (lpc' = "chain" /\ told = <<>>)
  PROVE  ToldInv'
  <1>1. sent' = sent
    BY DEF stub
  <1>2. InOrder'
    BY <1>1, OrderExtends DEF StubInv, BodyInv, ToldInv
  <1>3. QED
    BY <1>2 DEF ToldInv

LEMMA GivenUp ==
  ASSUME StubInv, ToldInv, NEW c \in ErrorCodes, GivesUp(c), lpc' = "over"
  PROVE  ToldInv'
  <1>1. CASE aborted
    BY <1>1, NothingTold DEF GivesUp
  <1>2. CASE ~aborted
    <2>1. Tell(<<Error(c)>>)
      BY <1>2 DEF GivesUp
    <2>2. QED
      BY <2>1, EndTold, EventKinds
  <1>3. QED
    BY <1>1, <1>2

LEMMA Unwound ==
  ASSUME StubInv, ToldInv, told = <<>>, NEW from, NEW c \in ErrorCodes, Unwind(from, c)
  PROVE  ToldInv'
  <1>1. CASE lpc' = "chain" /\ UNCHANGED <<stub, told>>
    BY <1>1, NothingTold
  <1>2. CASE lpc' = "over" /\ GivesUp(c)
    BY <1>2, GivenUp
  <1>3. QED
    BY <1>1, <1>2 DEF Unwind

\* The value of a call is told, or nobody is there to hear it.
LEMMA ValueTold ==
  ASSUME StubInv, ToldInv, lpc = "call", tpc = "resolved", lpc' = "over",
         Tell(<<Data(first), Completion>>) \/ (told' = Append(told, Data(first)) /\ AbortStub)
  PROVE  ToldInv'
  <1>1. told = <<>> /\ first \in Nat /\ FirstTaken(first) /\ BodyInv
    BY DEF ToldInv, StubInv, ReadInv
  <1>2. CASE UNCHANGED <<told, stub>>
    BY <1>2, NothingTold
  <1>3. CASE told' = told \o <<Data(first), Completion>> /\ AbortStub
    <2>1. sent' = sent
      BY <1>3 DEF AbortStub
    <2>2. told' = <<Data(first), Completion>>
      BY <1>1, <1>3
    <2>3. told' \in Seq(Events) /\ Len(told') = 2 /\ told'[1] = Data(first) /\ told'[2] = Completion
      BY <1>1, <2>2, EventKinds
    <2>4. InOrder'
      BY <1>1, <2>1, <2>3, OrderOfValue
    <2>5. QED
      BY <2>3, <2>4 DEF ToldInv
  <1>4. CASE told' = Append(told, Data(first)) /\ AbortStub
    <2>1. sent' = sent
      BY <1>4 DEF AbortStub
    <2>2. told' = <<Data(first)>>
      BY <1>1, <1>4
    <2>3. told' \in Seq(Events) /\ Len(told') = 1 /\ told'[1] = Data(first)
      BY <1>1, <2>2, EventKinds
    <2>4. InOrder'
      BY <1>1, <2>1, <2>3, OrderOfValue
    <2>5. QED
      BY <2>3, <2>4 DEF ToldInv
  <1>5. QED
    BY <1>2, <1>3, <1>4 DEF Tell

\* An interceptor's own answer.
LEMMA AnswerTold ==
  ASSUME StubInv, ToldInv, told = <<>>, lpc' = "over", Tell(<<Data(0), Completion>>)
  PROVE  ToldInv'
  <1>1. CASE UNCHANGED <<told, stub>>
    BY <1>1, NothingTold
  <1>2. CASE told' = told \o <<Data(0), Completion>>
    <2>1. told' = <<Data(0), Completion>>
      BY <1>2
    <2>2. told' \in Seq(Events) /\ told'[1] = Data(0) /\ 1 \in DOMAIN told'
      BY <2>1, EventKinds
    <2>3. Answered' /\ InOrder'
      BY <2>2 DEF Answered, InOrder, Data
    <2>4. QED
      BY <2>2, <2>3 DEF ToldInv
  <1>3. QED
    BY <1>1, <1>2 DEF Tell

LEMMA ItemTold ==
  ASSUME StubInv, ToldInv, FlightInv, DeliverItem
  PROVE  ToldInv'
  <1>1. lpc = "call" /\ tpc = "open" /\ ~aborted /\ UNCHANGED <<tpc, lpc, sent, transport>>
    BY DEF DeliverItem, ItemDue
  <1>2. obs = "open"
    BY <1>1 DEF FlightInv
  <1> DEFINE m == Taken + 1
  <1>3. StubInv' /\ Taken' = m /\ Taken \in Nat /\ next = Message(m)
    BY ItemKeeps
  <1>4. next[2] = m
    BY <1>3 DEF Message
  <1>5. /\ told' = Append(told, Data(m)) /\ told \in Seq(Events) /\ Len(told) = Taken
        /\ \A i \in 1..Taken : told[i] = Data(i)
    BY <1>1, <1>2, <1>4 DEF DeliverItem, ToldInv
  <1>6. m \in Nat /\ Data(m) \in Events
    BY <1>3, EventKinds
  <1>7. /\ told' \in Seq(Events) /\ Len(told') = m /\ told'[m] = Data(m)
        /\ \A i \in 1..Taken : told'[i] = told[i]
    BY <1>3, <1>5, <1>6
  <1>8. \A i \in 1..m : i \in 1..Taken \/ i = m
    BY <1>3
  <1>9. \A i \in 1..m : told'[i] = Data(i)
    BY <1>5, <1>7, <1>8
  <1>10. sent' \in Seq(FrameSet) /\ m <= Len(sent')
    <2>1. frames' \in Seq(FrameSet) /\ sent' \in Seq(FrameSet) /\ Taken' = Len(sent') - Len(frames')
      BY <1>3 DEF StubInv, BodyInv, Taken
    <2>2. Len(frames') \in Nat /\ Len(sent') \in Nat
      BY <2>1
    <2>3. QED
      BY <1>3, <2>1, <2>2
  <1>11. \A i \in 1..m : sent'[i] = Message(i)
    <2>1. \A i \in 1..m : sent'[i][1] = "message"
      BY <1>1, <1>3 DEF StubInv, ReadInv
    <2>2. \A i \in 1..m : i \in 1..Len(sent')
      <3>1. Len(sent') \in Nat
        BY <1>10
      <3>2. QED
        BY <1>6, <1>10, <3>1
    <2>3. QED
      BY <1>3, <2>1, <2>2 DEF StubInv, BodyInv
  <1>12. InOrder'
    BY <1>6, <1>7, <1>9, <1>10, <1>11, OrderOfItems
  <1>13. QED
    BY <1>1, <1>3, <1>7, <1>9, <1>12 DEF ToldInv

\* The response moves on while nothing is told.
LEMMA ResponseTold ==
  ASSUME StubInv, ToldInv, StubInv', UNCHANGED <<told, lpc>>,
         \A i \in 1..Len(sent) : i \in 1..Len(sent') /\ sent'[i] = sent[i],
         lpc = "call" => tpc' = tpc /\ Taken' = Taken
  PROVE  ToldInv'
  <1>1. InOrder'
    BY OrderExtends DEF StubInv, BodyInv, ToldInv
  <1>2. CASE lpc = "call"
    BY <1>1, <1>2 DEF ToldInv
  <1>3. CASE lpc # "call"
    BY <1>1, <1>3 DEF ToldInv
  <1>4. QED
    BY <1>2, <1>3

\* A call begins, or its transport takes a step: nothing has been told.
LEMMA TransportTold ==
  ASSUME StubInv, ToldInv, StubInv', told = <<>>, told' = <<>>, lpc' = "call",
         tpc' = "open" => Taken' = 0
  PROVE  ToldInv'
  <1>1. InOrder' /\ Len(told') = 0 /\ told' \in Seq(Events)
    BY DEF InOrder
  <1>2. CASE tpc' = "open"
    <2>1. \A i : i \notin 1..Taken'
      BY <1>2
    <2>2. QED
      BY <1>1, <1>2, <2>1 DEF ToldInv
  <1>3. CASE tpc' # "open"
    BY <1>1, <1>3 DEF ToldInv
  <1>4. QED
    BY <1>2, <1>3

\* A transport comes to a stream only from a response that has just begun.
LEMMA OpensFresh ==
  ASSUME StubInv, StubStep
  PROVE  tpc # "open" /\ (tpc' = "open" => Taken' = 0)
  <1>1. CASE FetchAnswered
    <2>1. tpc = "waiting" /\ UNCHANGED <<sent, frames>>
      BY <1>1 DEF FetchAnswered
    <2>2. Taken' = 0
      BY <2>1 DEF StubInv, ReadInv, Taken
    <2>3. QED
      BY <2>1, <2>2
  <1>2. CASE FetchSend \/ FetchFails
    BY <1>2 DEF FetchSend, FetchFails, Rejected
  <1>3. CASE FetchRefused
    BY <1>3, HttpCode DEF FetchRefused, Rejected
  <1>4. CASE Collect
    BY <1>4 DEF Collect
  <1>5. CASE CollectEnds
    <2>1. tpc = "collecting" /\ tpc' = Verdict
      BY <1>5 DEF CollectEnds
    <2>2. Verdict # "open"
      BY HttpCode DEF Verdict, StubInv, ReadInv, Statuses
    <2>3. QED
      BY <2>1, <2>2
  <1>6. CASE CollectFails
    BY <1>6 DEF CollectFails, Rejected
  <1>7. CASE NativeCallback
    BY <1>7 DEF NativeCallback
  <1>8. QED
    BY <1>1, <1>2, <1>3, <1>4, <1>5, <1>6, <1>7 DEF StubStep

LEMMA ToldNext == StubInv /\ FlightInv /\ ToldInv /\ [Next]_vars => ToldInv'
  <1> SUFFICES ASSUME StubInv, FlightInv, ToldInv, [Next]_vars PROVE ToldInv'
    OBVIOUS
  <1>0. StubInv'
    BY StubNext
  <1>1. CASE Subscribe
    <2>1. CASE told' = <<Error("UNMAPPED")>> /\ lpc' = lpc
      <3>1. lpc = "idle"
        BY <1>1 DEF Subscribe, FlightInv
      <3>2. told' \in Seq(Events) /\ Len(told') = 1 /\ told'[1][1] # "data"
        BY <2>1, EventKinds DEF ErrorCodes
      <3>3. InOrder'
        BY <3>2 DEF InOrder
      <3>4. QED
        BY <2>1, <3>1, <3>2, <3>3 DEF ToldInv
    <2>2. CASE UNCHANGED told
      <3>1. told = <<>> /\ lpc' \in {"idle", "chain"}
        BY <1>1 DEF Subscribe, FlightInv
      <3>2. told' \in Seq(Events) /\ DOMAIN told' = {} /\ InOrder'
        BY <2>2, <3>1 DEF InOrder
      <3>3. QED
        BY <2>2, <3>1, <3>2 DEF ToldInv
    <2>3. QED
      BY <1>1, <2>1, <2>2 DEF Subscribe
  <1>2. CASE Unsubscribe \/ SignalAborts \/ UNCHANGED vars
    <2>1. UNCHANGED <<told, lpc, tpc, sent, frames>>
      BY <1>2 DEF Unsubscribe, SignalAborts, AbortStub, vars, stub, link
    <2>2. Taken' = Taken
      BY <2>1 DEF Taken
    <2>3. QED
      BY <1>0, <2>1, <2>2, ResponseTold
  <1>3. CASE Intercept
    <2>1. UNCHANGED <<told, lpc, tpc, sent, frames>>
      BY <1>3 DEF Intercept, stub
    <2>2. Taken' = Taken
      BY <2>1 DEF Taken
    <2>3. QED
      BY <1>0, <2>1, <2>2, ResponseTold
  <1>4. CASE InterceptRejects \/ InvokeRejects
    BY <1>4, Unwound DEF InterceptRejects, InvokeRejects, ToldInv, ErrorCodes
  <1>5. CASE InterceptAnswers
    BY <1>5, AnswerTold DEF InterceptAnswers, ToldInv
  <1>6. CASE Invoke
    BY <1>6, <1>0, StartKeeps, TransportTold DEF Invoke, ToldInv
  <1>7. CASE Rejects
    <2>1. told = <<>>
      BY <1>7 DEF Rejects, ToldInv, RejectCodes
    <2>2. QED
      BY <1>7, <2>1, Unwound DEF Rejects, ErrorCodes
  <1>8. CASE DeliverValue \/ DeliverAndLeave
    BY <1>8, ValueTold DEF DeliverValue, DeliverAndLeave
  <1>9. CASE DeliverItem
    BY <1>9, ItemTold
  <1>10. CASE EndStream
    BY <1>10, EndTold, EventKinds DEF EndStream
  <1>11. CASE StreamThrows
    BY <1>11, GivenUp DEF StreamThrows, ErrorCodes
  <1>12. CASE Transport
    <2>1. StubStep /\ lpc = "call" /\ UNCHANGED <<told, lpc>>
      BY <1>12 DEF Transport, link
    <2>2. tpc # "open" /\ (tpc' = "open" => Taken' = 0)
      BY <2>1, OpensFresh
    <2>3. told = <<>>
      BY <2>1, <2>2 DEF ToldInv
    <2>4. QED
      BY <1>0, <2>1, <2>2, <2>3, TransportTold
  <1>13. CASE Peer
    BY <1>13, <1>0, PeerKeeps, ResponseTold DEF Peer, link
  <1>14. QED
    BY <1>1, <1>2, <1>3, <1>4, <1>5, <1>6, <1>7, <1>8, <1>9, <1>10, <1>11, <1>12, <1>13
       DEF Next, Application, Link

TypedInv == StubInv /\ FlightInv /\ ToldInv

LEMMA TypedInitially == Init => TypedInv
  <1> SUFFICES ASSUME Init PROVE TypedInv
    OBVIOUS
  <1>1. Len(sent) = 0 /\ Len(frames) = 0 /\ Len(told) = 0 /\ sent = <<>> /\ frames = <<>> /\ told = <<>>
    BY DEF Init, InitStub
  <1>2. BodyInv
    BY <1>1 DEF BodyInv
  <1>3. ReadInv
    BY <1>1 DEF Init, InitStub, ReadInv
  <1>4. FlightInv
    BY DEF Init, InitStub, FlightInv
  <1>5. ToldInv
    BY <1>1 DEF Init, ToldInv, InOrder
  <1>6. QED
    BY <1>2, <1>3, <1>4, <1>5 DEF TypedInv, StubInv

LEMMA TypedStep == TypedInv /\ [Next]_vars => TypedInv'
  BY StubNext, FlightStep, ToldNext DEF TypedInv

LEMMA TypedInvariance == Spec => []TypedInv
  BY TypedInitially, TypedStep, PTL DEF Spec

\* Whatever the peer sends, in streams of any length and through any chain of
\* interceptors, the observer is told one response in order and without a gap.
THEOREM ToldInOrder == Spec => []InOrder
  <1>1. TypedInv => InOrder
    BY DEF TypedInv, ToldInv
  <1>2. QED
    BY <1>1, TypedInvariance, PTL

-----------------------------------------------------------------------------
(* Success *)

\* The end that an error brings is no success.
LEMMA ErrorIsNoSuccess ==
  ASSUME ToldInv, NEW c \in ErrorCodes, Tell(<<Error(c)>>) \/ UNCHANGED <<told, obs>>
  PROVE  ~Succeeds
  <1>1. CASE UNCHANGED obs
    BY <1>1 DEF Succeeds
  <1>2. CASE told' = told \o <<Error(c)>>
    <2>1. told'[Len(told')] = Error(c)
      BY <1>2, EventKinds DEF ToldInv
    <2>2. QED
      BY <2>1, EventKinds DEF Succeeds
  <1>3. QED
    BY <1>1, <1>2 DEF Tell

LEMMA UnwindIsNoSuccess ==
  ASSUME ToldInv, NEW from, NEW c \in ErrorCodes, Unwind(from, c)
  PROVE  ~Succeeds
  BY ErrorIsNoSuccess DEF Unwind, GivesUp

LEMMA StreamEndsTruly ==
  ASSUME StubInv, ToldInv, EndStream
  PROVE  Truthful
  <1> SUFFICES ASSUME ~aborted PROVE Truthful
    BY DEF Truthful
  <1>1. lpc = "call" /\ tpc = "open" /\ next[1] = "end"
    BY DEF EndStream
  <1>2. /\ kind = "stream" /\ Len(told) = Taken
        /\ \A k \in 1..Taken : sent[k][1] = "message"
    BY <1>1 DEF ToldInv, StubInv, ReadInv
  <1>3. CASE frames = <<>> /\ transport = "native" /\ body = "ended"
    BY <1>3 DEF Truthful
  <1>4. CASE frames # <<>> /\ sent[Taken + 1] = Trailers("OK")
    <2> DEFINE i == Taken + 1
    <2>1. Taken \in Nat /\ i \in 1..Len(sent) /\ transport # "native"
      <3>1. Taken \in Nat /\ i \in 1..Len(sent)
        BY <1>4, HeadFrame DEF StubInv
      <3>2. Message(i)[1] = "message" /\ Trailers("OK")[1] = "trailers"
        BY DEF Message, Trailers
      <3>3. QED
        BY <1>4, <3>1, <3>2 DEF StubInv, BodyInv
    <2>2. i \in DOMAIN sent
      BY <2>1 DEF StubInv, BodyInv
    <2>3. i - 1 = Taken
      BY <2>1
    <2> HIDE DEF i
    <2>4. sent[i] = Trailers("OK")
      BY <1>4 DEF i
    <2>5. QED
      BY <1>2, <2>1, <2>2, <2>3, <2>4 DEF Truthful
  <1>5. QED
    BY <1>1, <1>3, <1>4, NextPull

LEMMA ValueIsTrue ==
  ASSUME StubInv, FlightInv, DeliverValue
  PROVE  Truthful
  <1>1. /\ tpc = "resolved" /\ kind = "unary"
        /\ transport = "fetch" => body = "ended" /\ \E i \in 1..Taken : sent[i] = Trailers("OK")
    BY DEF DeliverValue, StubInv, ReadInv
  <1>2. 1..Taken \subseteq DOMAIN sent
    <2>1. Len(sent) \in Nat /\ Len(frames) \in Nat /\ DOMAIN sent = 1..Len(sent)
      BY DEF StubInv, BodyInv
    <2>2. \A i \in 1..Taken : i \in 1..Len(sent)
      BY <2>1 DEF Taken
    <2>3. QED
      BY <2>1, <2>2
  <1>3. CASE transport = "native"
    BY <1>1, <1>3 DEF Truthful
  <1>4. CASE transport = "fetch"
    <2>1. PICK i \in 1..Taken : sent[i] = Trailers("OK")
      BY <1>1, <1>4
    <2>2. i \in DOMAIN sent /\ body = "ended" /\ kind # "stream" /\ transport # "native"
      BY <1>1, <1>2, <1>4
    <2>3. QED
      BY <2>1, <2>2 DEF Truthful
  <1>5. QED
    BY <1>3, <1>4 DEF FlightInv

LEMMA TruthfulStep == TypedInv /\ [Next]_vars => [Truthful]_vars
  <1> SUFFICES ASSUME TypedInv, Next PROVE Truthful
    OBVIOUS
  <1> USE DEF TypedInv
  <1>1. CASE Subscribe \/ Unsubscribe \/ SignalAborts \/ Intercept \/ Invoke \/ DeliverItem
             \/ DeliverAndLeave \/ Transport \/ Peer
    <2>1. obs # "open" \/ obs' # "done"
      BY <1>1 DEF Subscribe, Unsubscribe, SignalAborts, Intercept, Invoke, DeliverItem,
                  DeliverAndLeave, Transport, Peer, link
    <2>2. QED
      BY <2>1 DEF Truthful, Succeeds
  <1>2. CASE InterceptRejects \/ InvokeRejects \/ Rejects
    <2>1. ~Succeeds
      BY <1>2, UnwindIsNoSuccess DEF InterceptRejects, InvokeRejects, Rejects, ErrorCodes
    <2>2. QED
      BY <2>1 DEF Truthful
  <1>3. CASE InterceptAnswers
    <2>1. CASE UNCHANGED obs
      BY <2>1 DEF Truthful, Succeeds
    <2>2. CASE told' = told \o <<Data(0), Completion>>
      <3>1. told = <<>>
        BY <1>3 DEF InterceptAnswers, ToldInv
      <3>2. told' = <<Data(0), Completion>>
        BY <2>2, <3>1
      <3>3. 1 \in DOMAIN told' /\ told'[1] = Data(0)
        BY <3>2
      <3>4. QED
        BY <3>3 DEF Truthful, Answered, Data
    <2>3. QED
      BY <1>3, <2>1, <2>2 DEF InterceptAnswers, Tell
  <1>4. CASE DeliverValue
    BY <1>4, ValueIsTrue
  <1>5. CASE EndStream
    BY <1>5, StreamEndsTruly
  <1>6. CASE StreamThrows
    <2>1. ~Succeeds
      BY <1>6, ErrorIsNoSuccess DEF StreamThrows, GivesUp, ErrorCodes
    <2>2. QED
      BY <2>1 DEF Truthful
  <1>7. QED
    BY <1>1, <1>2, <1>3, <1>4, <1>5, <1>6 DEF Next, Application, Link

\* Over both transports, for responses of any length: success is told only of a
\* call that an OK status has ended, with nothing of its stream left out.
THEOREM CompletionIsTruthful == Spec => TruthfulCompletion
  BY TruthfulStep, TypedInvariance, PTL DEF Spec, TruthfulCompletion
==============================================================================
