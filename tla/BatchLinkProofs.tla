--------------------------- MODULE BatchLinkProofs ---------------------------
(* Proofs about BatchLink, for any calls, batch size and number of flushes. *)
EXTENDS BatchLink, TLAPS

-----------------------------------------------------------------------------
(* Sequences *)

LEMMA MembersEmpty == Members(<<>>) = {}
  BY DEF Members

LEMMA LenEmpty == Len(<<>>) = 0
  OBVIOUS

LEMMA HeldLengths ==
  ASSUME TypeOK
  PROVE  \A f \in Flushes : Len(request[f]) \in Nat /\ Len(active[f]) \in Nat
  <1>1. \A f \in Flushes : request[f] \in Seq(Calls) /\ active[f] \in Seq(Calls)
    BY DEF TypeOK
  <1>2. QED
    BY <1>1

\* What Append adds to the members of a sequence.
LEMMA MembersAppend ==
  ASSUME NEW S, NEW s \in Seq(S), NEW x \in S
  PROVE  /\ Append(s, x) \in Seq(S)
         /\ Members(Append(s, x)) = Members(s) \cup {x}
  <1>1. /\ Append(s, x) \in Seq(S)
        /\ DOMAIN s = 1..Len(s) /\ Len(s) \in Nat
        /\ DOMAIN Append(s, x) = 1..(Len(s) + 1)
        /\ \A i \in 1..Len(s) : Append(s, x)[i] = s[i]
        /\ Append(s, x)[Len(s) + 1] = x
    OBVIOUS
  <1>2. \A i \in 1..(Len(s) + 1) : i \in 1..Len(s) \/ i = Len(s) + 1
    BY <1>1
  <1>3. \A i \in DOMAIN Append(s, x) : Append(s, x)[i] \in Members(s) \cup {x}
    BY <1>1, <1>2 DEF Members
  <1>4. x \in Members(Append(s, x))
    BY <1>1, Len(s) + 1 \in 1..(Len(s) + 1) DEF Members
  <1>5. \A i \in DOMAIN s : s[i] \in Members(Append(s, x))
    BY <1>1, \A i \in 1..Len(s) : i \in 1..(Len(s) + 1) DEF Members
  <1>6. QED
    BY <1>1, <1>3, <1>4, <1>5 DEF Members

\* A non-empty sequence consists of its head and its tail.
LEMMA MembersTail ==
  ASSUME NEW S, NEW s \in Seq(S), s # <<>>
  PROVE  /\ Head(s) \in S /\ Tail(s) \in Seq(S)
         /\ Members(s) = {Head(s)} \cup Members(Tail(s))
  <1>1. Head(s) \in S /\ Tail(s) \in Seq(S) /\ Len(s) \in Nat \ {0}
    OBVIOUS
  <1>2. ASSUME NEW i \in DOMAIN s
        PROVE  s[i] \in {Head(s)} \cup Members(Tail(s))
    <2>1. CASE i = 1
      BY <2>1
    <2>2. CASE i # 1
      <3>1. i - 1 \in DOMAIN Tail(s) /\ Tail(s)[i - 1] = s[i]
        BY <2>2
      <3>2. QED
        BY <3>1 DEF Members
    <2>3. QED
      BY <2>1, <2>2
  <1>3. ASSUME NEW i \in DOMAIN Tail(s)
        PROVE  Tail(s)[i] \in Members(s)
    BY i + 1 \in DOMAIN s /\ Tail(s)[i] = s[i + 1] DEF Members
  <1>4. Head(s) \in Members(s)
    BY 1 \in DOMAIN s DEF Members
  <1>5. QED
    BY <1>1, <1>2, <1>3, <1>4 DEF Members

\* Splitting off a group loses nothing, and the group is what is split off.
LEMMA GroupAndRest ==
  ASSUME NEW s \in Seq(Calls), s # <<>>
  PROVE  /\ GroupSize(s) \in 1..Len(s) /\ GroupSize(s) <= MaxItems
         /\ Group(s) \in Seq(Calls) /\ Len(Group(s)) = GroupSize(s)
         /\ \A i \in 1..GroupSize(s) : Group(s)[i] = s[i]
         /\ Rest(s) \in Seq(Calls)
         /\ Len(Rest(s)) = Len(s) - GroupSize(s)
         /\ \A i \in 1..Len(Rest(s)) : Rest(s)[i] = s[i + GroupSize(s)]
  <1>1. GroupSize(s) \in 1..Len(s) /\ GroupSize(s) <= MaxItems
    BY ConstantsAssumption DEF GroupSize
  <1>2. QED
    BY <1>1 DEF Group, Rest

LEMMA GroupAndRestMembers ==
  ASSUME NEW s \in Seq(Calls), s # <<>>
  PROVE  Members(s) = Members(Group(s)) \cup Members(Rest(s))
  <1>1. DOMAIN s = 1..Len(s) /\ Len(s) \in Nat
    OBVIOUS
  <1>2. DOMAIN Group(s) = 1..GroupSize(s) /\ DOMAIN Rest(s) = 1..(Len(s) - GroupSize(s))
    BY GroupAndRest
  <1>3. ASSUME NEW i \in DOMAIN s
        PROVE  s[i] \in Members(Group(s)) \cup Members(Rest(s))
    <2>1. CASE i <= GroupSize(s)
      BY <1>1, <1>2, <2>1, GroupAndRest DEF Members
    <2>2. CASE ~(i <= GroupSize(s))
      <3> DEFINE n == GroupSize(s)
      <3>0. n \in Nat /\ i \in Nat /\ i - n \in 1..(Len(s) - n) /\ (i - n) + n = i
        BY <1>1, <2>2, GroupAndRest
      <3>1. i - GroupSize(s) \in DOMAIN Rest(s) /\ s[i] = Rest(s)[i - GroupSize(s)]
        BY <1>2, <3>0, GroupAndRest
      <3>2. QED
        BY <3>1 DEF Members
    <2>3. QED
      BY <2>1, <2>2
  <1>4. ASSUME NEW i \in DOMAIN Group(s)
        PROVE  Group(s)[i] \in Members(s)
    <2>1. i \in DOMAIN s /\ Group(s)[i] = s[i]
      BY <1>1, <1>2, GroupAndRest
    <2>2. QED
      BY <2>1 DEF Members
  <1>5. ASSUME NEW i \in DOMAIN Rest(s)
        PROVE  Rest(s)[i] \in Members(s)
    <2>1. i + GroupSize(s) \in DOMAIN s /\ Rest(s)[i] = s[i + GroupSize(s)]
      BY <1>1, <1>2, GroupAndRest
    <2>2. QED
      BY <2>1 DEF Members
  <1>6. QED
    BY <1>3, <1>4, <1>5 DEF Members

\* Array.prototype.filter keeps the live calls of a group and only those.
LEMMA FilterGroup ==
  ASSUME NEW s \in Seq(Calls), s # <<>>, NEW h \in LivePositions(Group(s)),
         NEW t, t = [i \in DOMAIN h |-> s[h[i]]]
  PROVE  /\ t \in Seq(Calls) /\ Len(t) <= MaxItems
         /\ DOMAIN t = DOMAIN h
         /\ h \in [DOMAIN t -> 1..GroupSize(s)]
         /\ \A i, j \in DOMAIN t : i < j => h[i] < h[j]
         /\ Members(t) = {c \in Members(Group(s)) : Live(c)}
  <1> DEFINE g == Group(s)
             P == {i \in DOMAIN g : Live(g[i])}
  <1>1. g \in Seq(Calls) /\ DOMAIN g = 1..GroupSize(s) /\ Len(g) = GroupSize(s)
        /\ GroupSize(s) \in 1..Len(s) /\ GroupSize(s) <= MaxItems
    BY GroupAndRest
  <1>2. PICK k \in 0..Len(g) : h \in [1..k -> P]
    BY DEF LivePositions
  <1>3. /\ \A i, j \in DOMAIN h : i < j => h[i] < h[j]
        /\ \A p \in P : \E i \in DOMAIN h : h[i] = p
    BY DEF LivePositions
  <1>4. \A i \in 1..k : h[i] \in 1..GroupSize(s) /\ s[h[i]] = g[h[i]] /\ Live(s[h[i]])
                        /\ s[h[i]] \in Calls
    BY <1>1, <1>2, GroupAndRest
  <1>5. t \in Seq(Calls) /\ Len(t) = k /\ DOMAIN t = 1..k
    BY <1>2, <1>4
  <1>6. Members(t) = {c \in Members(g) : Live(c)}
    <2>1. ASSUME NEW i \in DOMAIN t
          PROVE  t[i] \in Members(g) /\ Live(t[i])
      BY <1>1, <1>2, <1>4, <1>5 DEF Members
    <2>2. ASSUME NEW j \in DOMAIN g, Live(g[j])
          PROVE  g[j] \in Members(t)
      BY <1>1, <1>2, <1>3, <1>4, <1>5, <2>2, SMTT(40) DEF Members
    <2>3. QED
      BY <2>1, <2>2 DEF Members
  <1>7. QED
    BY <1>1, <1>2, <1>3, <1>4, <1>5, <1>6, ConstantsAssumption
-----------------------------------------------------------------------------
(* Type correctness *)

\* What abort() assigns is well typed.
LEMMA AbortType ==
  ASSUME TypeOK, NEW c \in Calls, Abort(c)
  PROVE  cancelled' \in [Calls -> BOOLEAN] /\ unused' \in [Flushes -> BOOLEAN]
  BY DEF TypeOK, Abort

\* What deliver() and fail() assign is well typed.
LEMMA SettleType ==
  ASSUME TypeOK, NEW c \in Calls, NEW o \in Outcomes, Settle(c, o)
  PROVE  /\ torn' \in [Calls -> BOOLEAN]
         /\ completed' \in [Calls -> BOOLEAN]
         /\ cancelled' \in [Calls -> BOOLEAN]
         /\ notified' \in [Calls -> Seq(Outcomes)]
         /\ unused' \in [Flushes -> BOOLEAN]
         /\ callback' \in BOOLEAN
  <1>1. CASE completed[c] \/ cancelled[c]
    BY <1>1 DEF TypeOK, Settle
  <1>2. CASE ~(completed[c] \/ cancelled[c])
    <2>1. Append(notified[c], o) \in Seq(Outcomes)
      BY DEF TypeOK
    <2>2. Abort(c)
      BY <1>2 DEF Settle
    <2>3. QED
      BY <1>2, <2>1, <2>2, AbortType DEF TypeOK, Settle
  <1>3. QED
    BY <1>1, <1>2

\* The loop over byId tells the call with an id its own data or an error.
LEMMA VerdictsOfCall ==
  ASSUME TypeOK, NEW f \in Flushes, at[f] \in DOMAIN request[f],
         NEW o \in Verdicts(results[f], request[f], at[f])
  PROVE  /\ request[f][at[f]] \in Calls
         /\ o \in {Data(request[f][at[f]])} \cup {Error(e) : e \in Causes}
         /\ o \in Outcomes
  <1>1. request[f][at[f]] \in Calls
    BY DEF TypeOK
  <1>2. \A r \in ResultsFor(results[f], at[f]) : r.id = at[f]
    BY DEF ResultsFor
  <1>3. o \in {Data(request[f][at[f]])} \cup {Error(e) : e \in Causes}
    BY <1>2 DEF Verdicts, Causes
  <1>4. QED
    BY <1>1, <1>3 DEF Outcomes

LEMMA ErrorOutcome == \A e \in Causes : Error(e) \in Outcomes
  BY DEF Outcomes

LEMMA InitType == Init => TypeOK
  <1>1. \A S : <<>> \in Seq(S)
    OBVIOUS
  <1> SUFFICES ASSUME Init PROVE TypeOK
    OBVIOUS
  <1> USE DEF Init
  <1>2. /\ notified \in [Calls -> Seq(Outcomes)]
        /\ pending \in [Queues -> Seq(Calls)]
        /\ todo \in [Flushes -> Seq(Calls)]
        /\ active \in [Flushes -> Seq(Calls)]
        /\ request \in [Flushes -> Seq(Calls)]
        /\ results \in [Flushes -> Seq(Results)]
    BY <1>1
  <1>3. /\ type \in [Flushes -> Queues]
        /\ at \in [Flushes -> Nat \ {0}]
        /\ abortBatch \in [Calls -> Flushes \cup {NoFlush}]
        /\ pc \in [Flushes -> {"idle", "next", "prepare", "await", "deliver",
                               "catch", "finally"}]
    BY DEF Queues
  <1>4. QED
    BY <1>2, <1>3 DEF TypeOK

LEMMA NextType == TypeOK /\ [Next]_vars => TypeOK'
  <1> SUFFICES ASSUME TypeOK, [Next]_vars PROVE TypeOK'
    OBVIOUS
  <1> USE DEF TypeOK, itemVars, queueVars, flushVars
  <1>1. ASSUME NEW c \in Calls, Subscribe(c) PROVE TypeOK'
    <2>1. Append(pending[OpType[c]], c) \in Seq(Calls)
      BY <1>1 DEF Subscribe, QueueOf
    <2>2. QED
      BY <1>1, <2>1 DEF Subscribe, QueueOf
  <1>2. ASSUME NEW c \in Calls, RefuseSubscription(c) PROVE TypeOK'
    <2>1. Append(notified[c], Error("unsupported")) \in Seq(Outcomes)
      BY ErrorOutcome DEF Causes
    <2>2. QED
      BY <1>2, <2>1 DEF RefuseSubscription
  <1>3. ASSUME NEW c \in Calls, Unsubscribe(c) PROVE TypeOK'
    BY <1>3, AbortType DEF Unsubscribe
  <1>4. ASSUME NEW c \in Calls, SignalAbort(c) PROVE TypeOK'
    BY <1>4, AbortType DEF SignalAbort
  <1>5. ASSUME NEW q \in Queues, NEW f \in Flushes, Flush(q, f) PROVE TypeOK'
    BY <1>5 DEF Flush
  <1>6. ASSUME NEW f \in Flushes, StartGroup(f) PROVE TypeOK'
    <2>1. /\ todo[f] \in Seq(Calls) /\ todo[f] # <<>>
      BY <1>6 DEF StartGroup
    <2>2. PICK h \in LivePositions(Group(todo[f])) :
            active' = [active EXCEPT ![f] = [i \in DOMAIN h |-> todo[f][h[i]]]]
      BY <1>6 DEF StartGroup
    <2>3. [i \in DOMAIN h |-> todo[f][h[i]]] \in Seq(Calls)
      BY <2>1, <2>2, FilterGroup
    <2>4. Rest(todo[f]) \in Seq(Calls)
      BY <2>1, GroupAndRest
    <2>5. QED
      BY <1>6, <2>2, <2>3, <2>4 DEF StartGroup
  <1>7. ASSUME NEW f \in Flushes, FlushDone(f) PROVE TypeOK'
    BY <1>7 DEF FlushDone
  <1>8. ASSUME NEW f \in Flushes, PrepareFails(f) PROVE TypeOK'
    <2>1. Head(active[f]) \in Calls /\ Tail(active[f]) \in Seq(Calls)
      BY <1>8 DEF PrepareFails
    <2>2. PICK cause \in {"unmapped", "encode"} :
            Settle(Head(active[f]), Error(cause))
      BY <1>8 DEF PrepareFails
    <2>3. Error(cause) \in Outcomes
      BY ErrorOutcome DEF Causes
    <2>4. QED
      BY <1>8, <2>1, <2>2, <2>3, SettleType DEF PrepareFails
  <1>9. ASSUME NEW f \in Flushes, PrepareCall(f) PROVE TypeOK'
    <2>1. Head(active[f]) \in Calls /\ Tail(active[f]) \in Seq(Calls)
      BY <1>9 DEF PrepareCall
    <2>2. Append(request[f], Head(active[f])) \in Seq(Calls)
      BY <2>1
    <2>3. QED
      BY <1>9, <2>1, <2>2 DEF PrepareCall
  <1>10. ASSUME NEW f \in Flushes, SkipGroup(f) PROVE TypeOK'
    BY <1>10 DEF SkipGroup
  <1>11. ASSUME NEW f \in Flushes, Send(f) PROVE TypeOK'
    BY <1>11 DEF Send
  <1>12. ASSUME NEW f \in Flushes, Deliver(f) PROVE TypeOK'
    <2>1. PICK o \in Verdicts(results[f], request[f], at[f]) :
            Settle(request[f][at[f]], o)
      BY <1>12 DEF Deliver
    <2>2. request[f][at[f]] \in Calls /\ o \in Outcomes
      BY <1>12, VerdictsOfCall DEF Deliver
    <2>3. at' \in [Flushes -> Nat \ {0}]
      BY <1>12 DEF Deliver
    <2>4. QED
      BY <1>12, <2>1, <2>2, <2>3, SettleType DEF Deliver
  <1>13. ASSUME NEW f \in Flushes, FailOne(f) PROVE TypeOK'
    <2>1. request[f][at[f]] \in Calls /\ Error("transport") \in Outcomes
      BY <1>13, ErrorOutcome DEF FailOne, Causes
    <2>2. at' \in [Flushes -> Nat \ {0}]
      BY <1>13 DEF FailOne
    <2>3. QED
      BY <1>13, <2>1, <2>2, SettleType DEF FailOne
  <1>14. ASSUME NEW f \in Flushes, Finally(f) PROVE TypeOK'
    <2>1. request' \in [Flushes -> Seq(Calls)] /\ results' \in [Flushes -> Seq(Results)]
      BY <1>14 DEF Finally
    <2>2. at' \in [Flushes -> Nat \ {0}] /\ unused' \in [Flushes -> BOOLEAN]
      BY <1>14 DEF Finally
    <2>3. abortBatch' \in [Calls -> Flushes \cup {NoFlush}]
      BY <1>14 DEF Finally
    <2>4. QED
      BY <1>14, <2>1, <2>2, <2>3 DEF Finally
  <1>15. ASSUME NEW f \in Flushes, Reject(f) PROVE TypeOK'
    BY <1>15 DEF Reject, CatchPc
  <1>16. ASSUME NEW f \in Flushes, NEW R \in Responses(Len(request[f])), Respond(f, R)
         PROVE  TypeOK'
    <2>1. R \in Seq(Results)
      <3> DEFINE n == Len(request[f])
                 entries == [id : 1..n, result : {"output", "error"}]
                              \cup {[id |-> n + 1, result |-> "output"]}
      <3>1. PICK k \in 0..n + Surplus : R \in [1..k -> entries]
        BY DEF Responses
      <3>2. k \in Nat /\ \A i \in 1..k : R[i] \in Results
        BY <3>1 DEF Results
      <3>3. QED
        BY <3>1, <3>2
    <2>2. QED
      BY <1>16, <2>1 DEF Respond, CatchPc
  <1>17. CASE UNCHANGED vars
    BY <1>17 DEF vars
  <1>18. QED
    BY <1>1, <1>2, <1>3, <1>4, <1>5, <1>6, <1>7, <1>8, <1>9, <1>10, <1>11, <1>12,
       <1>13, <1>14, <1>15, <1>16, <1>17 DEF Next, App, Run, Answer

\* Every variable of the link keeps its type, whatever the application, the
\* scheduler and the server do.
THEOREM TypeCorrect == Spec => []TypeOK
  BY InitType, NextType, PTL DEF Spec
-----------------------------------------------------------------------------
(* What abort() and a settlement do, in the terms of the invariant *)

Sent == {"await", "deliver", "catch", "finally"}

\* abort() marks one item, and aborts no request that someone waits for.
LEMMA AbortEffect ==
  ASSUME TypeOK, AbortsOwnRequest, AbortOnlyWhenUnused, NEW c \in Calls, Abort(c)
  PROVE  /\ cancelled'[c]
         /\ \A d \in Calls \ {c} : cancelled'[d] = cancelled[d]
         /\ \A f \in Flushes : unused[f] => unused'[f]
         /\ \A f \in Flushes : unused'[f] => unused[f] \/ pc[f] \in Sent
         /\ \A f \in Flushes : unused'[f] =>
              \A d \in Members(request[f]) : cancelled'[d]
  <1>1. cancelled'[c] /\ \A d \in Calls \ {c} : cancelled'[d] = cancelled[d]
    BY DEF Abort, TypeOK
  <1>2. \A f \in Flushes : unused'[f] = (unused[f] \/ f \in Unused(c, cancelled'))
    BY DEF Abort, TypeOK
  <1>3. \A f \in Flushes : f \in Unused(c, cancelled') =>
          abortBatch[c] = f /\ \A d \in Members(request[f]) : cancelled'[d]
    BY DEF Unused
  <1>4. \A f \in Flushes : Members(request[f]) \subseteq Calls
    BY DEF TypeOK, Members
  <1>5. \A f \in Flushes : unused[f] => \A d \in Members(request[f]) : cancelled'[d]
    BY <1>1, <1>4 DEF AbortOnlyWhenUnused
  <1>6. QED
    BY <1>1, <1>2, <1>3, <1>5 DEF AbortsOwnRequest, Sent

\* A settlement leaves its call told or gone, and touches no other item.
LEMMA SettleEffect ==
  ASSUME TypeOK, AbortsOwnRequest, AbortOnlyWhenUnused, ItemFlags,
         NEW c \in Calls, NEW o \in Outcomes, Settle(c, o)
  PROVE  /\ notified'[c] # <<>> \/ cancelled'[c]
         /\ notified[c] # <<>> => notified'[c] # <<>>
         /\ completed[c] => completed'[c]
         /\ cancelled[c] => cancelled'[c]
         /\ completed'[c] => notified'[c] # <<>>
         /\ notified'[c] # <<>> => completed'[c] \/ notified'[c] = notified[c]
         /\ \A d \in Calls \ {c} : /\ cancelled'[d] = cancelled[d]
                                   /\ completed'[d] = completed[d]
                                   /\ notified'[d] = notified[d]
         /\ \A f \in Flushes : unused[f] => unused'[f]
         /\ \A f \in Flushes : unused'[f] => unused[f] \/ pc[f] \in Sent
         /\ \A f \in Flushes : unused'[f] =>
              \A d \in Members(request[f]) : cancelled'[d]
  <1>1. CASE completed[c] \/ cancelled[c]
    <2>1. UNCHANGED <<completed, cancelled, notified, unused>>
      BY <1>1 DEF Settle
    <2>2. QED
      BY <1>1, <2>1 DEF ItemFlags, AbortOnlyWhenUnused
  <1>2. CASE ~(completed[c] \/ cancelled[c])
    <2>1. Abort(c)
      BY <1>2 DEF Settle
    <2>2. /\ completed'[c] /\ notified'[c] = Append(notified[c], o)
          /\ \A d \in Calls \ {c} : /\ completed'[d] = completed[d]
                                    /\ notified'[d] = notified[d]
      BY <1>2 DEF Settle, TypeOK
    <2>3. notified'[c] # <<>>
      <3>1. notified[c] \in Seq(Outcomes)
        BY DEF TypeOK
      <3>2. QED
        BY <2>2, <3>1
    <2>4. QED
      BY <2>1, <2>2, <2>3, AbortEffect
  <1>3. QED
    BY <1>1, <1>2

\* The settling actions settle a call of their flush's group, or the outcome
\* is dropped.
LEMMA SettlingActions ==
  ASSUME TypeOK, NEW f \in Flushes
  PROVE  /\ PrepareFails(f) =>
              /\ Head(active[f]) \in Calls
              /\ \E o \in Outcomes : Settle(Head(active[f]), o)
         /\ Deliver(f) \/ FailOne(f) =>
              /\ at[f] \in DOMAIN request[f]
              /\ request[f][at[f]] \in Calls
              /\ \E o \in Outcomes : Settle(request[f][at[f]], o)
  <1>1. ASSUME PrepareFails(f)
        PROVE  /\ Head(active[f]) \in Calls
               /\ \E o \in Outcomes : Settle(Head(active[f]), o)
    <2>1. Head(active[f]) \in Calls
      BY <1>1 DEF PrepareFails, TypeOK
    <2>2. QED
      BY <1>1, <2>1, ErrorOutcome DEF PrepareFails, Causes
  <1>2. ASSUME Deliver(f)
        PROVE  /\ at[f] \in DOMAIN request[f]
               /\ request[f][at[f]] \in Calls
               /\ \E o \in Outcomes : Settle(request[f][at[f]], o)
    BY <1>2, VerdictsOfCall DEF Deliver
  <1>3. ASSUME FailOne(f)
        PROVE  /\ at[f] \in DOMAIN request[f]
               /\ request[f][at[f]] \in Calls
               /\ \E o \in Outcomes : Settle(request[f][at[f]], o)
    BY <1>3, ErrorOutcome DEF FailOne, Causes, TypeOK
  <1>4. QED
    BY <1>1, <1>2, <1>3
-----------------------------------------------------------------------------
(* Each conjunct of the invariant is preserved *)

LEMMA NextQueueWakes == IInv /\ [Next]_vars => QueueWakes'
  <1> SUFFICES ASSUME IInv, [Next]_vars PROVE QueueWakes'
    OBVIOUS
  <1> USE DEF IInv, TypeOK, QueueWakes, itemVars, queueVars, flushVars
  <1>1. ASSUME NEW c \in Calls, Subscribe(c) PROVE QueueWakes'
    BY <1>1 DEF Subscribe, QueueOf
  <1>2. ASSUME NEW q \in Queues, NEW f \in Flushes, Flush(q, f) PROVE QueueWakes'
    BY <1>2 DEF Flush
  <1>3. ASSUME NEW c \in Calls,
               RefuseSubscription(c) \/ Unsubscribe(c) \/ SignalAbort(c)
        PROVE  QueueWakes'
    BY <1>3 DEF RefuseSubscription, Unsubscribe, SignalAbort
  <1>4. ASSUME NEW f \in Flushes, Run(f) PROVE QueueWakes'
    BY <1>4 DEF Run, StartGroup, FlushDone, PrepareFails, PrepareCall, SkipGroup,
                Send, Deliver, FailOne, Finally
  <1>5. ASSUME NEW f \in Flushes, Answer(f) PROVE QueueWakes'
    BY <1>5 DEF Answer, Reject, Respond
  <1>6. CASE UNCHANGED vars
    BY <1>6 DEF vars
  <1>7. QED
    BY <1>1, <1>2, <1>3, <1>4, <1>5, <1>6 DEF Next, App

LEMMA NextFlushHolds == IInv /\ [Next]_vars => FlushHolds'
  <1> SUFFICES ASSUME IInv, [Next]_vars PROVE FlushHolds'
    OBVIOUS
  <1> USE DEF IInv, FlushHolds, itemVars, queueVars, flushVars
  <1>1. ASSUME NEW c \in Calls, Abort(c), UNCHANGED flushVars PROVE FlushHolds'
    BY <1>1, AbortEffect DEF Sent
  <1>2. ASSUME NEW c \in Calls, App(c) PROVE FlushHolds'
    <2>1. CASE Subscribe(c) \/ RefuseSubscription(c)
      BY <2>1 DEF Subscribe, QueueOf, RefuseSubscription
    <2>2. CASE Unsubscribe(c)
      BY <1>1, <2>2 DEF Unsubscribe
    <2>3. CASE SignalAbort(c)
      BY <1>1, <2>3 DEF SignalAbort
    <2>4. QED
      BY <1>2, <2>1, <2>2, <2>3 DEF App
  <1>3. ASSUME NEW q \in Queues, NEW f \in Flushes, Flush(q, f) PROVE FlushHolds'
    BY <1>3 DEF Flush, TypeOK
  <1>4. ASSUME NEW f \in Flushes, StartGroup(f) PROVE FlushHolds'
    <2>1. todo[f] \in Seq(Calls) /\ todo[f] # <<>>
      BY <1>4 DEF StartGroup, TypeOK
    <2>2. PICK h \in LivePositions(Group(todo[f])) :
            active' = [active EXCEPT ![f] = [i \in DOMAIN h |-> todo[f][h[i]]]]
      BY <1>4 DEF StartGroup
    <2>3. Len(active'[f]) \in Nat /\ Len(active'[f]) <= MaxItems
      BY <2>1, <2>2, FilterGroup DEF TypeOK
    <2>4. request[f] = <<>> /\ Len(request[f]) = 0
      BY <1>4, LenEmpty DEF StartGroup
    <2>5. \A g \in Flushes \ {f} : active'[g] = active[g]
      BY <2>2 DEF TypeOK
    <2>6. QED
      BY <1>4, <2>3, <2>4, <2>5, ConstantsAssumption DEF StartGroup, TypeOK
  <1>5. ASSUME NEW f \in Flushes, FlushDone(f) PROVE FlushHolds'
    BY <1>5 DEF FlushDone, TypeOK
  <1>6. ASSUME NEW f \in Flushes, PrepareFails(f) PROVE FlushHolds'
    <2>1. \A g \in Flushes : unused'[g] => unused[g] \/ pc[g] \in Sent
      BY <1>6, SettlingActions, SettleEffect
    <2>2. active[f] \in Seq(Calls) /\ active[f] # <<>> /\ active' = [active EXCEPT ![f] = Tail(@)]
      BY <1>6 DEF PrepareFails, TypeOK
    <2>3. Len(Tail(active[f])) = Len(active[f]) - 1
      BY <2>2
    <2>4. \A g \in Flushes : Len(request[g]) \in Nat /\ Len(active[g]) \in Nat
      BY HeldLengths
    <2>5. \A g \in Flushes : unused[g] => unused'[g]
      BY <1>6, SettlingActions, SettleEffect
    <2>6. UNCHANGED <<pc, todo, request, at>> /\ pc[f] = "prepare"
      BY <1>6 DEF PrepareFails
    <2>7. \A g \in Flushes : Len(active'[g]) + Len(request'[g]) <= MaxItems
      BY <2>2, <2>3, <2>4, <2>6, ConstantsAssumption DEF TypeOK
    <2>8. QED
      BY <2>1, <2>2, <2>5, <2>6, <2>7 DEF TypeOK, Sent
  <1>7. ASSUME NEW f \in Flushes, PrepareCall(f) PROVE FlushHolds'
    <2>1. /\ active[f] \in Seq(Calls) /\ active[f] # <<>> /\ request[f] \in Seq(Calls)
          /\ active' = [active EXCEPT ![f] = Tail(@)]
          /\ request' = [request EXCEPT ![f] = Append(@, Head(active[f]))]
      BY <1>7 DEF PrepareCall, TypeOK
    <2>2. /\ Len(Tail(active[f])) = Len(active[f]) - 1
          /\ Len(Append(request[f], Head(active[f]))) = Len(request[f]) + 1
      BY <2>1
    <2>3. \A g \in Flushes : Len(request[g]) \in Nat /\ Len(active[g]) \in Nat
      BY HeldLengths
    <2>4. \A g \in Flushes : Len(active'[g]) + Len(request'[g]) <= MaxItems
      BY <2>1, <2>2, <2>3, ConstantsAssumption DEF TypeOK
    <2>5. UNCHANGED <<pc, todo, at, unused>> /\ pc[f] = "prepare"
      BY <1>7 DEF PrepareCall
    <2>6. QED
      BY <2>1, <2>4, <2>5 DEF TypeOK
  <1>8. ASSUME NEW f \in Flushes, SkipGroup(f) \/ Send(f) PROVE FlushHolds'
    BY <1>8 DEF SkipGroup, Send, TypeOK
  <1>9. ASSUME NEW f \in Flushes, Deliver(f) \/ FailOne(f) PROVE FlushHolds'
    <2>1. \A g \in Flushes : /\ unused'[g] => unused[g] \/ pc[g] \in Sent
                             /\ unused[g] => unused'[g]
      BY <1>9, SettlingActions, SettleEffect
    <2>2. /\ UNCHANGED <<pc, todo, active, request>> /\ pc[f] \in {"deliver", "catch"}
          /\ \A g \in Flushes \ {f} : at'[g] = at[g]
      BY <1>9 DEF Deliver, FailOne, TypeOK
    <2>3. QED
      BY <2>1, <2>2 DEF Sent
  <1>10. ASSUME NEW f \in Flushes, Finally(f) PROVE FlushHolds'
    <2>1. active[f] = <<>> /\ Len(active[f]) = 0 /\ Len(<<>>) = 0
      BY <1>10, LenEmpty DEF Finally
    <2>2. QED
      BY <1>10, <2>1, ConstantsAssumption DEF Finally, TypeOK
  <1>11. ASSUME NEW f \in Flushes, Answer(f) PROVE FlushHolds'
    <2>1. pc[f] = "await" /\ UNCHANGED <<todo, active, request, at, unused>>
      BY <1>11 DEF Answer, Reject, Respond
    <2>2. /\ \A g \in Flushes \ {f} : pc'[g] = pc[g]
          /\ pc'[f] = "deliver" \/ pc'[f] = IF unused[f] THEN "finally" ELSE "catch"
      BY <1>11 DEF Answer, Reject, Respond, CatchPc, TypeOK
    <2>3. QED
      BY <2>1, <2>2
  <1>12. CASE UNCHANGED vars
    BY <1>12 DEF vars
  <1>13. QED
    BY <1>2, <1>3, <1>4, <1>5, <1>6, <1>7, <1>8, <1>9, <1>10, <1>11, <1>12 DEF Next, Run

LEMMA NextAbortsOwnRequest == IInv /\ [Next]_vars => AbortsOwnRequest'
  <1> SUFFICES ASSUME IInv, [Next]_vars PROVE AbortsOwnRequest'
    OBVIOUS
  <1> USE DEF IInv, AbortsOwnRequest, itemVars, queueVars, flushVars
  <1>1. ASSUME NEW c \in Calls, App(c) PROVE AbortsOwnRequest'
    BY <1>1 DEF App, Subscribe, QueueOf, RefuseSubscription, Unsubscribe, SignalAbort
  <1>2. ASSUME NEW q \in Queues, NEW f \in Flushes, Flush(q, f) PROVE AbortsOwnRequest'
    BY <1>2 DEF Flush, TypeOK
  <1>3. ASSUME NEW f \in Flushes,
               StartGroup(f) \/ FlushDone(f) \/ PrepareFails(f) \/ SkipGroup(f)
        PROVE  AbortsOwnRequest'
    BY <1>3 DEF StartGroup, FlushDone, PrepareFails, SkipGroup, TypeOK
  <1>4. ASSUME NEW f \in Flushes, PrepareCall(f) PROVE AbortsOwnRequest'
    BY <1>4 DEF PrepareCall, TypeOK
  <1>5. ASSUME NEW f \in Flushes, Send(f) PROVE AbortsOwnRequest'
    <2>1. \A c \in Calls : abortBatch'[c] = IF c \in Members(request[f]) THEN f ELSE abortBatch[c]
      BY <1>5 DEF Send
    <2>2. request' = request /\ \A g \in Flushes : pc'[g] = IF g = f THEN "await" ELSE pc[g]
      BY <1>5 DEF Send, TypeOK
    <2>3. QED
      BY <2>1, <2>2
  <1>6. ASSUME NEW f \in Flushes, Deliver(f) \/ FailOne(f) PROVE AbortsOwnRequest'
    BY <1>6 DEF Deliver, FailOne, TypeOK
  <1>7. ASSUME NEW f \in Flushes, Finally(f) PROVE AbortsOwnRequest'
    <2>1. \A c \in Calls : abortBatch'[c] =
            IF c \in Members(request[f]) THEN NoFlush ELSE abortBatch[c]
      BY <1>7 DEF Finally
    <2>2. \A g \in Flushes : g # f => pc'[g] = pc[g] /\ request'[g] = request[g]
      BY <1>7 DEF Finally, TypeOK
    <2>3. QED
      BY <2>1, <2>2, ConstantsAssumption
  <1>8. ASSUME NEW f \in Flushes, Answer(f) PROVE AbortsOwnRequest'
    BY <1>8 DEF Answer, Reject, Respond, CatchPc, TypeOK
  <1>9. CASE UNCHANGED vars
    BY <1>9 DEF vars
  <1>10. QED
    BY <1>1, <1>2, <1>3, <1>4, <1>5, <1>6, <1>7, <1>8, <1>9 DEF Next, Run

\* Nobody unsubscribes an observable from the inside: `subscribed' only grows.
LEMMA SubscribedGrows ==
  IInv /\ [Next]_vars => \A c \in Calls : subscribed[c] => subscribed'[c]
  <1> SUFFICES ASSUME IInv, [Next]_vars, NEW c \in Calls, subscribed[c]
               PROVE  subscribed'[c]
    OBVIOUS
  <1> USE DEF IInv, TypeOK, itemVars, queueVars, flushVars
  <1>1. ASSUME NEW d \in Calls, App(d) PROVE subscribed'[c]
    BY <1>1 DEF App, Subscribe, QueueOf, RefuseSubscription, Unsubscribe, SignalAbort
  <1>2. ASSUME NEW q \in Queues, NEW f \in Flushes, Flush(q, f) PROVE subscribed'[c]
    BY <1>2 DEF Flush
  <1>3. ASSUME NEW f \in Flushes, Run(f) \/ Answer(f) PROVE subscribed'[c]
    BY <1>3 DEF Run, StartGroup, FlushDone, PrepareFails, PrepareCall, SkipGroup,
                Send, Deliver, FailOne, Finally, Answer, Reject, Respond
  <1>4. CASE UNCHANGED vars
    BY <1>4 DEF vars
  <1>5. QED
    BY <1>1, <1>2, <1>3, <1>4 DEF Next

\* The sequences of the link hold calls only.
LEMMA MembersAreCalls ==
  ASSUME TypeOK
  PROVE  /\ \A q \in Queues : Members(pending[q]) \subseteq Calls
         /\ \A f \in Flushes : /\ Members(todo[f]) \subseteq Calls
                               /\ Members(active[f]) \subseteq Calls
                               /\ Members(request[f]) \subseteq Calls
  BY DEF TypeOK, Members

LEMMA NextHeldCalls == IInv /\ [Next]_vars => HeldCalls'
  <1> SUFFICES ASSUME IInv, [Next]_vars PROVE HeldCalls'
    OBVIOUS
  <1> USE DEF itemVars, queueVars, flushVars
  <1>0. /\ TypeOK /\ HeldCalls /\ FlushHolds
        /\ \A c \in Calls : subscribed[c] => subscribed'[c]
    BY SubscribedGrows DEF IInv
  <1>a. ASSUME UNCHANGED <<pending, todo, active, request, type>> PROVE HeldCalls'
    BY <1>0, <1>a, MembersAreCalls DEF HeldCalls
  <1>1. ASSUME NEW c \in Calls, Subscribe(c) PROVE HeldCalls'
    <2>1. /\ OpType[c] \in Queues /\ subscribed'[c]
          /\ Members(pending'[OpType[c]]) = Members(pending[OpType[c]]) \cup {c}
          /\ \A q \in Queues \ {OpType[c]} : pending'[q] = pending[q]
      BY <1>0, <1>1, MembersAppend DEF Subscribe, QueueOf, TypeOK
    <2>2. UNCHANGED <<todo, active, request, type>>
      BY <1>1 DEF Subscribe, QueueOf
    <2>3. QED
      BY <1>0, <2>1, <2>2, MembersAreCalls DEF HeldCalls
  <1>2. ASSUME NEW c \in Calls,
               RefuseSubscription(c) \/ Unsubscribe(c) \/ SignalAbort(c)
        PROVE  HeldCalls'
    BY <1>2, <1>a DEF RefuseSubscription, Unsubscribe, SignalAbort
  <1>3. ASSUME NEW q \in Queues, NEW f \in Flushes, Flush(q, f) PROVE HeldCalls'
    <2>1. /\ todo'[f] = pending[q] /\ type'[f] = q /\ pending'[q] = <<>>
          /\ \A p \in Queues \ {q} : pending'[p] = pending[p]
          /\ \A g \in Flushes \ {f} : todo'[g] = todo[g] /\ type'[g] = type[g]
          /\ UNCHANGED <<active, request, subscribed>>
      BY <1>0, <1>3 DEF Flush, TypeOK
    <2>2. active[f] = <<>> /\ request[f] = <<>>
      BY <1>0, <1>3 DEF Flush, FlushHolds
    <2>3. QED
      BY <1>0, <2>1, <2>2, MembersEmpty, MembersAreCalls DEF HeldCalls
  <1>4. ASSUME NEW f \in Flushes, StartGroup(f) PROVE HeldCalls'
    <2>1. /\ todo[f] \in Seq(Calls) /\ todo[f] # <<>> /\ todo'[f] = Rest(todo[f])
          /\ \A g \in Flushes \ {f} : todo'[g] = todo[g] /\ active'[g] = active[g]
          /\ UNCHANGED <<pending, request, type, subscribed>>
      BY <1>0, <1>4 DEF StartGroup, TypeOK
    <2>2. PICK h \in LivePositions(Group(todo[f])) :
            active'[f] = [i \in DOMAIN h |-> todo[f][h[i]]]
      BY <1>0, <1>4 DEF StartGroup, TypeOK
    <2>3. Members(active'[f]) \subseteq Members(todo[f])
      <3>1. Members(active'[f]) \subseteq Members(Group(todo[f]))
        BY <2>1, <2>2, FilterGroup
      <3>2. QED
        BY <2>1, <3>1, GroupAndRestMembers
    <2>4. Members(todo'[f]) \subseteq Members(todo[f])
      BY <2>1, GroupAndRestMembers
    <2>5. \A c \in Members(todo'[f]) \cup Members(active'[f]) \cup Members(request'[f]) :
            c \in Members(todo[f]) \cup Members(active[f]) \cup Members(request[f])
      BY <2>1, <2>3, <2>4
    <2>6. QED
      BY <1>0, <2>1, <2>5, MembersAreCalls DEF HeldCalls
  <1>5. ASSUME NEW f \in Flushes, FlushDone(f) \/ SkipGroup(f) \/ Send(f)
        PROVE  HeldCalls'
    BY <1>5, <1>a DEF FlushDone, SkipGroup, Send
  <1>6. ASSUME NEW f \in Flushes, PrepareFails(f) PROVE HeldCalls'
    <2>1. /\ Members(active'[f]) \subseteq Members(active[f])
          /\ \A g \in Flushes \ {f} : active'[g] = active[g]
          /\ UNCHANGED <<pending, todo, request, type, subscribed>>
      BY <1>0, <1>6, MembersTail DEF PrepareFails, TypeOK
    <2>2. QED
      BY <1>0, <2>1, MembersAreCalls DEF HeldCalls
  <1>7. ASSUME NEW f \in Flushes, PrepareCall(f) PROVE HeldCalls'
    <2>1. /\ active[f] \in Seq(Calls) /\ active[f] # <<>> /\ request[f] \in Seq(Calls)
          /\ active'[f] = Tail(active[f])
          /\ request'[f] = Append(request[f], Head(active[f]))
          /\ \A g \in Flushes \ {f} : active'[g] = active[g] /\ request'[g] = request[g]
          /\ UNCHANGED <<pending, todo, type, subscribed>>
      BY <1>0, <1>7 DEF PrepareCall, TypeOK
    <2>2. Members(active'[f]) \cup Members(request'[f])
            = Members(active[f]) \cup Members(request[f])
      <3>1. /\ Head(active[f]) \in Calls
            /\ Members(active[f]) = {Head(active[f])} \cup Members(active'[f])
        BY <2>1, MembersTail
      <3>2. Members(request'[f]) = Members(request[f]) \cup {Head(active[f])}
        BY <2>1, <3>1, MembersAppend
      <3>3. QED
        BY <3>1, <3>2
    <2>3. \A c \in Members(todo'[f]) \cup Members(active'[f]) \cup Members(request'[f]) :
            c \in Members(todo[f]) \cup Members(active[f]) \cup Members(request[f])
      BY <2>1, <2>2
    <2>4. QED
      BY <1>0, <2>1, <2>3, MembersAreCalls, ZenonT(60) DEF HeldCalls
  <1>8. ASSUME NEW f \in Flushes, Deliver(f) \/ FailOne(f) PROVE HeldCalls'
    BY <1>8, <1>a DEF Deliver, FailOne
  <1>9. ASSUME NEW f \in Flushes, Finally(f) PROVE HeldCalls'
    <2>1. /\ request'[f] = <<>> /\ \A g \in Flushes \ {f} : request'[g] = request[g]
          /\ UNCHANGED <<pending, todo, active, type, subscribed>>
      BY <1>0, <1>9 DEF Finally, TypeOK
    <2>2. QED
      BY <1>0, <2>1, MembersEmpty, MembersAreCalls DEF HeldCalls
  <1>10. ASSUME NEW f \in Flushes, Answer(f) PROVE HeldCalls'
    BY <1>10, <1>a DEF Answer, Reject, Respond
  <1>11. CASE UNCHANGED vars
    BY <1>11, <1>a DEF vars
  <1>12. QED
    BY <1>1, <1>2, <1>3, <1>4, <1>5, <1>6, <1>7, <1>8, <1>9, <1>10, <1>11
       DEF Next, App, Run

LEMMA NextItemFlags == IInv /\ [Next]_vars => ItemFlags'
  <1> SUFFICES ASSUME IInv, [Next]_vars PROVE ItemFlags'
    OBVIOUS
  <1> USE DEF itemVars, queueVars, flushVars
  <1>0. TypeOK /\ HeldCalls /\ ItemFlags /\ AbortsOwnRequest /\ AbortOnlyWhenUnused
    BY DEF IInv
  <1>a. ASSUME NEW c \in Calls, subscribed[c], NEW o \in Outcomes, Settle(c, o),
               UNCHANGED <<subscribed, aborted>>
        PROVE  ItemFlags'
    BY <1>0, <1>a, SettleEffect DEF ItemFlags
  <1>1. ASSUME NEW c \in Calls, Subscribe(c) PROVE ItemFlags'
    BY <1>0, <1>1 DEF Subscribe, QueueOf, ItemFlags, TypeOK
  <1>2. ASSUME NEW c \in Calls, RefuseSubscription(c) PROVE ItemFlags'
    <2>1. notified[c] \in Seq(Outcomes) /\ notified'[c] = Append(notified[c], Error("unsupported"))
      BY <1>0, <1>2 DEF RefuseSubscription, TypeOK
    <2>2. notified'[c] # <<>>
      BY <2>1
    <2>3. OpType[c] \notin Queues
      BY <1>2 DEF RefuseSubscription, Queues
    <2>4. QED
      BY <1>0, <1>2, <2>2, <2>3 DEF RefuseSubscription, ItemFlags, TypeOK
  <1>3. ASSUME NEW c \in Calls, Unsubscribe(c) PROVE ItemFlags'
    BY <1>0, <1>3, AbortEffect DEF Unsubscribe, ItemFlags
  <1>4. ASSUME NEW c \in Calls, SignalAbort(c) PROVE ItemFlags'
    <2>1. aborted'[c] /\ \A d \in Calls \ {c} : aborted'[d] = aborted[d]
      BY <1>0, <1>4 DEF SignalAbort, TypeOK
    <2>2. UNCHANGED <<subscribed, completed, notified>>
      BY <1>4 DEF SignalAbort
    <2>3. CASE subscribed[c] /\ OpType[c] \in Queues /\ ~completed[c]
      BY <1>0, <1>4, <2>1, <2>2, <2>3, AbortEffect DEF SignalAbort, ItemFlags
    <2>4. CASE ~(subscribed[c] /\ OpType[c] \in Queues /\ ~completed[c])
      BY <1>0, <1>4, <2>1, <2>2, <2>4 DEF SignalAbort, ItemFlags
    <2>5. QED
      BY <2>3, <2>4
  <1>5. ASSUME NEW q \in Queues, NEW f \in Flushes, Flush(q, f) PROVE ItemFlags'
    BY <1>0, <1>5 DEF Flush, ItemFlags
  <1>6. ASSUME NEW f \in Flushes, PrepareFails(f) PROVE ItemFlags'
    <2>1. Head(active[f]) \in Members(active[f])
      BY <1>0, <1>6, MembersTail DEF PrepareFails, TypeOK
    <2>2. subscribed[Head(active[f])]
      BY <1>0, <2>1 DEF HeldCalls
    <2>3. UNCHANGED <<subscribed, aborted>>
      BY <1>6 DEF PrepareFails
    <2>4. QED
      BY <1>0, <1>6, <1>a, <2>2, <2>3, SettlingActions
  <1>7. ASSUME NEW f \in Flushes, Deliver(f) \/ FailOne(f) PROVE ItemFlags'
    <2>1. request[f][at[f]] \in Members(request[f])
      BY <1>0, <1>7, SettlingActions DEF Members
    <2>2. subscribed[request[f][at[f]]]
      BY <1>0, <2>1 DEF HeldCalls
    <2>3. UNCHANGED <<subscribed, aborted>>
      BY <1>7 DEF Deliver, FailOne
    <2>4. QED
      BY <1>0, <1>7, <1>a, <2>2, <2>3, SettlingActions
  <1>8. ASSUME NEW f \in Flushes,
               \/ StartGroup(f) \/ FlushDone(f) \/ PrepareCall(f) \/ SkipGroup(f)
               \/ Send(f) \/ Finally(f) \/ Answer(f)
        PROVE  ItemFlags'
    BY <1>0, <1>8 DEF StartGroup, FlushDone, PrepareCall, SkipGroup, Send, Finally,
                      Answer, Reject, Respond, ItemFlags
  <1>9. CASE UNCHANGED vars
    BY <1>0, <1>9 DEF vars, ItemFlags
  <1>10. QED
    BY <1>1, <1>2, <1>3, <1>4, <1>5, <1>6, <1>7, <1>8, <1>9 DEF Next, App, Run

LEMMA NextAbortOnlyWhenUnused == IInv /\ [Next]_vars => AbortOnlyWhenUnused'
  <1> SUFFICES ASSUME IInv, [Next]_vars PROVE AbortOnlyWhenUnused'
    OBVIOUS
  <1> USE DEF itemVars, queueVars, flushVars
  <1>0. /\ TypeOK /\ HeldCalls /\ ItemFlags /\ FlushHolds
        /\ AbortsOwnRequest /\ AbortOnlyWhenUnused
    BY DEF IInv
  <1>a. ASSUME UNCHANGED <<unused, request>>,
               \A c \in Calls : cancelled[c] => cancelled'[c]
        PROVE  AbortOnlyWhenUnused'
    BY <1>0, <1>a, MembersAreCalls DEF AbortOnlyWhenUnused
  <1>b. ASSUME NEW c \in Calls, Abort(c), UNCHANGED request
        PROVE  AbortOnlyWhenUnused'
    BY <1>0, <1>b, AbortEffect DEF AbortOnlyWhenUnused
  <1>1. ASSUME NEW c \in Calls, App(c) PROVE AbortOnlyWhenUnused'
    <2>1. CASE Subscribe(c)
      <3>1. \A d \in Calls : cancelled[d] => cancelled'[d]
        BY <1>0, <2>1 DEF Subscribe, QueueOf, ItemFlags, TypeOK
      <3>2. QED
        BY <1>a, <2>1, <3>1 DEF Subscribe, QueueOf
    <2>2. CASE RefuseSubscription(c)
      BY <1>a, <2>2 DEF RefuseSubscription
    <2>3. CASE Unsubscribe(c)
      BY <1>b, <2>3 DEF Unsubscribe
    <2>4. CASE SignalAbort(c)
      BY <1>a, <1>b, <2>4 DEF SignalAbort
    <2>5. QED
      BY <1>1, <2>1, <2>2, <2>3, <2>4 DEF App
  <1>2. ASSUME NEW q \in Queues, NEW f \in Flushes, Flush(q, f)
        PROVE  AbortOnlyWhenUnused'
    BY <1>2, <1>a DEF Flush
  <1>3. ASSUME NEW f \in Flushes,
               StartGroup(f) \/ FlushDone(f) \/ SkipGroup(f) \/ Send(f) \/ Answer(f)
        PROVE  AbortOnlyWhenUnused'
    BY <1>3, <1>a DEF StartGroup, FlushDone, SkipGroup, Send, Answer, Reject, Respond
  <1>4. ASSUME NEW f \in Flushes, PrepareFails(f) \/ Deliver(f) \/ FailOne(f)
        PROVE  AbortOnlyWhenUnused'
    <2>1. UNCHANGED request
      BY <1>4 DEF PrepareFails, Deliver, FailOne
    <2>2. \A g \in Flushes : unused'[g] => \A d \in Members(request[g]) : cancelled'[d]
      BY <1>0, <1>4, SettlingActions, SettleEffect
    <2>3. QED
      BY <2>1, <2>2 DEF AbortOnlyWhenUnused
  <1>5. ASSUME NEW f \in Flushes, PrepareCall(f) PROVE AbortOnlyWhenUnused'
    <2>1. ~unused[f] /\ UNCHANGED <<unused, cancelled>>
      BY <1>0, <1>5 DEF PrepareCall, FlushHolds
    <2>2. \A g \in Flushes \ {f} : request'[g] = request[g]
      BY <1>0, <1>5 DEF PrepareCall, TypeOK
    <2>3. QED
      BY <1>0, <2>1, <2>2 DEF AbortOnlyWhenUnused
  <1>6. ASSUME NEW f \in Flushes, Finally(f) PROVE AbortOnlyWhenUnused'
    <2>1. ~unused'[f] /\ UNCHANGED cancelled
      BY <1>0, <1>6 DEF Finally, TypeOK
    <2>2. \A g \in Flushes \ {f} : request'[g] = request[g] /\ unused'[g] = unused[g]
      BY <1>0, <1>6 DEF Finally, TypeOK
    <2>3. QED
      BY <1>0, <2>1, <2>2 DEF AbortOnlyWhenUnused
  <1>7. CASE UNCHANGED vars
    BY <1>7, <1>a DEF vars
  <1>8. QED
    BY <1>1, <1>2, <1>3, <1>4, <1>5, <1>6, <1>7 DEF Next, Run

\* Each step keeps every call it does not settle: by cases on what the step
\* moves, a call told or gone stays so, and a call waiting goes on waiting.
LEMMA NextNoLostCall == IInv /\ [Next]_vars => NoLostCall'
  <1> SUFFICES ASSUME IInv, [Next]_vars, NEW c \in Calls, subscribed'[c],
                      notified'[c] = <<>>, ~cancelled'[c]
               PROVE  Waiting(c)'
    BY DEF NoLostCall
  <1> USE DEF itemVars, queueVars, flushVars
  <1>0. /\ TypeOK /\ QueueWakes /\ HeldCalls /\ ItemFlags /\ FlushHolds
        /\ AbortsOwnRequest /\ AbortOnlyWhenUnused
        /\ subscribed[c] => notified[c] # <<>> \/ cancelled[c] \/ Waiting(c)
    BY DEF IInv, NoLostCall
  <1>w. ASSUME Waiting(c), UNCHANGED <<queueVars, pc, todo, active, request, at>>
        PROVE  Waiting(c)'
    BY <1>w DEF Waiting, Left
  <1>1. ASSUME NEW d \in Calls, Subscribe(d) PROVE Waiting(c)'
    <2>1. CASE c = d
      <3>1. c \in Members(pending'[OpType[c]]) /\ scheduled'[OpType[c]] /\ OpType[c] \in Queues
        BY <1>0, <1>1, <2>1, MembersAppend DEF Subscribe, QueueOf, TypeOK
      <3>2. QED
        BY <3>1 DEF Waiting
    <2>2. CASE c # d
      <3>1. Waiting(c)
        BY <1>0, <1>1, <2>2 DEF Subscribe, QueueOf, TypeOK
      <3>2. \A q \in Queues : /\ Members(pending[q]) \subseteq Members(pending'[q])
                              /\ scheduled[q] => scheduled'[q]
        BY <1>0, <1>1, MembersAppend DEF Subscribe, QueueOf, TypeOK
      <3>3. QED
        BY <1>1, <3>1, <3>2 DEF Subscribe, QueueOf, Waiting, Left
    <2>3. QED
      BY <2>1, <2>2
  <1>2. ASSUME NEW d \in Calls, RefuseSubscription(d) PROVE Waiting(c)'
    <2>1. CASE c = d
      <3>1. notified[c] \in Seq(Outcomes) /\ notified'[c] = Append(notified[c], Error("unsupported"))
        BY <1>0, <1>2, <2>1 DEF RefuseSubscription, TypeOK
      <3>2. QED
        BY <3>1
    <2>2. CASE c # d
      BY <1>0, <1>2, <2>2, <1>w DEF RefuseSubscription, TypeOK
    <2>3. QED
      BY <2>1, <2>2
  <1>3. ASSUME NEW d \in Calls, Unsubscribe(d) \/ SignalAbort(d) PROVE Waiting(c)'
    <2>1. /\ UNCHANGED <<subscribed, notified, queueVars, pc, todo, active, request, at>>
          /\ Abort(d) \/ UNCHANGED cancelled
      BY <1>3 DEF Unsubscribe, SignalAbort
    <2>2. cancelled[c] => cancelled'[c]
      BY <1>0, <2>1, AbortEffect
    <2>3. QED
      BY <1>0, <1>w, <2>1, <2>2
  <1>4. ASSUME NEW q \in Queues, NEW f \in Flushes, Flush(q, f) PROVE Waiting(c)'
    <2>1. Waiting(c)
      BY <1>0, <1>4 DEF Flush
    <2>2. /\ todo'[f] = pending[q] /\ pc'[f] = "next"
          /\ \A p \in Queues \ {q} : pending'[p] = pending[p] /\ scheduled'[p] = scheduled[p]
          /\ \A g \in Flushes \ {f} : todo'[g] = todo[g] /\ pc'[g] = pc[g]
          /\ UNCHANGED <<active, request, at>>
          /\ pc[f] = "idle"
      BY <1>0, <1>4 DEF Flush, TypeOK
    <2>3. QED
      BY <2>1, <2>2 DEF Waiting, Left
  <1>5. ASSUME NEW f \in Flushes, StartGroup(f) PROVE Waiting(c)'
    <2>1. /\ todo[f] \in Seq(Calls) /\ todo[f] # <<>> /\ todo'[f] = Rest(todo[f])
          /\ \A g \in Flushes \ {f} : /\ todo'[g] = todo[g] /\ active'[g] = active[g]
                                      /\ pc'[g] = pc[g]
          /\ UNCHANGED <<itemVars, queueVars, request, at>>
          /\ pc[f] = "next" /\ pc'[f] = "prepare" /\ active[f] = <<>>
      BY <1>0, <1>5 DEF StartGroup, TypeOK, FlushHolds
    <2>2. PICK h \in LivePositions(Group(todo[f])) :
            active'[f] = [i \in DOMAIN h |-> todo[f][h[i]]]
      BY <1>0, <1>5 DEF StartGroup, TypeOK
    <2>3. Members(active'[f]) = {d \in Members(Group(todo[f])) : Live(d)}
      BY <2>1, <2>2, FilterGroup
    <2>4. Waiting(c)
      BY <1>0, <2>1
    <2>5. CASE c \in Members(todo[f])
      <3>1. Live(c)
        <4>1. subscribed[c] /\ OpType[c] \in Queues
          BY <1>0, <2>5 DEF HeldCalls, TypeOK
        <4>2. ~cancelled[c] /\ ~completed[c]
          BY <1>0, <2>1 DEF ItemFlags
        <4>3. QED
          BY <1>0, <4>1, <4>2 DEF ItemFlags, Live
      <3>2. c \in Members(active'[f]) \cup Members(todo'[f])
        BY <2>1, <2>3, <2>5, <3>1, GroupAndRestMembers
      <3>3. QED
        BY <2>1, <3>2 DEF Waiting
    <2>6. CASE c \notin Members(todo[f])
      BY <2>1, <2>4, <2>6, MembersEmpty DEF Waiting, Left
    <2>7. QED
      BY <2>5, <2>6
  <1>6. ASSUME NEW f \in Flushes, FlushDone(f) PROVE Waiting(c)'
    <2>1. /\ pc[f] = "next" /\ todo[f] = <<>> /\ active[f] = <<>> /\ request[f] = <<>>
          /\ \A g \in Flushes \ {f} : pc'[g] = pc[g]
          /\ UNCHANGED <<itemVars, queueVars, todo, active, request, at>>
      BY <1>0, <1>6 DEF FlushDone, FlushHolds, TypeOK
    <2>2. Members(todo[f]) = {} /\ Members(active[f]) = {} /\ Left(f) = {}
      BY <2>1, MembersEmpty DEF Left
    <2>3. Waiting(c)
      BY <1>0, <2>1
    <2>4. QED
      BY <2>1, <2>2, <2>3 DEF Waiting, Left
  <1>7. ASSUME NEW f \in Flushes, PrepareFails(f) PROVE Waiting(c)'
    <2>1. PICK o \in Outcomes : Settle(Head(active[f]), o)
      BY <1>0, <1>7, SettlingActions
    <2>2. Head(active[f]) \in Calls /\ Members(active[f]) = {Head(active[f])} \cup Members(active'[f])
      BY <1>0, <1>7, MembersTail DEF PrepareFails, TypeOK
    <2>3. c # Head(active[f])
      BY <1>0, <2>1, <2>2, SettleEffect
    <2>4. /\ \A g \in Flushes \ {f} : active'[g] = active[g]
          /\ UNCHANGED <<subscribed, queueVars, pc, todo, request, at>>
      BY <1>0, <1>7 DEF PrepareFails, TypeOK
    <2>5. Waiting(c)
      BY <1>0, <2>1, <2>2, <2>3, <2>4, SettleEffect
    <2>6. QED
      BY <2>2, <2>3, <2>4, <2>5 DEF Waiting, Left
  <1>8. ASSUME NEW f \in Flushes, PrepareCall(f) PROVE Waiting(c)'
    <2>1. /\ active[f] \in Seq(Calls) /\ active[f] # <<>> /\ request[f] \in Seq(Calls)
          /\ active'[f] = Tail(active[f])
          /\ request'[f] = Append(request[f], Head(active[f]))
          /\ \A g \in Flushes \ {f} : active'[g] = active[g] /\ request'[g] = request[g]
          /\ UNCHANGED <<itemVars, queueVars, pc, todo, at>>
          /\ pc[f] = "prepare" /\ at[f] = 1
      BY <1>0, <1>8 DEF PrepareCall, TypeOK, FlushHolds
    <2>2. Waiting(c)
      BY <1>0, <2>1
    <2>3. Members(active[f]) = {Head(active[f])} \cup Members(active'[f])
      BY <2>1, MembersTail
    <2>4. /\ Len(request[f]) + 1 \in DOMAIN request'[f] /\ Len(request[f]) + 1 >= 1
          /\ request'[f][Len(request[f]) + 1] = Head(active[f])
          /\ \A i \in DOMAIN request[f] : /\ i \in DOMAIN request'[f]
                                          /\ request'[f][i] = request[f][i]
      BY <2>1
    <2>5. CASE c = Head(active[f])
      BY <2>1, <2>4, <2>5 DEF Waiting, Left
    <2>6. CASE c # Head(active[f])
      BY <2>1, <2>2, <2>3, <2>4, <2>6 DEF Waiting, Left
    <2>7. QED
      BY <2>5, <2>6
  <1>9. ASSUME NEW f \in Flushes, SkipGroup(f) \/ Send(f) PROVE Waiting(c)'
    <2>1. /\ UNCHANGED <<itemVars, queueVars, todo, active, request, at>>
          /\ \A g \in Flushes : pc'[g] = "idle" => pc[g] = "idle"
      BY <1>0, <1>9 DEF SkipGroup, Send, TypeOK
    <2>2. QED
      BY <1>0, <2>1 DEF Waiting, Left
  <1>10. ASSUME NEW f \in Flushes, Deliver(f) \/ FailOne(f) PROVE Waiting(c)'
    <2>1. PICK o \in Outcomes : Settle(request[f][at[f]], o)
      BY <1>0, <1>10, SettlingActions
    <2>2. at[f] \in DOMAIN request[f] /\ request[f][at[f]] \in Calls
      BY <1>0, <1>10, SettlingActions
    <2>3. c # request[f][at[f]]
      BY <1>0, <2>1, <2>2, SettleEffect
    <2>4. /\ \A g \in Flushes \ {f} : at'[g] = at[g]
          /\ at'[f] = at[f] + 1
          /\ UNCHANGED <<subscribed, queueVars, pc, todo, active, request>>
      BY <1>0, <1>10 DEF Deliver, FailOne, TypeOK
    <2>5. Waiting(c)
      BY <1>0, <2>1, <2>2, <2>3, <2>4, SettleEffect
    <2>6. \A i \in Left(f) : request[f][i] = c => i \in Left(f)'
      BY <1>0, <2>3, <2>4 DEF Left, TypeOK
    <2>7. \A g \in Flushes \ {f} : Left(g)' = Left(g)
      BY <2>4 DEF Left
    <2>8. QED
      BY <2>4, <2>5, <2>6, <2>7 DEF Waiting
  <1>11. ASSUME NEW f \in Flushes, Finally(f) PROVE Waiting(c)'
    <2>1. /\ \A g \in Flushes \ {f} : /\ pc'[g] = pc[g] /\ request'[g] = request[g]
                                      /\ at'[g] = at[g]
          /\ pc'[f] = "next"
          /\ UNCHANGED <<itemVars, queueVars, todo, active>>
      BY <1>0, <1>11 DEF Finally, TypeOK
    <2>2. Waiting(c)
      BY <1>0, <2>1
    <2>3. ~ \E i \in Left(f) : request[f][i] = c
      <3>1. CASE pc[f] = "finally"
        BY <1>0, <2>1, <3>1, ZenonT(60) DEF FlushHolds, AbortOnlyWhenUnused, Left, Members
      <3>2. CASE at[f] \notin DOMAIN request[f]
        <4>1. at[f] \in Nat \ {0} /\ DOMAIN request[f] = 1..Len(request[f])
              /\ Len(request[f]) \in Nat
          BY <1>0 DEF TypeOK
        <4>2. QED
          BY <3>2, <4>1 DEF Left
      <3>3. QED
        BY <1>11, <3>1, <3>2 DEF Finally
    <2>4. QED
      BY <2>1, <2>2, <2>3 DEF Waiting, Left
  <1>12. ASSUME NEW f \in Flushes, Answer(f) PROVE Waiting(c)'
    <2>1. /\ UNCHANGED <<itemVars, queueVars, todo, active, request, at>>
          /\ \A g \in Flushes : pc'[g] = "idle" => pc[g] = "idle"
      BY <1>0, <1>12 DEF Answer, Reject, Respond, CatchPc, TypeOK
    <2>2. QED
      BY <1>0, <2>1 DEF Waiting, Left
  <1>13. CASE UNCHANGED vars
    BY <1>0, <1>13, <1>w DEF vars
  <1>14. QED
    BY <1>1, <1>2, <1>3, <1>4, <1>5, <1>6, <1>7, <1>8, <1>9, <1>10, <1>11, <1>12,
       <1>13 DEF Next, App, Run
-----------------------------------------------------------------------------
(* The theorems *)

LEMMA InitIInv == Init => IInv
  <1> SUFFICES ASSUME Init PROVE IInv
    OBVIOUS
  <1>1. TypeOK
    BY InitType
  <1>2. QueueWakes /\ ItemFlags /\ NoLostCall
    BY DEF Init, QueueWakes, ItemFlags, NoLostCall
  <1>3. FlushHolds /\ HeldCalls /\ AbortOnlyWhenUnused
    BY LenEmpty, MembersEmpty, ConstantsAssumption
       DEF Init, FlushHolds, HeldCalls, AbortOnlyWhenUnused
  <1>4. AbortsOwnRequest
    BY ConstantsAssumption DEF Init, AbortsOwnRequest
  <1>5. QED
    BY <1>1, <1>2, <1>3, <1>4 DEF IInv

LEMMA NextIInv == IInv /\ [Next]_vars => IInv'
  BY NextType, NextQueueWakes, NextFlushHolds, NextAbortsOwnRequest, NextHeldCalls,
     NextItemFlags, NextAbortOnlyWhenUnused, NextNoLostCall DEF IInv

\* What IInv says of queues, flushes and items holds at every point of the link.
THEOREM Invariance == Spec => []IInv
  BY InitIInv, NextIInv, PTL DEF Spec

\* However many calls there are, and however the application, the flushes and
\* the answers interleave, the link forgets no call.
THEOREM NothingLost == Spec => []NoLostCall
  <1>1. IInv => NoLostCall
    BY DEF IInv
  <1>2. QED
    BY <1>1, Invariance, PTL

\* No call that still has an observer loses its request to one that left.
THEOREM AbortIsUnanimous == Spec => []AbortOnlyWhenUnused
  <1>1. IInv => AbortOnlyWhenUnused
    BY DEF IInv
  <1>2. QED
    BY <1>1, Invariance, PTL

\* Requests respect maxItems and never mix queries with mutations.
THEOREM BatchesWellFormed == Spec => []WellFormedBatch
  <1>1. IInv => WellFormedBatch
    <2> SUFFICES ASSUME IInv, NEW f \in Flushes
                 PROVE  /\ Len(request[f]) <= MaxItems
                        /\ \A c \in Members(request[f]) : OpType[c] = type[f]
      BY DEF WellFormedBatch
    <2>1. Len(request[f]) <= MaxItems
      <3>1. Len(active[f]) + Len(request[f]) <= MaxItems
        BY DEF IInv, FlushHolds
      <3>2. Len(active[f]) \in Nat /\ Len(request[f]) \in Nat
        BY HeldLengths DEF IInv
      <3>3. MaxItems \in Nat
        BY ConstantsAssumption
      <3>4. \A a, b, m \in Nat : a + b <= m => b <= m
        OBVIOUS
      <3>5. QED
        BY <3>1, <3>2, <3>3, <3>4, Zenon
    <2>2. QED
      BY <2>1 DEF IInv, HeldCalls
  <1>2. QED
    BY <1>1, Invariance, PTL

-----------------------------------------------------------------------------
(* The link implements the promise *)

LEMMA StatusOf ==
  \A c \in Calls : Status[c] = IF ~subscribed[c] THEN "new"
                               ELSE IF notified[c] # <<>> THEN "told"
                               ELSE IF cancelled[c] THEN "gone"
                               ELSE "open"
  BY DEF Status

\* Steps that touch neither subscriptions nor observers nor cancellation.
LEMMA StutterStep ==
  ASSUME UNCHANGED <<subscribed, notified, cancelled>>
  PROVE  UNCHANGED <<Status, notified>>
  BY DEF Status

\* abort() is the application leaving, or comes too late to matter.
LEMMA AbortKeepsPromise ==
  ASSUME IInv, NEW c \in Calls, Abort(c), subscribed[c],
         UNCHANGED <<subscribed, notified>>
  PROVE  [Promise!Next]_<<Status, notified>>
  <1>1. cancelled'[c] /\ \A d \in Calls \ {c} : cancelled'[d] = cancelled[d]
    BY AbortEffect DEF IInv
  <1>2. Status'[c] = IF notified[c] # <<>> THEN "told" ELSE "gone"
    BY <1>1 DEF Status
  <1>3. \A d \in Calls \ {c} : Status'[d] = Status[d]
    BY <1>1 DEF Status
  <1>4. CASE Status[c] = "open"
    <2>1. Status' = [Status EXCEPT ![c] = "gone"]
      BY <1>2, <1>3, <1>4 DEF Status
    <2>2. QED
      BY <1>4, <2>1 DEF Promise!Next, Promise!Leave
  <1>5. CASE Status[c] # "open"
    <2>1. Status'[c] = Status[c]
      BY <1>2, <1>5 DEF Status
    <2>2. Status' = Status
      BY <1>3, <2>1 DEF Status
    <2>3. QED
      BY <2>2
  <1>6. QED
    BY <1>4, <1>5

\* deliver() and fail() tell an open call what concerns it, or do nothing.
LEMMA SettleKeepsPromise ==
  ASSUME IInv, NEW c \in Calls, subscribed[c], OpType[c] \in Queues,
         NEW o \in {Data(c)} \cup {Error(e) : e \in Causes}, Settle(c, o),
         UNCHANGED subscribed
  PROVE  [Promise!Next]_<<Status, notified>>
  <1>1. CASE completed[c] \/ cancelled[c]
    BY <1>1, StutterStep DEF Settle
  <1>2. CASE ~(completed[c] \/ cancelled[c])
    <2>1. notified[c] = <<>>
      BY <1>2 DEF IInv, ItemFlags
    <2>2. notified' = [notified EXCEPT ![c] = <<o>>]
      <3>1. Append(<<>>, o) = <<o>>
        OBVIOUS
      <3>2. QED
        BY <1>2, <2>1, <3>1 DEF Settle, IInv, TypeOK
    <2>3. \A d \in Calls \ {c} : cancelled'[d] = cancelled[d]
      BY <1>2, AbortEffect DEF Settle, IInv
    <2>4. Status[c] = "open" /\ Status'[c] = "told"
      BY <1>2, <2>1, <2>2 DEF Status, IInv, TypeOK
    <2>5. Status' = [Status EXCEPT ![c] = "told"]
      BY <2>2, <2>3, <2>4 DEF Status, IInv, TypeOK
    <2>6. QED
      BY <2>2, <2>4, <2>5 DEF Promise!Next, Promise!Tell
  <1>3. QED
    BY <1>1, <1>2

LEMMA StepKeepsPromise ==
  IInv /\ [Next]_vars => [Promise!Next]_<<Status, notified>>
  <1> SUFFICES ASSUME IInv, [Next]_vars PROVE [Promise!Next]_<<Status, notified>>
    OBVIOUS
  <1> USE DEF itemVars, queueVars, flushVars
  <1>0. TypeOK /\ HeldCalls /\ ItemFlags
    BY DEF IInv
  <1>1. ASSUME NEW c \in Calls, Subscribe(c) PROVE [Promise!Next]_<<Status, notified>>
    <2>1. Status[c] = "new" /\ Status'[c] \in {"open", "gone"}
      BY <1>0, <1>1 DEF Subscribe, QueueOf, Status, ItemFlags, TypeOK
    <2>2. Status' = [Status EXCEPT ![c] = Status'[c]]
      BY <1>0, <1>1 DEF Subscribe, QueueOf, Status, TypeOK
    <2>3. UNCHANGED notified
      BY <1>1 DEF Subscribe, QueueOf
    <2>4. QED
      BY <2>1, <2>2, <2>3 DEF Promise!Next, Promise!Make
  <1>2. ASSUME NEW c \in Calls, RefuseSubscription(c)
        PROVE  [Promise!Next]_<<Status, notified>>
    <2>1. notified' = [notified EXCEPT ![c] = <<Error("unsupported")>>]
      <3>1. Append(<<>>, Error("unsupported")) = <<Error("unsupported")>>
        OBVIOUS
      <3>2. notified[c] = <<>>
        BY <1>0, <1>2 DEF RefuseSubscription, ItemFlags
      <3>3. QED
        BY <1>0, <1>2, <3>1, <3>2 DEF RefuseSubscription, TypeOK
    <2>2. /\ ~subscribed[c] /\ subscribed'[c] /\ notified'[c] # <<>>
          /\ \A d \in Calls \ {c} : /\ subscribed'[d] = subscribed[d]
                                    /\ notified'[d] = notified[d]
          /\ UNCHANGED cancelled
      <3>1. <<Error("unsupported")>> # <<>>
        OBVIOUS
      <3>2. notified'[c] = <<Error("unsupported")>>
        BY <1>0, <2>1 DEF TypeOK
      <3>3. \A d \in Calls \ {c} : /\ subscribed'[d] = subscribed[d]
                                    /\ notified'[d] = notified[d]
        BY <1>0, <1>2 DEF RefuseSubscription, TypeOK
      <3>4. QED
        BY <1>0, <1>2, <3>1, <3>2, <3>3 DEF RefuseSubscription, TypeOK
    <2>3. Status[c] = "new" /\ Status'[c] = "told"
      BY <2>2 DEF Status
    <2>4. \A d \in Calls \ {c} : Status'[d] = Status[d]
      BY <2>2 DEF Status
    <2>5. Status' = [Status EXCEPT ![c] = "told"]
      BY <2>3, <2>4 DEF Status
    <2>6. QED
      BY <2>1, <2>3, <2>5 DEF Promise!Next, Promise!Refuse, Causes
  <1>3. ASSUME NEW c \in Calls, Unsubscribe(c)
        PROVE  [Promise!Next]_<<Status, notified>>
    BY <1>3, AbortKeepsPromise DEF Unsubscribe
  <1>4. ASSUME NEW c \in Calls, SignalAbort(c)
        PROVE  [Promise!Next]_<<Status, notified>>
    BY <1>4, AbortKeepsPromise, StutterStep DEF SignalAbort
  <1>5. ASSUME NEW q \in Queues, NEW f \in Flushes, Flush(q, f)
        PROVE  [Promise!Next]_<<Status, notified>>
    BY <1>5, StutterStep DEF Flush
  <1>6. ASSUME NEW f \in Flushes, PrepareFails(f)
        PROVE  [Promise!Next]_<<Status, notified>>
    <2>1. /\ Head(active[f]) \in Calls /\ Head(active[f]) \in Members(active[f])
      BY <1>0, <1>6, MembersTail DEF PrepareFails, TypeOK
    <2>2. subscribed[Head(active[f])] /\ OpType[Head(active[f])] \in Queues
      BY <1>0, <2>1 DEF HeldCalls, TypeOK
    <2>3. PICK cause \in {"unmapped", "encode"} :
            Settle(Head(active[f]), Error(cause)) /\ UNCHANGED subscribed
      BY <1>6 DEF PrepareFails
    <2>4. Error(cause) \in {Error(e) : e \in Causes}
      BY DEF Causes
    <2>5. QED
      BY <2>1, <2>2, <2>3, <2>4, SettleKeepsPromise
  <1>7. ASSUME NEW f \in Flushes, Deliver(f) \/ FailOne(f)
        PROVE  [Promise!Next]_<<Status, notified>>
    <2> DEFINE c == request[f][at[f]]
    <2>1. c \in Calls /\ c \in Members(request[f])
      BY <1>0, <1>7 DEF Deliver, FailOne, Members, TypeOK
    <2>2. subscribed[c] /\ OpType[c] \in Queues
      BY <1>0, <2>1 DEF HeldCalls, TypeOK
    <2>3. PICK o \in {Data(c)} \cup {Error(e) : e \in Causes} :
            Settle(c, o) /\ UNCHANGED subscribed
      BY <1>0, <1>7, VerdictsOfCall DEF Deliver, FailOne, Causes
    <2> HIDE DEF c
    <2>4. QED
      BY <2>1, <2>2, <2>3, SettleKeepsPromise
  <1>8. ASSUME NEW f \in Flushes,
               \/ StartGroup(f) \/ FlushDone(f) \/ PrepareCall(f) \/ SkipGroup(f)
               \/ Send(f) \/ Finally(f) \/ Answer(f)
        PROVE  [Promise!Next]_<<Status, notified>>
    BY <1>8, StutterStep DEF StartGroup, FlushDone, PrepareCall, SkipGroup, Send,
                             Finally, Answer, Reject, Respond
  <1>9. CASE UNCHANGED vars
    BY <1>9, StutterStep DEF vars
  <1>10. QED
    BY <1>1, <1>2, <1>3, <1>4, <1>5, <1>6, <1>7, <1>8, <1>9 DEF Next, App, Run

\* Every call's observer is told one thing at most, about this very call, and
\* nothing once it has gone: the batching link implements CallPromise.
THEOREM PromiseKept == Spec => KeepsPromise
  <1>1. Init => Promise!Init
    BY DEF Init, Promise!Init, Status
  <1>2. QED
    BY <1>1, Invariance, StepKeepsPromise, PTL DEF Spec, KeepsPromise, Promise!Spec
-----------------------------------------------------------------------------
(* No call is held twice *)

\* What the holders of the link hold, as one function.
HeldBy == [h \in Holders |-> Held(h)]

\* The holders of a queue and of a flush, and what they hold.
LEMMA HeldAt ==
  /\ \A q \in Queues : <<"pending", q>> \in Holders /\ HeldBy[<<"pending", q>>] = pending[q]
  /\ \A f \in Flushes :
       /\ <<"todo", f>> \in Holders /\ HeldBy[<<"todo", f>>] = todo[f]
       /\ <<"active", f>> \in Holders /\ HeldBy[<<"active", f>>] = active[f]
       /\ <<"request", f>> \in Holders /\ HeldBy[<<"request", f>>] = request[f]
  BY DEF HeldBy, Holders, Held

LEMMA HolderCases ==
  ASSUME NEW h \in Holders
  PROVE  \/ \E q \in Queues : h = <<"pending", q>>
         \/ \E f \in Flushes : h = <<"todo", f>> \/ h = <<"active", f>> \/ h = <<"request", f>>
  BY DEF Holders

\* Every entry of every holder of H is another one.
Distinct(H) ==
  \A g, h \in DOMAIN H : \A i \in DOMAIN H[g], j \in DOMAIN H[h] :
    H[g][i] = H[h][j] => g = h /\ i = j

LEMMA HeldOnceDistinct == HeldOnce <=> Distinct(HeldBy)
  BY DEF HeldOnce, Distinct, HeldBy

\* When two holders share out what they held, or take in what nobody held,
\* without repetition, and the others keep what they have, all stay distinct.
LEMMA Reshuffle ==
  ASSUME NEW S, NEW old, NEW new, DOMAIN old = S, DOMAIN new = S,
         Distinct(old), NEW a \in S, NEW b \in S,
         \A h \in S \ {a, b} : new[h] = old[h],
         \A g, h \in {a, b} : \A i \in DOMAIN new[g], j \in DOMAIN new[h] :
           new[g][i] = new[h][j] => g = h /\ i = j,
         \A g \in {a, b} : \A i \in DOMAIN new[g] :
           \/ \E h \in {a, b} : \E j \in DOMAIN old[h] : new[g][i] = old[h][j]
           \/ \A h \in S : \A j \in DOMAIN old[h] : new[g][i] # old[h][j]
  PROVE  Distinct(new)
  <1> SUFFICES ASSUME NEW g \in S, NEW h \in S, NEW i \in DOMAIN new[g],
                      NEW j \in DOMAIN new[h], new[g][i] = new[h][j]
               PROVE  g = h /\ i = j
    BY DEF Distinct
  <1>1. CASE g \in {a, b} /\ h \in {a, b}
    BY <1>1
  <1>2. CASE g \notin {a, b} /\ h \notin {a, b}
    BY <1>2 DEF Distinct
  <1>3. ASSUME NEW x \in {a, b}, NEW y \in S \ {a, b},
               NEW k \in DOMAIN new[x], NEW l \in DOMAIN new[y]
        PROVE  new[x][k] # new[y][l]
    <2>1. new[y] = old[y]
      OBVIOUS
    <2>2. CASE \E z \in {a, b} : \E m \in DOMAIN old[z] : new[x][k] = old[z][m]
      BY <2>1, <2>2 DEF Distinct
    <2>3. CASE \A z \in S : \A m \in DOMAIN old[z] : new[x][k] # old[z][m]
      BY <2>1, <2>3
    <2>4. QED
      BY <2>2, <2>3
  <1>4. QED
    BY <1>1, <1>2, <1>3

\* A call that nobody has subscribed to is held nowhere.
LEMMA UnsubscribedNotHeld ==
  ASSUME TypeOK, HeldCalls, NEW c \in Calls, ~subscribed[c]
  PROVE  \A h \in Holders : \A j \in DOMAIN HeldBy[h] : HeldBy[h][j] # c
  <1> SUFFICES ASSUME NEW h \in Holders, NEW j \in DOMAIN HeldBy[h], HeldBy[h][j] = c
               PROVE  FALSE
    OBVIOUS
  <1>1. CASE \E q \in Queues : h = <<"pending", q>>
    <2>1. PICK q \in Queues : h = <<"pending", q>>
      BY <1>1
    <2>2. c \in Members(pending[q])
      BY <2>1, HeldAt DEF Members
    <2>3. QED
      BY <2>2 DEF HeldCalls
  <1>2. CASE \E f \in Flushes :
               h = <<"todo", f>> \/ h = <<"active", f>> \/ h = <<"request", f>>
    <2>1. PICK f \in Flushes :
               h = <<"todo", f>> \/ h = <<"active", f>> \/ h = <<"request", f>>
      BY <1>2
    <2>2. c \in Members(todo[f]) \cup Members(active[f]) \cup Members(request[f])
      BY <2>1, HeldAt DEF Members
    <2>3. QED
      BY <2>2 DEF HeldCalls
  <1>3. QED
    BY <1>1, <1>2, HolderCases

\* A sequence without repetitions has none after its head has gone, and none
\* of the rest is the head.
LEMMA TailDistinct ==
  ASSUME NEW s \in Seq(Calls), s # <<>>,
         \A i, j \in DOMAIN s : s[i] = s[j] => i = j
  PROVE  /\ \A i \in DOMAIN Tail(s) : /\ i + 1 \in DOMAIN s /\ Tail(s)[i] = s[i + 1]
                                      /\ Tail(s)[i] # Head(s)
         /\ \A i, j \in DOMAIN Tail(s) : Tail(s)[i] = Tail(s)[j] => i = j
         /\ 1 \in DOMAIN s /\ Head(s) = s[1]
  <1>1. /\ Len(s) \in Nat /\ DOMAIN s = 1..Len(s) /\ DOMAIN Tail(s) = 1..(Len(s) - 1)
        /\ \A i \in 1..(Len(s) - 1) : Tail(s)[i] = s[i + 1]
        /\ Len(s) >= 1 /\ Head(s) = s[1]
    OBVIOUS
  <1>2. \A i \in DOMAIN Tail(s) : i + 1 \in DOMAIN s /\ i + 1 # 1 /\ i \in Nat
    BY <1>1
  <1>3. 1 \in DOMAIN s
    BY <1>1
  <1>4. \A i, j \in DOMAIN Tail(s) : Tail(s)[i] = Tail(s)[j] => i + 1 = j + 1
    BY <1>1, <1>2
  <1>5. \A i, j \in Nat : i + 1 = j + 1 => i = j
    OBVIOUS
  <1>6. QED
    BY <1>1, <1>2, <1>3, <1>4, <1>5

LEMMA HeldAtNext ==
  /\ DOMAIN HeldBy = Holders /\ DOMAIN HeldBy' = Holders
  /\ \A q \in Queues : HeldBy'[<<"pending", q>>] = pending'[q]
  /\ \A f \in Flushes : /\ HeldBy'[<<"todo", f>>] = todo'[f]
                        /\ HeldBy'[<<"active", f>>] = active'[f]
                        /\ HeldBy'[<<"request", f>>] = request'[f]
  BY DEF HeldBy, Holders, Held

\* A holder whose own sequence a step leaves alone holds what it held.
LEMMA HolderKept ==
  ASSUME NEW h \in Holders,
         \A q \in Queues : h = <<"pending", q>> => pending'[q] = pending[q],
         \A f \in Flushes : /\ h = <<"todo", f>> => todo'[f] = todo[f]
                            /\ h = <<"active", f>> => active'[f] = active[f]
                            /\ h = <<"request", f>> => request'[f] = request[f]
  PROVE  HeldBy'[h] = HeldBy[h]
  <1>1. CASE \E q \in Queues : h = <<"pending", q>>
    BY <1>1, HeldAt, HeldAtNext
  <1>2. CASE \E f \in Flushes :
               h = <<"todo", f>> \/ h = <<"active", f>> \/ h = <<"request", f>>
    <2>1. PICK f \in Flushes :
               h = <<"todo", f>> \/ h = <<"active", f>> \/ h = <<"request", f>>
      BY <1>2
    <2>2. CASE h = <<"todo", f>>
      BY <2>2, HeldAt, HeldAtNext
    <2>3. CASE h = <<"active", f>>
      BY <2>3, HeldAt, HeldAtNext
    <2>4. CASE h = <<"request", f>>
      BY <2>4, HeldAt, HeldAtNext
    <2>5. QED
      BY <2>1, <2>2, <2>3, <2>4
  <1>3. QED
    BY <1>1, <1>2, HolderCases

LEMMA NextHeldOnce == IInv /\ HeldOnce /\ [Next]_vars => HeldOnce'
  <1> SUFFICES ASSUME IInv, HeldOnce, [Next]_vars PROVE HeldOnce'
    OBVIOUS
  <1>0. TypeOK /\ HeldCalls /\ FlushHolds /\ Distinct(HeldBy)
    BY HeldOnceDistinct DEF IInv
  <1>d. Distinct(HeldBy') => HeldOnce'
    BY DEF HeldOnce, Distinct, HeldBy
  <1>u. ASSUME UNCHANGED <<pending, todo, active, request>> PROVE HeldOnce'
    <2>1. \A h \in Holders : HeldBy'[h] = HeldBy[h]
      BY <1>u, HolderKept
    <2>2. QED
      BY <1>0, <1>d, <2>1, HeldAtNext DEF Distinct
  <1> USE DEF itemVars, queueVars, flushVars
  <1>1. ASSUME NEW c \in Calls, Subscribe(c) PROVE HeldOnce'
    <2> DEFINE p == <<"pending", OpType[c]>>
    <2>1. /\ ~subscribed[c] /\ OpType[c] \in Queues
          /\ pending'[OpType[c]] = Append(pending[OpType[c]], c)
          /\ \A q \in Queues \ {OpType[c]} : pending'[q] = pending[q]
          /\ UNCHANGED <<todo, active, request>>
      BY <1>0, <1>1 DEF Subscribe, QueueOf, TypeOK
    <2>2. p \in Holders /\ HeldBy[p] = pending[OpType[c]] /\ HeldBy'[p] = pending'[OpType[c]]
      BY <2>1, HeldAt, HeldAtNext
    <2>3. \A h \in Holders \ {p} : HeldBy'[h] = HeldBy[h]
      BY <2>1, HolderKept
    <2>4. /\ pending[OpType[c]] \in Seq(Calls)
          /\ \A i \in DOMAIN pending'[OpType[c]] :
               \/ i \in DOMAIN pending[OpType[c]] /\ pending'[OpType[c]][i] = pending[OpType[c]][i]
               \/ i = Len(pending[OpType[c]]) + 1 /\ pending'[OpType[c]][i] = c
      BY <1>0, <2>1 DEF TypeOK
    <2>5. \A h \in Holders : \A j \in DOMAIN HeldBy[h] : HeldBy[h][j] # c
      BY <1>0, <2>1, UnsubscribedNotHeld
    <2>6. \A i, j \in DOMAIN HeldBy'[p] : HeldBy'[p][i] = HeldBy'[p][j] => i = j
      BY <1>0, <2>2, <2>4, <2>5, HeldAtNext DEF Distinct
    <2>7. \A i \in DOMAIN HeldBy'[p] :
            \/ \E j \in DOMAIN HeldBy[p] : HeldBy'[p][i] = HeldBy[p][j]
            \/ \A h \in Holders : \A j \in DOMAIN HeldBy[h] : HeldBy'[p][i] # HeldBy[h][j]
      BY <2>2, <2>4, <2>5
    <2> HIDE DEF p
    <2>8. Distinct(HeldBy')
      BY <1>0, <2>2, <2>3, <2>6, <2>7, HeldAtNext, Reshuffle
    <2>9. QED
      BY <2>8, <1>d
  <1>2. ASSUME NEW c \in Calls,
               RefuseSubscription(c) \/ Unsubscribe(c) \/ SignalAbort(c)
        PROVE  HeldOnce'
    BY <1>2, <1>u DEF RefuseSubscription, Unsubscribe, SignalAbort
  <1>3. ASSUME NEW q \in Queues, NEW f \in Flushes, Flush(q, f) PROVE HeldOnce'
    <2> DEFINE p == <<"pending", q>>
               t == <<"todo", f>>
    <2>1. /\ todo[f] = <<>> /\ todo'[f] = pending[q] /\ pending'[q] = <<>>
          /\ \A r \in Queues \ {q} : pending'[r] = pending[r]
          /\ \A g \in Flushes \ {f} : todo'[g] = todo[g]
          /\ UNCHANGED <<active, request>>
      BY <1>0, <1>3 DEF Flush, FlushHolds, TypeOK
    <2>2. /\ p \in Holders /\ HeldBy[p] = pending[q] /\ HeldBy'[p] = <<>>
          /\ t \in Holders /\ HeldBy'[t] = pending[q]
      BY <2>1, HeldAt, HeldAtNext
    <2>3. \A h \in Holders \ {p, t} : HeldBy'[h] = HeldBy[h]
      BY <2>1, HolderKept
    <2>4. DOMAIN HeldBy'[p] = {}
      BY <2>2
    <2> HIDE DEF p, t
    <2>5. Distinct(HeldBy')
      <3>1. \A i, j \in DOMAIN HeldBy'[t] : HeldBy'[t][i] = HeldBy'[t][j] => i = j
        BY <1>0, <2>2, HeldAtNext DEF Distinct
      <3>2. QED
        BY <1>0, <2>2, <2>3, <2>4, <3>1, HeldAtNext, Reshuffle
    <2>6. QED
      BY <2>5, <1>d
  <1>4. ASSUME NEW f \in Flushes, StartGroup(f) PROVE HeldOnce'
    <2> DEFINE t == <<"todo", f>>
               a == <<"active", f>>
               n == GroupSize(todo[f])
    <2>1. /\ todo[f] \in Seq(Calls) /\ todo[f] # <<>> /\ active[f] = <<>>
          /\ todo'[f] = Rest(todo[f])
          /\ \A g \in Flushes \ {f} : todo'[g] = todo[g] /\ active'[g] = active[g]
          /\ UNCHANGED <<pending, request>>
      BY <1>0, <1>4 DEF StartGroup, FlushHolds, TypeOK
    <2>2. PICK h \in LivePositions(Group(todo[f])) :
            active'[f] = [i \in DOMAIN h |-> todo[f][h[i]]]
      BY <1>0, <1>4 DEF StartGroup, TypeOK
    <2>3. /\ DOMAIN active'[f] = DOMAIN h
          /\ h \in [DOMAIN active'[f] -> 1..n]
          /\ \A i, j \in DOMAIN active'[f] : i < j => h[i] < h[j]
          /\ active'[f] \in Seq(Calls)
      BY <2>1, <2>2, FilterGroup
    <2>4. /\ n \in 1..Len(todo[f]) /\ Len(todo'[f]) = Len(todo[f]) - n
          /\ todo'[f] \in Seq(Calls)
          /\ \A i \in 1..Len(todo'[f]) : todo'[f][i] = todo[f][i + n]
      BY <2>1, GroupAndRest
    <2>5. /\ t \in Holders /\ HeldBy[t] = todo[f] /\ HeldBy'[t] = todo'[f]
          /\ a \in Holders /\ HeldBy[a] = <<>> /\ HeldBy'[a] = active'[f] /\ t # a
      BY <2>1, HeldAt, HeldAtNext
    <2>6. \A g \in Holders \ {t, a} : HeldBy'[g] = HeldBy[g]
      BY <2>1, HolderKept
    <2>7. \A i, j \in DOMAIN todo[f] : todo[f][i] = todo[f][j] => i = j
      BY <1>0, <2>5, HeldAtNext DEF Distinct
    <2>8. \A i \in DOMAIN active'[f] :
            h[i] \in DOMAIN todo[f] /\ h[i] <= n /\ active'[f][i] = todo[f][h[i]]
      BY <2>1, <2>2, <2>3, <2>4
    <2>9. \A i \in DOMAIN todo'[f] :
            /\ i \in Nat /\ i + n \in DOMAIN todo[f] /\ i + n > n
            /\ todo'[f][i] = todo[f][i + n]
      <3>1. /\ DOMAIN todo'[f] = 1..Len(todo'[f]) /\ DOMAIN todo[f] = 1..Len(todo[f])
            /\ Len(todo[f]) \in Nat /\ n \in Nat
        BY <2>1, <2>4
      <3>2. \A l, k \in Nat : \A i \in 1..(l - k) :
              i \in Nat /\ i + k \in 1..l /\ i + k > k
        OBVIOUS
      <3>3. \A i \in 1..(Len(todo[f]) - n) :
              i \in Nat /\ i + n \in 1..Len(todo[f]) /\ i + n > n
        BY <3>1, <3>2
      <3> HIDE DEF n
      <3>4. QED
        BY <2>4, <3>1, <3>3
    <2>10. \A i, j \in DOMAIN active'[f] : active'[f][i] = active'[f][j] => i = j
      <3>1. \A i, j \in DOMAIN active'[f] : h[i] = h[j] => i = j
        <4>1. \A i, j \in DOMAIN active'[f] : i < j \/ j < i \/ i = j
          BY <2>3
        <4>2. \A i \in DOMAIN active'[f] : h[i] \in Nat
          BY <2>3, <2>4
        <4>3. QED
          BY <2>3, <4>1, <4>2
      <3>2. QED
        BY <2>7, <2>8, <3>1
    <2>11. \A i, j \in DOMAIN todo'[f] : todo'[f][i] = todo'[f][j] => i = j
      <3>1. \A i, j \in DOMAIN todo'[f] : todo'[f][i] = todo'[f][j] => i + n = j + n
        BY <2>7, <2>9
      <3>2. QED
        BY <2>4, <2>9, <3>1
    <2>12. \A i \in DOMAIN active'[f], j \in DOMAIN todo'[f] : active'[f][i] # todo'[f][j]
      <3>1. \A i \in DOMAIN active'[f], j \in DOMAIN todo'[f] : h[i] # j + n
        BY <2>3, <2>4, <2>8, <2>9
      <3>2. QED
        BY <2>7, <2>8, <2>9, <3>1
    <2> HIDE DEF t, a, n
    <2>13. Distinct(HeldBy')
      <3>1. \A x, y \in {t, a} : \A i \in DOMAIN HeldBy'[x], j \in DOMAIN HeldBy'[y] :
              HeldBy'[x][i] = HeldBy'[y][j] => x = y /\ i = j
        BY <2>5, <2>10, <2>11, <2>12
      <3>2. \A x \in {t, a} : \A i \in DOMAIN HeldBy'[x] :
              \E y \in {t, a} : \E j \in DOMAIN HeldBy[y] : HeldBy'[x][i] = HeldBy[y][j]
        BY <2>5, <2>8, <2>9
      <3>3. QED
        BY <1>0, <2>5, <2>6, <3>1, <3>2, HeldAtNext, Reshuffle
    <2>14. QED
      BY <2>13, <1>d
  <1>5. ASSUME NEW f \in Flushes, PrepareFails(f) PROVE HeldOnce'
    <2> DEFINE a == <<"active", f>>
    <2>1. /\ active[f] \in Seq(Calls) /\ active[f] # <<>> /\ active'[f] = Tail(active[f])
          /\ \A g \in Flushes \ {f} : active'[g] = active[g]
          /\ UNCHANGED <<pending, todo, request>>
      BY <1>0, <1>5 DEF PrepareFails, TypeOK
    <2>2. a \in Holders /\ HeldBy[a] = active[f] /\ HeldBy'[a] = active'[f]
      BY HeldAt, HeldAtNext
    <2>3. \A h \in Holders \ {a} : HeldBy'[h] = HeldBy[h]
      BY <2>1, HolderKept
    <2>4. \A i, j \in DOMAIN active[f] : active[f][i] = active[f][j] => i = j
      BY <1>0, <2>2, HeldAtNext DEF Distinct
    <2>5. /\ \A i \in DOMAIN HeldBy'[a] : \E j \in DOMAIN HeldBy[a] : HeldBy'[a][i] = HeldBy[a][j]
          /\ \A i, j \in DOMAIN HeldBy'[a] : HeldBy'[a][i] = HeldBy'[a][j] => i = j
      BY <2>1, <2>2, <2>4, TailDistinct
    <2> HIDE DEF a
    <2>6. Distinct(HeldBy')
      BY <1>0, <2>2, <2>3, <2>5, HeldAtNext, Reshuffle
    <2>7. QED
      BY <2>6, <1>d
  <1>6. ASSUME NEW f \in Flushes, PrepareCall(f) PROVE HeldOnce'
    <2> DEFINE a == <<"active", f>>
               r == <<"request", f>>
               c == Head(active[f])
    <2>1. /\ active[f] \in Seq(Calls) /\ active[f] # <<>> /\ active'[f] = Tail(active[f])
          /\ request[f] \in Seq(Calls) /\ request'[f] = Append(request[f], c)
          /\ \A g \in Flushes \ {f} : active'[g] = active[g] /\ request'[g] = request[g]
          /\ UNCHANGED <<pending, todo>>
      BY <1>0, <1>6 DEF PrepareCall, TypeOK
    <2>2. /\ a \in Holders /\ HeldBy[a] = active[f] /\ HeldBy'[a] = active'[f]
          /\ r \in Holders /\ HeldBy[r] = request[f] /\ HeldBy'[r] = request'[f] /\ a # r
      BY HeldAt, HeldAtNext
    <2>3. \A h \in Holders \ {a, r} : HeldBy'[h] = HeldBy[h]
      BY <2>1, HolderKept
    <2>4. /\ \A i, j \in DOMAIN active[f] : active[f][i] = active[f][j] => i = j
          /\ \A i, j \in DOMAIN request[f] : request[f][i] = request[f][j] => i = j
          /\ \A i \in DOMAIN active[f], j \in DOMAIN request[f] : active[f][i] # request[f][j]
      BY <1>0, <2>2, HeldAtNext DEF Distinct
    <2>5. \A i \in DOMAIN request'[f] :
            \/ i \in DOMAIN request[f] /\ request'[f][i] = request[f][i]
            \/ i = Len(request[f]) + 1 /\ request'[f][i] = c
      BY <2>1
    <2>6. /\ \A i \in DOMAIN active'[f] : /\ i + 1 \in DOMAIN active[f]
                                          /\ active'[f][i] = active[f][i + 1]
                                          /\ active'[f][i] # c
          /\ \A i, j \in DOMAIN active'[f] : active'[f][i] = active'[f][j] => i = j
          /\ 1 \in DOMAIN active[f] /\ c = active[f][1]
      BY <2>1, <2>4, TailDistinct
    <2>7. \A i, j \in DOMAIN request'[f] : request'[f][i] = request'[f][j] => i = j
      BY <2>4, <2>5, <2>6
    <2>8. \A i \in DOMAIN active'[f], j \in DOMAIN request'[f] : active'[f][i] # request'[f][j]
      BY <2>4, <2>5, <2>6
    <2> HIDE DEF a, r, c
    <2>9. Distinct(HeldBy')
      <3>1. \A x, y \in {a, r} : \A i \in DOMAIN HeldBy'[x], j \in DOMAIN HeldBy'[y] :
              HeldBy'[x][i] = HeldBy'[y][j] => x = y /\ i = j
        BY <2>2, <2>6, <2>7, <2>8
      <3>2. \A x \in {a, r} : \A i \in DOMAIN HeldBy'[x] :
              \E y \in {a, r} : \E j \in DOMAIN HeldBy[y] : HeldBy'[x][i] = HeldBy[y][j]
        BY <2>2, <2>5, <2>6
      <3>3. QED
        BY <1>0, <2>2, <2>3, <3>1, <3>2, HeldAtNext, Reshuffle
    <2>10. QED
      BY <2>9, <1>d
  <1>7. ASSUME NEW f \in Flushes, Finally(f) PROVE HeldOnce'
    <2> DEFINE r == <<"request", f>>
    <2>1. /\ request'[f] = <<>> /\ \A g \in Flushes \ {f} : request'[g] = request[g]
          /\ UNCHANGED <<pending, todo, active>>
      BY <1>0, <1>7 DEF Finally, TypeOK
    <2>2. r \in Holders /\ HeldBy'[r] = <<>>
      BY <2>1, HeldAt, HeldAtNext
    <2>3. \A h \in Holders \ {r} : HeldBy'[h] = HeldBy[h]
      BY <2>1, HolderKept
    <2>4. DOMAIN HeldBy'[r] = {}
      BY <2>2
    <2> HIDE DEF r
    <2>5. Distinct(HeldBy')
      BY <1>0, <2>2, <2>3, <2>4, HeldAtNext, Reshuffle
    <2>6. QED
      BY <2>5, <1>d
  <1>8. ASSUME NEW f \in Flushes,
               \/ FlushDone(f) \/ SkipGroup(f) \/ Send(f) \/ Deliver(f) \/ FailOne(f)
               \/ Answer(f)
        PROVE  HeldOnce'
    BY <1>8, <1>u DEF FlushDone, SkipGroup, Send, Deliver, FailOne, Answer, Reject, Respond
  <1>9. CASE UNCHANGED vars
    BY <1>9, <1>u DEF vars
  <1>10. QED
    BY <1>1, <1>2, <1>3, <1>4, <1>5, <1>6, <1>7, <1>8, <1>9 DEF Next, App, Run

LEMMA InitHeldOnce == Init => HeldOnce
  <1> SUFFICES ASSUME Init PROVE HeldOnce
    OBVIOUS
  <1>1. DOMAIN <<>> = {}
    OBVIOUS
  <1>2. ASSUME NEW h \in Holders PROVE HeldBy[h] = <<>>
    <2>1. CASE \E q \in Queues : h = <<"pending", q>>
      BY <2>1, HeldAt DEF Init
    <2>2. ASSUME NEW f \in Flushes, h = <<"todo", f>> PROVE HeldBy[h] = <<>>
      BY <2>2, HeldAt DEF Init
    <2>3. ASSUME NEW f \in Flushes, h = <<"active", f>> PROVE HeldBy[h] = <<>>
      BY <2>3, HeldAt DEF Init
    <2>4. ASSUME NEW f \in Flushes, h = <<"request", f>> PROVE HeldBy[h] = <<>>
      BY <2>4, HeldAt DEF Init
    <2>5. QED
      BY <2>1, <2>2, <2>3, <2>4, HolderCases
  <1>3. QED
    BY <1>1, <1>2, HeldAtNext, HeldOnceDistinct DEF Distinct

\* No call is ever held in two places, or twice in one: whatever the calls, the
\* batch size and the order of flushes and callbacks, no mutation is sent twice.
THEOREM NoneHeldTwice == Spec => []HeldOnce
  BY InitHeldOnce, NextHeldOnce, Invariance, PTL DEF Spec
-----------------------------------------------------------------------------
(* The last call to leave takes its request with it *)

\* A request that has been sent is aborted through its own calls: each of them
\* still points to it, and there is one at least.
RequestAborts ==
  \A f \in Flushes : pc[f] \in Sent =>
    request[f] # <<>> /\ \A c \in Members(request[f]) : abortBatch[c] = f

\* Two flushes never send the same call.
LEMMA RequestsDisjoint ==
  ASSUME HeldOnce, NEW f \in Flushes, NEW g \in Flushes, f # g
  PROVE  Members(request[f]) \cap Members(request[g]) = {}
  <1>1. \A i \in DOMAIN request[f], j \in DOMAIN request[g] : request[f][i] # request[g][j]
    <2>1. <<"request", f>> # <<"request", g>>
      OBVIOUS
    <2>2. /\ <<"request", f>> \in Holders /\ HeldBy[<<"request", f>>] = request[f]
          /\ <<"request", g>> \in Holders /\ HeldBy[<<"request", g>>] = request[g]
      BY HeldAt
    <2>3. Distinct(HeldBy) /\ DOMAIN HeldBy = Holders
      BY HeldOnceDistinct, HeldAtNext
    <2>4. QED
      BY <2>1, <2>2, <2>3 DEF Distinct
  <1>2. QED
    BY <1>1 DEF Members

LEMMA NextRequestAborts ==
  IInv /\ HeldOnce /\ RequestAborts /\ [Next]_vars => RequestAborts'
  <1> SUFFICES ASSUME IInv, HeldOnce, RequestAborts, [Next]_vars PROVE RequestAborts'
    OBVIOUS
  <1>0. TypeOK /\ AbortsOwnRequest /\ FlushHolds
    BY DEF IInv
  <1> USE DEF RequestAborts, Sent, itemVars, queueVars, flushVars
  <1>u. ASSUME UNCHANGED <<request, abortBatch>>,
               \A f \in Flushes : pc'[f] \in Sent => pc[f] \in Sent
        PROVE  RequestAborts'
    BY <1>u DEF Members
  <1>1. ASSUME NEW c \in Calls, App(c) PROVE RequestAborts'
    BY <1>1, <1>u DEF App, Subscribe, QueueOf, RefuseSubscription, Unsubscribe, SignalAbort
  <1>2. ASSUME NEW q \in Queues, NEW f \in Flushes, Flush(q, f) PROVE RequestAborts'
    BY <1>0, <1>2, <1>u DEF Flush, TypeOK
  <1>3. ASSUME NEW f \in Flushes,
               \/ StartGroup(f) \/ FlushDone(f) \/ PrepareFails(f) \/ SkipGroup(f)
               \/ Deliver(f) \/ FailOne(f) \/ Answer(f)
        PROVE  RequestAborts'
    BY <1>0, <1>3, <1>u DEF StartGroup, FlushDone, PrepareFails, SkipGroup, Deliver,
       FailOne, Answer, Reject, Respond, CatchPc, TypeOK
  <1>4. ASSUME NEW f \in Flushes, PrepareCall(f) PROVE RequestAborts'
    <2>1. /\ UNCHANGED <<abortBatch, pc>> /\ pc[f] = "prepare"
          /\ \A g \in Flushes \ {f} : request'[g] = request[g]
      BY <1>0, <1>4 DEF PrepareCall, TypeOK
    <2>2. QED
      BY <2>1 DEF Members
  <1>5. ASSUME NEW f \in Flushes, Send(f) PROVE RequestAborts'
    <2>1. /\ request[f] # <<>> /\ UNCHANGED request
          /\ \A g \in Flushes \ {f} : pc'[g] = pc[g]
          /\ \A c \in Calls : abortBatch'[c] = IF c \in Members(request[f]) THEN f
                                             ELSE abortBatch[c]
      BY <1>0, <1>5 DEF Send, TypeOK
    <2>2. \A g \in Flushes : Members(request[g]) \subseteq Calls
      BY <1>0, MembersAreCalls
    <2>3. \A g \in Flushes \ {f} : \A c \in Members(request[g]) : c \notin Members(request[f])
      BY RequestsDisjoint
    <2>4. \A g \in Flushes : Members(request'[g]) = Members(request[g])
      BY <2>1 DEF Members
    <2>5. QED
      BY <2>1, <2>2, <2>3, <2>4
  <1>6. ASSUME NEW f \in Flushes, Finally(f) PROVE RequestAborts'
    <2>1. /\ pc'[f] = "next"
          /\ \A g \in Flushes \ {f} : pc'[g] = pc[g] /\ request'[g] = request[g]
          /\ \A c \in Calls : abortBatch'[c] = IF c \in Members(request[f]) THEN NoFlush
                                             ELSE abortBatch[c]
      BY <1>0, <1>6 DEF Finally, TypeOK
    <2>2. \A g \in Flushes : Members(request[g]) \subseteq Calls
      BY <1>0, MembersAreCalls
    <2>3. \A g \in Flushes \ {f} : \A c \in Members(request[g]) : c \notin Members(request[f])
      BY RequestsDisjoint
    <2>4. \A g \in Flushes \ {f} : Members(request'[g]) = Members(request[g])
      BY <2>1 DEF Members
    <2>5. QED
      BY <2>1, <2>2, <2>3, <2>4
  <1>7. CASE UNCHANGED vars
    BY <1>7, <1>u DEF vars
  <1>8. QED
    BY <1>1, <1>2, <1>3, <1>4, <1>5, <1>6, <1>7 DEF Next, Run

\* abort() for the last call of a request that has been sent aborts it.
LEMMA LastAbort ==
  ASSUME TypeOK, RequestAborts, NEW c \in Calls, Abort(c), UNCHANGED <<request, abortBatch>>,
         NEW f \in Flushes, pc[f] \in Sent, ~AllGone(f), AllGone(f)'
  PROVE  unused'[f]
  <1>1. PICK d \in Members(request[f]) : ~cancelled[d]
    BY DEF AllGone
  <1>2. Members(request'[f]) = Members(request[f]) /\ Members(request[f]) \subseteq Calls
    BY MembersAreCalls DEF Members
  <1>3. d = c
    BY <1>1, <1>2 DEF Abort, AllGone, TypeOK
  <1>4. f \in Unused(c, cancelled')
    BY <1>1, <1>2, <1>3 DEF Unused, AllGone, RequestAborts
  <1>5. QED
    BY <1>4 DEF Abort

LEMMA LastCancelStep ==
  ASSUME IInv, RequestAborts, [Next]_vars,
         NEW f \in Flushes, InFlight(f), InFlight(f)', ~AllGone(f), AllGone(f)'
  PROVE  unused'[f]
  <1>0. TypeOK /\ HeldCalls /\ pc[f] \in Sent
    BY DEF IInv, InFlight, Sent
  <1>00. Members(request[f]) \subseteq Calls
    BY <1>0, MembersAreCalls
  <1> USE DEF itemVars, queueVars, flushVars
  <1>u. ASSUME UNCHANGED cancelled, request'[f] = request[f] PROVE FALSE
    BY <1>u DEF AllGone, Members
  <1>1. ASSUME NEW c \in Calls, Subscribe(c) PROVE FALSE
    <2>1. /\ ~subscribed[c] /\ UNCHANGED request
          /\ \A d \in Calls \ {c} : cancelled'[d] = cancelled[d]
      BY <1>0, <1>1 DEF Subscribe, TypeOK
    <2>2. c \notin Members(request[f])
      BY <1>0, <2>1 DEF HeldCalls
    <2>3. QED
      BY <1>00, <2>1, <2>2 DEF AllGone, Members
  <1>2. ASSUME NEW c \in Calls, RefuseSubscription(c) PROVE FALSE
    BY <1>2, <1>u DEF RefuseSubscription
  <1>3. ASSUME NEW c \in Calls, Unsubscribe(c) \/ SignalAbort(c) PROVE unused'[f]
    <2>1. UNCHANGED <<request, abortBatch>> /\ (Abort(c) \/ UNCHANGED cancelled)
      BY <1>3 DEF Unsubscribe, SignalAbort
    <2>2. QED
      BY <1>0, <1>u, <2>1, LastAbort, SMTT(40)
  <1>4. ASSUME NEW g \in Flushes, PrepareFails(g) \/ Deliver(g) \/ FailOne(g)
        PROVE  unused'[f]
    <2>1. PICK c \in Calls, o \in Outcomes : Settle(c, o)
      BY <1>0, <1>4, SettlingActions
    <2>2. UNCHANGED <<request, abortBatch>> /\ (Abort(c) \/ UNCHANGED cancelled)
      BY <1>4, <2>1 DEF PrepareFails, Deliver, FailOne, Settle
    <2>3. QED
      BY <1>0, <1>u, <2>2, LastAbort
  <1>5. ASSUME NEW q \in Queues, NEW g \in Flushes, Flush(q, g) PROVE FALSE
    BY <1>5, <1>u DEF Flush
  <1>6. ASSUME NEW g \in Flushes,
               StartGroup(g) \/ FlushDone(g) \/ SkipGroup(g) \/ Send(g) \/ Answer(g)
        PROVE  FALSE
    BY <1>6, <1>u DEF StartGroup, FlushDone, SkipGroup, Send, Answer, Reject, Respond
  <1>7. ASSUME NEW g \in Flushes, PrepareCall(g) \/ Finally(g) PROVE FALSE
    <2>1. UNCHANGED cancelled
      BY <1>7 DEF PrepareCall, Finally
    <2>2. g # f
      BY <1>0, <1>7 DEF PrepareCall, Finally, InFlight, Sent, TypeOK
    <2>3. request'[f] = request[f]
      BY <1>0, <1>7, <2>2 DEF PrepareCall, Finally, TypeOK
    <2>4. QED
      BY <1>u, <2>1, <2>3
  <1>8. CASE UNCHANGED vars
    BY <1>8, <1>u DEF vars
  <1>9. QED
    BY <1>1, <1>2, <1>3, <1>4, <1>5, <1>6, <1>7, <1>8 DEF Next, App, Run

\* When the last observer of a request in flight leaves, that very step aborts
\* the request, whatever else the link is doing.
THEOREM LastOneAborts == Spec => LastCancelAborts
  <1>1. Init => RequestAborts
    BY DEF Init, RequestAborts, Sent
  <1>2. IInv /\ RequestAborts /\ [Next]_vars =>
          [\A f \in Flushes :
             InFlight(f) /\ InFlight(f)' /\ ~AllGone(f) /\ AllGone(f)' => unused'[f]]_vars
    BY LastCancelStep
  <1>3. QED
    BY <1>1, <1>2, Invariance, NoneHeldTwice, NextRequestAborts, PTL DEF Spec, LastCancelAborts
=============================================================================
