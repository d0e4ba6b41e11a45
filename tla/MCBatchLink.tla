----------------------------- MODULE MCBatchLink -----------------------------
(* Instances of BatchLink for TLC. *)
EXTENDS BatchLink, TLC

CONSTANTS c1, c2, c3, c4, f1, f2

ThreeCalls == {c1, c2, c3}
TwoFlushes == {f1, f2}

\* Three that share a queue, and a call the link refuses.
FourCalls == ThreeCalls \cup {c4}
Queries == [c \in FourCalls |-> IF c = c4 THEN "subscription" ELSE "query"]

\* Two queries that queue up behind each other, and a mutation.
TwoAndOne == c1 :> "query" @@ c2 :> "query" @@ c3 :> "mutation"

QuerySymmetry == Permutations(ThreeCalls) \cup Permutations(TwoFlushes)
=============================================================================
