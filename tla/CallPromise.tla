----------------------------- MODULE CallPromise -----------------------------
(***************************************************************************)
(* What the browser link promises the observer of a call, whatever batch   *)
(* the call travels in: it is told one thing at most, an answer computed   *)
(* for this very call or an error, and nothing any more once it has left.  *)
(***************************************************************************)
EXTENDS Sequences

CONSTANTS Calls, Data(_), Errors

VARIABLES status, told

Init ==
  /\ status = [c \in Calls |-> "new"]
  /\ told = [c \in Calls |-> <<>>]

\* The call is made; a call whose signal has already aborted is gone at once.
Make(c) ==
  /\ status[c] = "new"
  /\ \E s \in {"open", "gone"} : status' = [status EXCEPT ![c] = s]
  /\ UNCHANGED told

\* The observer is told the outcome, once.
Tell(c) ==
  /\ status[c] = "open"
  /\ status' = [status EXCEPT ![c] = "told"]
  /\ \E o \in {Data(c)} \cup Errors : told' = [told EXCEPT ![c] = <<o>>]

\* A call the link never accepts is told so as it is made.
Refuse(c) ==
  /\ status[c] = "new"
  /\ status' = [status EXCEPT ![c] = "told"]
  /\ \E o \in Errors : told' = [told EXCEPT ![c] = <<o>>]

\* The application gives up.
Leave(c) ==
  /\ status[c] = "open"
  /\ status' = [status EXCEPT ![c] = "gone"]
  /\ UNCHANGED told

Next == \E c \in Calls : Make(c) \/ Tell(c) \/ Refuse(c) \/ Leave(c)

Spec == Init /\ [][Next]_<<status, told>>
=============================================================================
