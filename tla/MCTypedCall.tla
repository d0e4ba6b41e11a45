----------------------------- MODULE MCTypedCall ------------------------------
(* An instance of TypedCall for TLC: links without interceptors, with           *)
(* credentials, and with a retry around an interceptor that may answer.         *)
EXTENDS TypedCall

ChainsOfTwo == {<<>>, <<"auth", "retry">>, <<"retry", "answer">>}
=============================================================================
