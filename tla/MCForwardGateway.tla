--------------------------- MODULE MCForwardGateway ---------------------------
(* Instances of ForwardGateway for TLC: every bound is given in the cfg. *)
EXTENDS ForwardGateway
=============================================================================
