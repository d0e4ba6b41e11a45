---------------------------- MODULE MCFieldNumbers ----------------------------
(* Instances of FieldNumbers for TLC: every bound is given in the cfg. *)
EXTENDS FieldNumbers
=============================================================================
