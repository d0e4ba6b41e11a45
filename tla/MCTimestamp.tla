------------------------------ MODULE MCTimestamp -----------------------------
(* Instances of Timestamp for TLC: dates before 1970. *)
EXTENDS Timestamp

Before1970 == -2500..-1
=============================================================================
