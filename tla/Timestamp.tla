------------------------------- MODULE Timestamp ------------------------------
(***************************************************************************)
(* A Date on its way through google.protobuf.Timestamp                     *)
(* (packages/runtime/src/proto_codec/proto_codec.ts): one side encodes it, *)
(* the other decodes it.  A Date is a number of milliseconds since 1970,   *)
(* negative before.                                                        *)
(***************************************************************************)
EXTENDS Integers

CONSTANTS Dates,   \* the dates that are sent, in milliseconds
          Unset    \* not a timestamp and not a date

ASSUME DatesAssumption == Dates \subseteq Int /\ Unset \notin Int

VARIABLES sent,    \* the Date passed to dateToTimestamp
          message, \* the Timestamp on the wire
          received \* the Date timestampToDate returns

timestamp == <<sent, message, received>>

\* JavaScript's %, which takes the sign of the dividend.
Remainder(a, b) == IF a >= 0 THEN a % b ELSE -((-a) % b)

dateToTimestamp(ms) ==
  [seconds |-> ms \div 1000, nanos |-> Remainder(ms, 1000) * 1000000]

\* [mutant] the fraction is dropped
timestampToDateWhole(t) == t.seconds * 1000

\* seconds * 1000 + nanos / 1e6; a Date truncates its value towards zero.
timestampToDate(t) ==
  LET whole == t.seconds * 1000 + t.nanos \div 1000000
  IN IF whole < 0 /\ t.nanos % 1000000 # 0 THEN whole + 1 ELSE whole

-----------------------------------------------------------------------------
InitTimestamp ==
  /\ sent \in Dates
  /\ message = Unset
  /\ received = Unset

Encode ==
  /\ message = Unset
  /\ message' = dateToTimestamp(sent)
  /\ UNCHANGED <<sent, received>>

Decode ==
  /\ message # Unset /\ received = Unset
  /\ received' = timestampToDate(message)
  /\ UNCHANGED <<sent, message>>

TimestampNext == Encode \/ Decode

TimestampSpec == InitTimestamp /\ [][TimestampNext]_timestamp
-----------------------------------------------------------------------------
(* Properties *)

\* What google.protobuf.Timestamp asks of its fields: nanos counts forward from
\* the second, also before 1970.
ValidTimestamp ==
  message # Unset => 0 <= message.nanos /\ message.nanos < 1000000000

\* README.md: the subset protobuf can represent faithfully.  The Date that
\* arrives is the Date that was sent.
RoundTrip == received # Unset => received = sent
=============================================================================
