CONSTANTS
  Dates <- Before1970
  Unset = Unset
SPECIFICATION TimestampSpec
CHECK_DEADLOCK FALSE
INVARIANTS
  RoundTrip
