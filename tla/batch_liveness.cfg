CONSTANTS
  c1 = c1
  c2 = c2
  c3 = c3
  c4 = c4
  f1 = f1
  f2 = f2
  NoFlush = NoFlush
  Calls <- ThreeCalls
  Flushes <- TwoFlushes
  OpType <- TwoAndOne
  MaxItems = 1
  Surplus = 0
SPECIFICATION FairSpec
CHECK_DEADLOCK FALSE
PROPERTIES
  Answered
