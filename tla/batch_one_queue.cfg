CONSTANTS
  c1 = c1
  c2 = c2
  c3 = c3
  c4 = c4
  f1 = f1
  f2 = f2
  NoFlush = NoFlush
  Calls <- FourCalls
  Flushes <- TwoFlushes
  OpType <- Queries
  MaxItems = 2
  Surplus = 1
SPECIFICATION Spec
SYMMETRY QuerySymmetry
CHECK_DEADLOCK FALSE
INVARIANTS
  TypeOK
  NoLostCall
  AbortOnlyWhenUnused
  HeldOnce
  WellFormedBatch
PROPERTIES
  LastCancelAborts
  KeepsPromise
