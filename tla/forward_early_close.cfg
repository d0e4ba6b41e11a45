CONSTANTS
  HighWater = 2
  MaxMessages = 1
SPECIFICATION Spec
CHECK_DEADLOCK FALSE
INVARIANTS
  ClosedCallIsCancelled
