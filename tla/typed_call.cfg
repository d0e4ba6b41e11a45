CONSTANTS
  MaxFrames = 3
  HttpStatuses = {401, 503}
  Chains <- ChainsOfTwo
SPECIFICATION FairSpec
CHECK_DEADLOCK FALSE
INVARIANTS
  InOrder
  Released
PROPERTIES
  TruthfulCompletion
  Settles
