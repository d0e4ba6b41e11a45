CONSTANTS
  HighWater = 2
  MaxMessages = 4
  MaxItems = 4
SPECIFICATION SpecGateways
CHECK_DEADLOCK FALSE
INVARIANTS
  WireGrammar
  BoundedBuffer
  ForwardTruthfulTrailer
  DirectOkMeansComplete
  DirectStreamReleased
  DirectPulledOnDemand
PROPERTIES
  AbortReturns
  HandlersReturn
