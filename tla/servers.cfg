CONSTANTS
  MaxCalls = 3
  Paths = {"get", "sub"}
  Streams = {"sub"}
  Codes = {"NOT_FOUND"}
  Calls = {c1, c2}
  Errors = {"NOT_FOUND", "Error"}
  MaxItems = 2
  Connections = {x1, x2}
  Ports = {0, 80, 50052, 70000}
  Origins = {"o1", "o2"}
  Custom = {"x-token"}
  Spelled <- TokenSpelled
  None = None
  Byte = 16
  Digit = 8
  Bodies <- TwoFrames
  MaxCut = 2
  ChunkSizes = {1, 2, 3, 5}
  Tokens = {"a", "SP", "%", "CRLF", ":", "uni", "0", "grpc-status"}
  MaxLength = 3
  Statuses = {"0", "13"}
  TrailerNames = {"grpc-status", "grpc-message", "x-a"}
  TrailerValues <- SomeMetadata
SPECIFICATION Spec
CHECK_DEADLOCK FALSE
INVARIANTS
  Matched
  HonestEnd
  StreamsReleased
  ClientServes
  OriginsKept
  FetchServed
  Reassembled
  Prompt
  StatusKept
PROPERTIES
  BatchSettles
  ClosesSettle
