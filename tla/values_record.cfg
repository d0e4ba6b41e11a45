CONSTANTS
  Roots = {Req}
  Names = {a, b}
  Value = b
  NoName = NoName
  Kinds = {"object", "union"}
  MaxDepth = 2
  MaxTag = 3
  Withheld = {2}
  KindsRoots = {Req, Res}
  KindsKinds = {"object", "scalar"}
  Dates <- SomeDates
  Unset = Unset
  Sources <- Written
  MaxNumber = 4
  Routers <- RecordAlone
  Half = 4
SPECIFICATION SpecValues
CHECK_DEADLOCK FALSE
INVARIANTS
  ValuesSurvive
