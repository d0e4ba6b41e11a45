CONSTANTS
  Roots = {Req}
  Names = {a, b}
  Value = b
  NoName = NoName
  Kinds = {"object", "union"}
  MaxDepth = 2
  MaxTag = 3
  Withheld = {2}
  KindsRoots = {Req, Res}
  KindsKinds = {"object", "scalar"}
  Dates <- SomeDates
  Unset = Unset
  Sources <- Written
  MaxNumber = 4
  Routers <- Carried
  Half = 4
SPECIFICATION SpecSchema
CHECK_DEADLOCK FALSE
INVARIANTS
  StableNumbers
  DistinctNumbers
  DeletedReserved
  NumbersKept
  RoundTrip
  ValidText
  ReadsBack
  ValuesSurvive
