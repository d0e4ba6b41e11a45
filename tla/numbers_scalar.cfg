CONSTANTS
  Roots = {Req}
  Names = {a, b}
  Value = b
  NoName = NoName
  Kinds = {"object", "scalar"}
  MaxDepth = 1
  MaxTag = 2
  Withheld = {}
SPECIFICATION Spec
INVARIANTS
  StableNumbers
