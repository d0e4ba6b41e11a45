CONSTANTS
  Roots = {Req}
  Names = {a, b}
  Value = b
  NoName = NoName
  Kinds = {"object"}
  MaxDepth = 4
  MaxTag = 2
  Withheld = {}
SPECIFICATION Spec
INVARIANTS
  DistinctNumbers
