CONSTANTS
  Roots = {Req}
  Names = {a, b}
  Value = b
  NoName = NoName
  Kinds = {"object"}
  MaxDepth = 3
  MaxTag = 2
  Withheld = {}
SPECIFICATION Spec
INVARIANTS
  DeletedReservedAnywhere
