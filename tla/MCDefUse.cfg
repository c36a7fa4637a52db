CONSTANTS
  Block = {b1, b2}
  Inst = {i1, i2}
  Symbol = {s1, s2, s3}
  Outer = {}
  Im = {im}
  NoSymbol = NoSymbol
  NoInst = NoInst
  Kinds = {"plain", "store"}
  MaxArgs = 2
SPECIFICATION Spec
INVARIANTS
  TypeOK
  UsesExact
  DefinesExact
  UsageFindsDefinition
  ParamsTracked
SYMMETRY Symmetry
CHECK_DEADLOCK FALSE
