CONSTANTS
  Names = {a, b}
  Infos = {i1, i2}
  NodeKinds = {k}
  NoNode = NoNode
  Unbound = Unbound
  MaxEnvs = 3
  MaxEntries = 3
  MaxNodes = 1
SPECIFICATION TreeSpec
INVARIANTS
  StoreOK
  LookupsAgree
PROPERTY
  ImplementsScoping
CHECK_DEADLOCK FALSE
SYMMETRY Interchangeable
