CONSTANTS
  Block = {b1, b2, b3}
  Proc = {p1, p2}
  NoBlock = NoBlock
  NoProc = NoProc
  MaxDepth = 2
SPECIFICATION Spec
INVARIANTS
  TypeOK
  EdgesMatch
  HeadInGraph
  GraphsDisjoint
SYMMETRY Symmetry
