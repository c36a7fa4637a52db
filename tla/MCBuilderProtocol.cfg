CONSTANTS
  Block = {b1, b2, b3}
  Proc = {p1, p2}
  NoBlock = NoBlock
  NoProc = NoProc
  MaxDepth = 3
SPECIFICATION ProtocolSpec
INVARIANTS
  ProtocolTypeOK
  EdgesWithinProcedure
  PopsRestore
PROPERTY HeadStays
SYMMETRY Symmetry
CHECK_DEADLOCK FALSE
