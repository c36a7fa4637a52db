CONSTANTS
  Programs <- BodyPrograms
  Nodes <- MCNodes
  NoArg = NoArg
  Block = {b1, b2, b3, b4, b5, b6, b7, b8, b9, b10, b11, b12, b13, b14}
  Proc = {"main", "f", "g"}
  NoBlock = NoBlock
  NoProc = NoProc
  MaxDepth = 12
SPECIFICATION EmitterSpec
PROPERTY WritesStay
CHECK_DEADLOCK FALSE
