CONSTANTS
  Programs <- LoopPrograms
  Plain <- LoopPrograms
  Runnable <- LoopPrograms
  Nodes <- MCNodes
  NoArg = NoArg
  NoValue = NoValue
  MaxCalls = 3
  Block = {b1, b2, b3, b4, b5, b6, b7, b8, b9, b10, b11, b12, b13, b14, b15, b16, b17, b18, b19, b20}
  Proc = {"main", "f", "g", "h", "v"}
  NoBlock = NoBlock
  NoProc = NoProc
  MaxDepth = 12
SPECIFICATION RunSpec
INVARIANT Agreement
