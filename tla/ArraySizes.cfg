CONSTANTS
  NoNode = NoNode
  NoPart = NoPart
  None = NoPart
  LibFuncs <- MCLibFuncs
  Programs <- SizePrograms
SPECIFICATION ArraySpec
INVARIANT
  AllocationFits
CHECK_DEADLOCK FALSE
