CONSTANTS
  NoNode = NoNode
  NoPart = NoPart
  None = NoPart
  LibFuncs <- MCLibFuncs
  Programs <- MCPrograms
SPECIFICATION ArraySpec
INVARIANTS
  BuilderTypeOK
  EnvsFollowTree
  ExtentsAreStatic
  LateLookupsAgree
  ConversionsMade
  ArraysInitialised
  ConstReadsAgree
  LocalElementsApart
CHECK_DEADLOCK FALSE
