CONSTANTS
  Programs <- MCPrograms
  Nodes <- MCNodes
  MaxCalls = 3
  NoValue = NoValue
  NoPlace = NoPlace
SPECIFICATION Spec
INVARIANTS
  TypeOK
  ContextsBalanced
  ExpressionsYieldValues
PROPERTIES
  StepsAsStructured
  ImplementsStructured
