CONSTANTS
  Nets <- MCNets
  Hierarchies <- MCHierarchies
  AgeBound = 4
  MaxTokens = 2
SPECIFICATION HSpec
INVARIANTS
  StepsAreExact
  HierarchyIsTheNet
PROPERTY KeepsTime
CHECK_DEADLOCK FALSE
