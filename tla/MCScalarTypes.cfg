CONSTANTS
  Sets <- MCSets
  BaseLabels <- MCBaseLabels
  Base <- MCBase
  CompareUpTo = 6
SPECIFICATION Spec
CHECK_DEADLOCK FALSE
INVARIANTS
  MeansFlatProduct
