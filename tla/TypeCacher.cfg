CONSTANTS
  Orders = {1, 2}
  StateLabels = {"init"}
  TransLabels = {"a", "b"}
  Private = {"b"}
  Taus <- LabelsAndPairs
  Disciplined = TRUE
SPECIFICATION CacheSpec
INVARIANTS
  CachesAreCurrent
PROPERTY Transparent
