CONSTANTS
  ArraySize <- MCArraySize
  Programs <- MCDelayPrograms
  Orders <- MCOrders
  Preds <- MCPreds
  Taus <- MCTaus
  Reversible <- MCReversible
  Systems = {}
  Circuits <- MCDelays
SPECIFICATION Spec
INVARIANTS
  TranslationsAreExact
CHECK_DEADLOCK FALSE
