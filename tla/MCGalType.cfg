CONSTANTS
  ArraySize <- MCArraySize
  Programs <- MCPrograms
  Orders <- MCOrders
  Preds <- MCPreds
  Taus <- MCTaus
  Reversible <- MCReversible
  Systems <- MCSystems
  Circuits <- MCCircuits
SPECIFICATION Spec
INVARIANTS
  TranslationsAreExact
  SuccessorsAreExact
  PredicatesAreExact
  PredecessorsAreExact
CHECK_DEADLOCK FALSE
