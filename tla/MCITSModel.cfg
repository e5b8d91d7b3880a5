CONSTANTS
  States <- MCStates
  NbTrans = 2
  TypeNames = {"P", "Q"}
  Labels = {"init", "other"}
  Definitions <- MCDefinitions
  Unset = ""
  NoModel = NoModel
  Staged = TRUE
SPECIFICATION Spec
INVARIANTS
  ReachedIsCurrent
  PredRelIsCurrent
