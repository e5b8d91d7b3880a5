CONSTANTS
  States <- MCStates
  SysStates <- MCSysStates
  AutStates <- MCAutStates
  AP <- MCAP
  Models <- MCModels
  Automata <- MCAutomata
  Commands <- MCCommands
  Calls <- MCCalls
SPECIFICATION Spec
CHECK_DEADLOCK FALSE
INVARIANTS
  AnswersAreCorrect
  AggregatesAreTheProduct
  FairSetsAreKept
  ResultIsFair
PROPERTIES
  Terminates
