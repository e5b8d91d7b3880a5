CONSTANTS
  States <- MCStates
  NbTrans = 2
  Props <- MCProps
  Forms <- MCForms
  Label <- MCLabel
  Models <- MCModels
  Commands <- MCCommands
  One = {0}
SPECIFICATION ExplainSpec
INVARIANTS
  AnswersAreCorrect
  StatesAreExact
  DeadAreStuck
  ExplanationsAgree
  PathsAreTraces
  ExplainedAreInputs
PROPERTIES
  ExplainingEnds
