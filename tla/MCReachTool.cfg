CONSTANTS
  States <- MCStates
  NextChoices <- MCNextChoices
  Commands <- MCCommands
  Value <- MCValue
SPECIFICATION FairSpec
INVARIANTS
  VerdictsAreCorrect
  SearchedIsEnough
  TracesExist
  BoundIsMaximum
PROPERTY Terminates
