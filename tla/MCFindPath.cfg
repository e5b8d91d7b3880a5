CONSTANTS
  States <- MCStates
  NbTrans = 2
  TransChoices <- MCTransChoices
  Queries <- MCQueries
SPECIFICATION FairSpec
INVARIANTS
  LayersAreDistances
  ForwardNeverStuck
  WitnessIsShortest
  PreciseLinks
  FailureIsJustified
PROPERTY Terminates
