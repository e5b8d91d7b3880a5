CONSTANTS
  States <- MCStates
  NbTrans = 2
  TransChoices <- MCTransChoices
  Queries <- MCQueries
SPECIFICATION FairSpec
INVARIANTS
  PrintedInOrder
  AllArePrinted
PROPERTY Terminates
