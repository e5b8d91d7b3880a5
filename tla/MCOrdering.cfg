CONSTANTS
  Variables <- MCVariables
  Files <- MCFiles
SPECIFICATION LoadSpec
INVARIANTS
  StatesAreComplete
  SectionsAreApplied
