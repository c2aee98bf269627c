SPECIFICATION Spec
CONSTANTS
  Pumps <- MCPumps
  Commands = 2
  MaxCancels = 2
INVARIANTS
  NobodySurvives
  NothingIsLeftBehind
PROPERTIES
  NothingPassesUnproven
  RunsEnd
CHECK_DEADLOCK FALSE
