SPECIFICATION Spec
CONSTANTS
  Pumps <- MCPumps
  Commands = 1
  MaxCancels = 0
INVARIANTS
  CancelledOnlyByCaller
CHECK_DEADLOCK FALSE
