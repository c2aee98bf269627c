SPECIFICATION Spec
CONSTANTS
  Files = {f1, f2}
  NoFile = NoFile
  MaxParts = 2
  MaxCycles = 2
  MaxAgents = 2
  Verdicts = {"pass", "told"}
INVARIANTS
  FailClosed
  GatedAsAccepted
PROPERTIES
  AuditEnds
CHECK_DEADLOCK FALSE
