SPECIFICATION Spec
CONSTANTS
  Tasks = {t1, t2}
  NoTask = NoTask
  MaxAttempts = 2
  MaxRuns = 2
  Scenarios <- MCScenarios
INVARIANTS
  OnlyVerifiedRemains
  CompletedIsIntegrated
PROPERTIES
  StartsClean
  KeepsCompleted
  ImplementsAtomicIntegration
  LockIsReleased
CHECK_DEADLOCK FALSE
