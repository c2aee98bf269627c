SPECIFICATION Spec
CONSTANTS
  t1 = t1
  t2 = t2
  t3 = t3
  Fallback = t1
  None = None
  Tasks = {t1}
  Proposals <- MCProposals
  Scenarios <- Twice
  MaxParallel = 1
  MaxAttempts = 1
  MaxRuns = 1
  AutoApply = TRUE
  ReconcileMayFail = FALSE
PROPERTIES
  StopSettlesDown
CHECK_DEADLOCK FALSE
