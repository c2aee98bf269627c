SPECIFICATION Spec
CONSTANTS
  t1 = t1
  t2 = t2
  t3 = t3
  Fallback = t1
  None = None
  Tasks = {t1}
  Proposals <- MCProposals
  Scenarios <- Single
  MaxParallel = 1
  MaxAttempts = 2
  MaxRuns = 3
  AutoApply = TRUE
  ReconcileMayFail = FALSE
PROPERTIES
  StopSettlesDown
  JobEnds
  AcceptedCompletes
CHECK_DEADLOCK FALSE
