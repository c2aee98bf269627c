SPECIFICATION Spec
CONSTANTS
  t1 = t1
  t2 = t2
  t3 = t3
  Fallback = t3
  None = None
  Tasks = {t1, t2, t3}
  Proposals <- MCProposals
  Scenarios <- All
  MaxParallel = 2
  MaxAttempts = 1
  MaxRuns = 3
  AutoApply = TRUE
  ReconcileMayFail = TRUE
SYMMETRY Symmetry
INVARIANTS
  OrderlyEnd
  
  DependenciesFirst
  DagNeverStalls
  ValidationIsExact
PROPERTIES
  StopIsSticky
CHECK_DEADLOCK FALSE
