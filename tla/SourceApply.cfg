SPECIFICATION Spec
CONSTANTS
  Branches = {main, dev, detached}
  Detached = detached
  UserChanges = {u1}
  MaxUser = 3
  MaxRestarts = 2
INVARIANTS
  VerdictIsTrue
PROPERTIES
  NeverRewrites
  ImplementsAtomicApply
  Publishes
CHECK_DEADLOCK FALSE
