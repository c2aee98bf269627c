SPECIFICATION Spec
CONSTANTS
  Branches = {main, dev, detached}
  Detached = detached
  UserChanges = {u1}
  MaxUser = 2
  MaxRestarts = 1
INVARIANTS
  SkippedIsTrue
CHECK_DEADLOCK FALSE
