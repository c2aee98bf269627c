SPECIFICATION Spec
CONSTANTS
  Jobs = {j1}
  Tasks = {t1, t2}
  Numbers = {1, 2}
  Commits = {c1}
  Dossiers = {d1, d2}
  NoCommit = NoCommit
  NoDossier = NoDossier
SYMMETRY LifeSymmetry
INVARIANTS
  WorkOnlyWhileActive
  OneRunningAttempt
  PublicationAgrees
  RecoveryIsTotal
PROPERTIES
  HistoryIsKept
  ImplementsLedger
CHECK_DEADLOCK FALSE
