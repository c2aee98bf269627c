SPECIFICATION Spec
CONSTANTS
  Daemons = {"daemon", "second"}
  Tools = {"dossier"}
  Nobody = "nobody"
  Current = 4
  OldVersions <- MCVersions
  MaxCrashes = 1
  MaxStops = 1
INVARIANTS
  VersionIsTrue
  SocketLeadsToTheWorker
PROPERTIES
  UpgradesAreSaved
  ComesUp
