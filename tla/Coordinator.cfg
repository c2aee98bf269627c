SPECIFICATION CoordinatorSpec
CONSTANTS
  w1 = w1
  w2 = w2
  r1 = r1
  Clients <- MCClients
  Others <- Runners
  Repo <- MCRepo
  MaxWorkers = 2
  MaxVisits <- MCVisits
  Committers <- MCCommitters
INVARIANTS
  MutualExclusion
  StatisticsAreExact
PROPERTIES
  CancellationIsKept
  EveryWaitEnds
