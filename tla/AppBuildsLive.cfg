SPECIFICATION FairSpec
CONSTANTS
  a1 = a1
  a2 = a2
  w = w
  Apps = {a1, a2}
  Jobs = {1, 2}
  Processes = {p1, p2}
  WorkerIds = {w}
  Entities = {}
  None = None
  AppOf <- TwoApps
  WorkerIdOf <- SharedWorkerId
  Manifest <- OneManifest
  Seed <- NoSeed
  MaxBuildAttempts = 2
  MaxLiveBuilds = 2
  MaxActiveApps = 2
  MaxVersion = 2
PROPERTIES
  EveryBuildSettles
CHECK_DEADLOCK FALSE
