SPECIFICATION Spec
CONSTANTS
  a1 = a1
  a2 = a2
  w = w
  Apps = {a1}
  Jobs = {1, 2, 3}
  Processes = {p1, p2}
  WorkerIds = {w}
  Entities = {"task", "note"}
  None = None
  AppOf <- OneApp
  WorkerIdOf <- SharedWorkerId
  Manifest <- GrowingManifest
  Seed <- TaskSeed
  MaxBuildAttempts = 2
  MaxLiveBuilds = 3
  MaxActiveApps = 2
  MaxVersion = 4
SYMMETRY ProcessSymmetry
INVARIANTS
  TypeOK
  QueueIsSound
  DeploymentIsSound
PROPERTIES
  StepsAreSound
  LedgerSpec
CHECK_DEADLOCK FALSE
