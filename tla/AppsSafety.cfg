SPECIFICATION Spec
CONSTANTS
  ann = ann
  ben = ben
  browser = browser
  rec0 = rec0
  rec1 = rec1
  rec2 = rec2
  key1 = key1
  key2 = key2
  key3 = key3
  Users = {ann, ben}
  Sessions = {browser, s2}
  Tickets = {t1}
  Records = {rec0, rec1, rec2}
  Seeds = {rec0}
  Keys = {key1, key2, key3}
  Calls <- AllCalls
  Manifests <- BothManifests
  Handlers = {h1, h2}
  Nothing = Nothing
  MaxRecords = 2
  MaxBytes = 2
  MaxPerActor = 2
  MaxPerApp = 2
  MaxRedemptions = 1
  People = {n1, n2}
  Rows = {i, j, l}
  Servers = {x, y}
SYMMETRY Symmetry
INVARIANTS
  TypeOK
  WithinLimits
PROPERTIES
  CommitsUnderAuthority
  MutationsTakeEffectOnce
  SoundUnlessRaced
CHECK_DEADLOCK FALSE
