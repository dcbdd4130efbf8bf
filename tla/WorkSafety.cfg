SPECIFICATION Spec
CONSTANTS
  a = a
  b = b
  Executors = {e1, e2}
  Requests <- TwoRequests
  NoOne = NoOne
  Jobs = {j1, j2}
  Workers = {w1, w2}
  Facts = {f1, f2}
  Claims = {a, b}
  Links <- Linked
  Operations <- Learned
  MaxAttempts = 2
  RecallLimit = 1
  NoJob = NoJob
  NoFact = NoFact
  NoClaim = NoClaim
  Acceptance = {formA, formB}
  MaxRepairs = 2
  MaxReviews = 2
  Tasks = {t}
  Dispatchers = {w1, w2}
  NoTask = NoTask
  TaskAttempts = 3
  MaxClock = 3
  DispatchersDie = TRUE
  ActionsFail = TRUE
  Messages = {m1, m2}
  Wakes = {}
  Speakers = {w1, w2}
  NoSource = NoSource
  FollowUpAttempts = 2
  Outages = TRUE
SYMMETRY Symmetry
INVARIANTS
  TypeOK
  BuildsAreVerified
PROPERTIES
  CallsTakeEffectOnce
  MemoryIsTheUsers
  ErrandsAreDone
  CancellationsHold
  ReplyGoesFirst
  TellingSpec
CHECK_DEADLOCK FALSE
