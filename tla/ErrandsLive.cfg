SPECIFICATION FairSpec
CONSTANTS
  hello = hello
  there = there
  Hooks = {hello, there}
  Carries <- TwoMessages
  WebMessages = {}
  Procs = {p1, p2}
  PoolSize = 2
  Nobody = Nobody
  Tasks = {t}
  Dispatchers = {w1, w2}
  NoTask = NoTask
  TaskAttempts = 2
  MaxClock = 3
  DispatchersDie = FALSE
  ActionsFail = FALSE
  Messages = {m1}
  Wakes = {e}
  Speakers = {w1, w2}
  NoSource = NoSource
  FollowUpAttempts = 2
  Outages = FALSE
PROPERTIES
  ErrandsEnd
  TurnsEnd
CHECK_DEADLOCK FALSE
