SPECIFICATION SchedulesFairSpec
CONSTANTS
  Tasks = {t}
  Dispatchers = {w1}
  NoTask = NoTask
  TaskAttempts = 2
  MaxClock = 2
  DispatchersDie = TRUE
  ActionsFail = TRUE
PROPERTIES
  SurvivesRestarts
CHECK_DEADLOCK FALSE
