\* The creation of an account against the scheduler: expected to be violated.
SPECIFICATION SpecFromCreation
CONSTANTS
  Sched = sched
  Web = {web}
  Nobody = nobody
  NoTask = NoTask
  Exits = 1
  MaxRounds = 2
  MaxAttempts = 1
  MaxHour = 1
  CheckinStart = 1
  Windows = {}
  NoWindow = NoWindow
  MaxDay = 1
  MaxRuns = 2
  MaxCalls = 1
  MaxCrashes = 0
PROPERTY SettledNotOverwritten
