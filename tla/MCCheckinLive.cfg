\* Liveness from the creation of the account on, within one day, where neither midnight
\* nor the purge ends a pending verification, with VERIFY_MAX_ROUNDS as in the code.
SPECIFICATION FairSpecFromCreation
CONSTANTS
  Sched = sched
  Web = {web}
  Nobody = nobody
  NoTask = NoTask
  Exits = 2
  MaxRounds = 3
  MaxAttempts = 1
  MaxHour = 1
  CheckinStart = 1
  Windows = {}
  NoWindow = NoWindow
  MaxDay = 1
  MaxRuns = 2
  MaxCalls = 2
  MaxCrashes = 1
PROPERTIES PendingResolved CallsReturn
