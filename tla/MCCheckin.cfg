\* The scheduler and one user of a hosted account: two runs, two days, an hour before
\* and one after checkin_start, a window that is learnt and crosses midnight, one call
\* of the user and one restart, anywhere.  Limits smaller than the code's are reached.
SPECIFICATION Spec
CONSTANTS
  Sched = sched
  Web = {web}
  Nobody = nobody
  NoTask = NoTask
  Exits = 1
  MaxRounds = 2
  MaxAttempts = 1
  MaxHour = 1
  CheckinStart = 1
  Windows <- Night
  NoWindow = NoWindow
  MaxDay = 2
  MaxRuns = 2
  MaxCalls = 1
  MaxCrashes = 1
INVARIANTS TypeOK PendingBlocksSubmit RecordedOnce SuccessIsTrue AttemptsBounded SwitchedOffNotSubmitted
PROPERTIES SettledNotOverwritten LastRunMonotone OutcomeNotLost
