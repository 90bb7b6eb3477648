\* Two accounts, the tick and one request, two new faults or cancelled start times
\* and a restart.  With two attempts a notice is queued, retried and used up.
SPECIFICATION FairSpec
CONSTANTS
  Ids <- TwoAccounts
  Sched = sched
  Web = {web}
  Nobody = nobody
  NoRow = NoRow
  NoId = 0
  MaxAttempts = 2
  RetryGap = 1
  DueCap = 1
  MaxCrashes = 1
  MaxChanges = 2
INVARIANTS TypeOK MailsBounded NoMailAfterRecovery FaultReported
PROPERTY NoticesMove
