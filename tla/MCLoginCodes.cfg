\* Two requests at a time, three codes, and more than a day: the cooldown, the quota,
\* the attempts and the sessions all reach their limits.
SPECIFICATION Spec
CONSTANTS
  Threads = {t1, t2}
  NoCode = NoCode
  Cooldown = 1
  Day = 3
  DailyMax = 2
  CodeLife = 2
  MaxAttempts = 2
  MaxSessions = 2
  SessionLife = 2
  MaxCodes = 3
  MaxTime = 4
SYMMETRY Symmetry
INVARIANTS TypeOK CodesSpaced DailyLimit OneSessionPerCode GuessesBounded SessionsKept
