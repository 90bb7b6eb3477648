\* Three operations at a time of two users on two students, one account per user.
SPECIFICATION Spec
CONSTANTS
  Threads = {t1, t2, t3}
  Users = {u1, u2}
  Students = {s1, s2}
  SchoolWindows <- Three
  OwnTimes <- Times
  Day = 5
  CheckinStart = 1
  NoWindow = NoWindow
  NoTime = NoTime
  MaxAccounts = 1
  MaxIds = 2
  MaxAsks = 3
  NoRow = NoRow
  NoThread = NoThread
  NoKey = NoKey
  NoUser = NoUser
  NoStudent = NoStudent
  Kept = Kept
SYMMETRY Alike
INVARIANTS TypeOK OneAccountPerStudent QuotaKept TimeLeft WindowsAgree NoCircularWait
\* When MaxAsks operations are over, nothing is left to do.
CHECK_DEADLOCK FALSE
