\* Two logins at a time and a third one that waits; two exits.
SPECIFICATION Spec
CONSTANTS
  Threads = {t1, t2, t3}
  u = u
  NoRequest = NoRequest
  Keys <- AllKeys
  Requests <- Logins
  FailMax <- Limits
  ExitCount = 2
  Gate = 2
  MaxCaptcha = 2
SYMMETRY Symmetry
INVARIANTS TypeOK CooldownHolds PauseHolds
