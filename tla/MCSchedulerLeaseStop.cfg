\* One process that is stopped while its tick asks for the lease: expected to be
\* violated.
SPECIFICATION Spec
CONSTANTS
  Procs = {p1}
  Names <- TickOnly
  NoOwner = NoOwner
  Stale = 4
  Delay = 1
  Period = 1
  MaxStarts = 1
INVARIANT ReleasedByShutdown
