\* The job tick, in two processes side by side or one after the other, and a process
\* more: owners that die, stop, come back under their name or are replaced by another.
\* A lease lasts four scan periods, a statement on the row up to one.
SPECIFICATION FairSpec
CONSTANTS
  Procs = {p1, p2}
  Names <- TickOnly
  NoOwner = NoOwner
  Stale = 4
  Delay = 1
  Period = 1
  MaxStarts = 3
INVARIANTS TypeOK AloneAtWork
PROPERTY WorkGoesOn
