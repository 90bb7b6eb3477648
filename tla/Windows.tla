------------------------------ MODULE Windows ------------------------------
(***************************************************************************)
(* The times of day in app/validate.py and app/scheduler.py: an account    *)
(* has the window in which the school takes check-ins (checkin_start to    *)
(* checkin_end, over midnight when the end is the earlier one) and a start *)
(* time its user set (not_before).  The scheduler and the pages ask the    *)
(* same question, whether an account is due, of two pieces of code that    *)
(* count differently: _ready compares moments, account_window_state        *)
(* compares minutes of the day.                                            *)
(*                                                                         *)
(* A time is a minute of a day of Day minutes; a moment is a half minute   *)
(* of today, so that a moment is on a minute or between two.               *)
(***************************************************************************)
EXTENDS Integers

CONSTANTS
  Day,           \* minutes in a day, 1440
  CheckinStart,  \* cfg.config.checkin_start
  NoWindow,      \* checkin_start and checkin_end are not both there
  NoTime         \* not_before is not set

Minutes == 0..(Day - 1)
Moments == 0..(2 * Day - 1)
Minute(now) == now \div 2
WindowTypes == [from : Minutes, to : Minutes]

ASSUME DayAssumption == Day \in Nat \ {0} /\ CheckinStart \in Minutes
ASSUME NoTimeAssumption == NoWindow \notin WindowTypes /\ NoTime \notin Minutes

\* What not_before_error has an objection to.
NotBeforeError(w, own) ==
  /\ w # NoWindow /\ own # NoTime
  /\ \/ w.from < w.to /\ (own < w.from \/ w.to < own)
     \/ w.to < w.from /\ w.to < own /\ own < w.from

\* before_account_start
BeforeOwn(own, minute) == own # NoTime /\ minute < own

\* account_window_state, which the pages show.
PageState(w, own, minute) ==
  LET over == w # NoWindow /\ w.from <= w.to /\ w.to < minute
      early == \/ w # NoWindow /\ w.from <= w.to /\ minute < w.from
               \/ w # NoWindow /\ w.to < minute /\ minute < w.from
               \/ minute < CheckinStart \/ BeforeOwn(own, minute)
  IN  IF over THEN "after" ELSE IF early THEN "before" ELSE "inside"

\* Mutant: after midnight, the window of today instead of yesterday's.
BoundsOfToday(w, now) ==
  LET from == 2 * w.from
      to == 2 * w.to
  IN  IF from < to THEN [from |-> from, to |-> to] ELSE [from |-> from, to |-> to + 2 * Day]

\* _daily_bounds and _window_bounds, as moments relative to today.
DailyBounds == [from |-> 2 * CheckinStart, to |-> 2 * Day - 1]
WindowBounds(w, now) ==
  LET from == 2 * w.from
      to == 2 * w.to
  IN  IF from < to THEN [from |-> from, to |-> to]
      ELSE IF now < from THEN [from |-> from - 2 * Day, to |-> to]
      ELSE [from |-> from, to |-> to + 2 * Day]
Bounds(w, now) == IF w = NoWindow THEN DailyBounds ELSE WindowBounds(w, now)

\* The part of _ready that is about the time.
Due(w, own, now) ==
  /\ CheckinStart <= Minute(now) /\ ~BeforeOwn(own, Minute(now))
  /\ Bounds(w, now).from <= now /\ now <= Bounds(w, now).to
-----------------------------------------------------------------------------
\* How the pages and the scheduler differ, and no more than that.  The pages take the last
\* minute of a window for inside, the scheduler stops when it begins.  A window that ends at
\* the minute it begins is that minute for the pages and the whole day for the scheduler.
\* At any other moment an account is pending on the pages exactly if it may be picked.
Agree(w, own) ==
  \A now \in Moments :
    LET pending == PageState(w, own, Minute(now)) = "inside"
    IN  IF w # NoWindow /\ w.from = w.to
        THEN pending <=> Due(w, own, now) /\ Minute(now) = w.to
        ELSE Due(w, own, now)
               <=> pending /\ (w # NoWindow /\ Minute(now) = w.to => now = 2 * w.to)

\* The scheduler may pick the account in the whole of a minute.
DueThroughout(w, own, minute) == Due(w, own, 2 * minute) /\ Due(w, own, 2 * minute + 1)

\* The start time is the minute at which the window ends.  not_before_error accepts it.
AtEnd(w, own) == w # NoWindow /\ w.from < w.to /\ own = w.to

\* The own start time leaves a minute of the day in which the scheduler may pick the account,
\* if the window does so without it.  At the end of the window it leaves one moment only, in
\* the code the first second of that minute.
LeavesTime(w, own) ==
  (\E m \in Minutes : DueThroughout(w, NoTime, m)) =>
    IF AtEnd(w, own) THEN \A now \in Moments : Due(w, own, now) <=> now = 2 * w.to
    ELSE \E m \in Minutes : DueThroughout(w, own, m)
=============================================================================
