# A TLA+ model of csu_dk

csu_dk hosts student accounts of Central South University and makes their
evening dormitory check-in for them: a FastAPI server with a SQLite database, a
scheduler in a thread of the same process, and HTTP clients for the campus login
(CAS) and the school's check-in service (zhxg).  This directory models the parts
of `src/app/` whose correctness depends on the order in which things happen, checks
them with TLC on small instances and proves the main results with TLAPS.

## Inventory

| Component | Source | State | Operations | Hard because |
|---|---|---|---|---|
| Keyed locks | `locks.py` | the registry `_locks` of reference-counted locks | `lock_for` | entries are filed and dropped while other threads are between two statements |
| Check-in runs | `checkin.py` | `records`, `verifications`, the login and `last_*` columns of `accounts` | `run_checkin`, `resolve_verification`, `relogin`, `refresh_login` | threads of requests and of the scheduler, an upstream whose answers get lost, midnight, restarts between writes |
| Scheduler, choice of accounts | `scheduler.py` | none of its own; reads the database | `tick`, `run_verifications`, `run_batch`, `refresh_logins`, `maintenance` | works on snapshots; counts attempts per window |
| Scheduler, lease | `scheduler.py`, `db.py` | `scheduler_lease`, `_lease_owner`, `_scheduler` | `start_scheduler`, `stop_scheduler`, `_holds_lease` | several processes, death of the owner, time read before it is written |
| Hosted accounts | `accounts.py` | `accounts` | `create_or_update`, `update`, `set_enabled`, `toggle_enabled`, `delete` | share the account with runs; quota and uniqueness are checked before a login of seconds |
| Store | `db.py`, `schema.sql` | the database | statements, `transaction()` | what is one transaction and what is not; triggers decide races |
| Login guards | `checkin.py`, `ratelimit.py` | cooldowns, sliding windows, the pause of logins, in memory | `cas_login`, `pause_logins` | compared before a login, counted after it |
| Exits | `exits.py`, `csu/zhxg.py` | the proxies and their cooldowns | `current`, `mark_frozen`, `mark_unreachable` | several threads rotate one list, a login tries a second exit |
| Notices | `notifications.py`, `mailer.py` | `credential_notices`, `schedule_notices` | `send_*_notice`, `retry_*_notices` | mails are sent between two statements; retries; restarts |
| Login codes and sessions | `auth.py` | `login_codes`, `sessions`, `users` | `request_code`, `verify_code`, sessions | one code, many requests |
| Building coordinates | `buildings.py`, `checkin.py` | a learnt cache in a file, coordinates of accounts | `resolve`, `for_student`, `learn` | all accounts share what is learnt; read, change, write without a lock |
| Time windows | `validate.py`, `clock.py` | none | pure | windows that cross midnight, `not_before` |
| Campus client | `csu/*.py` | HTTP sessions | login, captcha, DES | I/O and conversions, no shared state |
| Pages, API, configuration, secrets, logs | `main.py`, `ui.py`, `views.py`, `config.py`, ... | none that matters here | rendering, routing | not concurrent state machines |

How they interact: a request and the scheduler's tick call the same functions of
`checkin.py` and `accounts.py`, in different threads.  They meet in the rows of one
account, and the only thing between them is the lock `account:<id>` of `locks.py`.
Several server processes meet only in the database; the lease is what keeps
two of them from doing the scheduled work twice.

What makes each component correct:

- Locks: one caller per key, an entry exactly while a key is in use, no lost hand-over.
- Runs: nothing is submitted while an earlier outcome is open; a run is recorded
  once; what is recorded as a success is one; a settled day stays settled; attempts
  are bounded; a pending outcome is resolved and not lost; every call ends.
- Lease: two processes work at the same time only in named situations; work goes on.
- Accounts: at most one account per student, at most the quota per user, no deadlock.
- Guards: a pause and a cooldown hold back every password but those already on their way.
- Coordinates: what is submitted was accepted by the school for this student; an address
  stays with its account as long as the school names what it measures.
- Windows: the pages and the scheduler agree but at the edges; a start time leaves the
  scheduler a minute of the day, unless it is the end of the window.
- Notices: a fault that lasts is queued or was reported by a mail; at most a bounded number
  of attempts.
- Codes: a code opens at most one session, its attempts are bounded; codes keep their
  cooldown and quota; a login ends only by its owner, its age or newer logins.

## Modules

| Module | Models | Runs | Proofs |
|---|---|---|---|
| `KeyedLock` | what callers of `lock_for` rely on: one mutex per key | | |
| `Locks` | `locks.py` | `MCLocks.cfg` | `LocksProof` |
| `Checkin` | `checkin.py`, the scheduler's choice of accounts, the account mutations, for one account | `MCCheckin*.cfg` | `CheckinProof` |
| `SchedulerLease` | the lease of `scheduler.py` and `db.py` | `MCSchedulerLease*.cfg` | `SchedulerLeaseProof` |
| `Notices` | `notifications.py` and the tables it keeps | `MCNotices.cfg` | `NoticesProof` |
| `LoginCodes` | `auth.py` and its tables, for one email | `MCLoginCodes.cfg` | `LoginCodesProof` |
| `LoginGuard` | `cas_login` with `ratelimit.py`, `exits.py` and the order of `csu/cas.py`, `csu/zhxg.py` | `MCLoginGuard.cfg` | `LoginGuardProof` |
| `Windows` | the times of day of `validate.py` and `scheduler.py`, pure definitions | with `Accounts` | `AccountsProof` |
| `Accounts` | `accounts.py` with the locks it nests, for several users; extends `Windows` | `MCAccounts.cfg` | `AccountsProof` |
| `Buildings` | `buildings.py` and where `checkin.py` makes a check-in, for several accounts | `MCBuildings*.cfg` | `BuildingsProof` |

The modules compose by what they promise.  `Checkin` takes the account lock as a
variable `lock` that a thread takes when it is free and gives back: that is
`KeyedLock` for one key, and `Locks` is shown to implement `KeyedLock`.  `Checkin`
has one scheduler thread: that there is only one at work is what `SchedulerLease` is
about.  `Accounts` instantiates `KeyedLock` for all the keys that operations nest, the
gate of the logins included.  What `cas_login` may come to, which is a choice in `Checkin`
and `Accounts`, is the subject of `LoginGuard`; what a location check may come to is that
of `Buildings`; and the windows of `Checkin`, at its coarse hours, are those of `Windows`.

### Locks

A client is one activation of `with lock_for(key)`.  The two blocks under
`_registry` are one action each (`RegisterNew`/`RegisterShared` and `Unregister`);
`Acquire` and `Release` lie between them, outside that lock.  The dict objects are
the members of `Entries`, and one that nobody refers to any more may be used again, as
the interpreter may.  There must be as many entries as clients, or registration
could be blocked by the model; the run has four of each.

### Checkin

One account, one scheduler thread, any number of request threads.  The variables
are the account's row (`account`), its row in `verifications` (`task`), its rows in
`records`, the owner of the account lock, the date and a coarse hour, what has reached
the school (`landed`) and what the school shows of it (`visible`), and for each
thread a program counter and its local variables (`job`).  `job.snap` is the
snapshot of the account that `_locked` hands to the body, which the code goes on
using after the row has changed.

An action is one access to the database (a statement in autocommit, or one
`transaction()`) or one exchange with the school, with the code around it.
`Check` is the look before the lock in `run_checkin`, `Lock` is `_locked`, `Begin` the
second look in `_run`, `Attempt` the start of `_attempt`; `Login`, `Query`,
`SaveWindow`, `Persist`, `Submit`, `Confirm` follow the order of `_attempt`,
`_business_status` and `_submit`; `Record` and `Settle` are the two writes of `_record`;
`Resolve`, `Review`, `Conclude` are `resolve_verification`; `AuthFails` and `Disable` are
the two transactions of `mark_auth_failure`.  `TickVerify`, `TickCheckin`,
`TickRefresh` and `TickOver` are the scheduler's tick, `Probe`, `Insert`, `Mark` the
creation of an account, `Update` and `Delete` its edits.  `Crash` ends the process
anywhere and keeps the database.

Abstractions:

- Exchanges with the school are choices over their outcomes.  `Submit` chooses
  independently whether the check-in lands and which answer, or none, comes back.
- Login guards, network exits and parsing are choices over the exceptions the callers
  tell apart (`LoginPausedError`/`CasIpFrozenError`, `RateLimitError`,
  `ExitUnreachableError`, a temporary error, a fault of the account).
- Time is a day and an hour of a few values.  `run_at`, which the code keeps as a
  timestamp, is a day, an hour and the number of the run in the order of the lock.
  The recheck delay, the retry gap, the account's own start time and random pauses only
  decide whether something happens now or later: it may happen at any time.
- Two reads of the clock within one action are one read.
- `purge_old_records` is left out: it deletes records that are older than the
  retention period, which no property is about.
- At least one exit is configured (`Exits` is positive).  A server without any cannot
  reach the school at all.
- Coordinates, place names and the type of the student are left out.  A location check
  that fails ends the run as `failed`.

### SchedulerLease

Any number of processes, each with a main thread (`Start`, `Release`, `Unname`,
`Shutdown`, `Exit`) and the jobs `tick` and `maintenance` (`Fire`, `Renew`, `Read`,
`Claim`, `Finish`).  `Fire` reads the clock; the heartbeat that `Renew` or `Claim`
writes is that time, however late the statement runs.  Instants are kept as
ages, which `Pass` raises.  An owner string is `host:pid`: no two live processes have
the same one, but a later process may have that of an earlier one.

Assumptions on time (`TimeAssumption`): a lease lasts at least three scan periods
(`lease_stale_seconds`), and a job needs at most `Delay` from reading the clock to its
last statement on the lease, with `Delay + Period <= Stale - Delay`.  SQLite's busy
timeout bounds the wait for other processes.  Clocks of processes on one database file
are taken as one clock.

### Notices

Any number of accounts, the tick at its notices and other threads in which the school
rejects a password.  `Mark` is the transaction of `mark_auth_failure`, which queues the
notice only when the fault is new; `Recover` the updates that clear the fault or note
another one, which delete the notice in their transaction; `Reset` is
`reset_not_before`; `Delete` cascades.  `TickCred`, `CredTake` are
`retry_credential_notices`; `CredRead`, `CredSend`, `CredSent` are
`send_credential_notice`, up to the write of the attempt, the mail, and the deletion;
the `Sched*` actions are the same for `retry_schedule_notices`, which reads the clock
before it waits for the account (`ago`).  A mail may go out although the mail service
answers with an error.  `next_at` is kept as the time a row still waits (`due`), down to
`-DueCap`, beyond which no order among the rows is kept.

The lock `notice:<id>` is left out: every caller of `send_credential_notice` holds
`account:<id>` already, so it is never waited for.  The mailer is taken as configured,
without which the tick leaves schedule notices alone.  An account's switch, which
`mark_auth_failure` turns off between queueing and sending, is in `Checkin`.

### LoginCodes

One email address, any number of requests at work, an absolute clock.  `codes` and
`sessions` are the tables; `job` is what a request is about to do after its last access
to the database.  `Request` is the transaction of `request_login_code`, the limits
included, and `Mail` what follows: the mail is out, or the code is withdrawn.  `Guess`
is the read and the comparisons of `verify_login_code`; `Bump` and `Consume` come
after it, when other requests may have been faster.  `Consume` is the transaction that
uses the code and inserts and trims sessions.  `Logout`, `Resolve`, `PurgeSessions` and
`PurgeCodes` are `destroy_session`, `resolve_session` and the maintenance.  `Crash` drops
what requests were doing.

`issued`, `revoked`, `opened` and `ended` are history: when each code was made, which
were withdrawn, which code each login used, and which logins were ended.  The limits per
client address, which are in memory, and the contents of codes and tokens are left
out: a guess is right or wrong.  As in the code, a newer code does not invalidate an
older one: a request that has read the older one may still use it.

### LoginGuard

Any number of logins, through one gate of `cas_concurrency` places.  `Begin` makes the
client, which takes an exit before it waits (`Enter`).  `Pass` is the top of the loop,
`Page`, `Form`, `Captcha`, `Answer` are the exchanges of `csu/cas.py`, `Exchange` is
`_exchange_callback`; `Check` is `before_password_login`, which does nothing a second time
in one pass of the loop, and `Send` `before_password_submit`.  Every exchange may end in
`Trouble`: an error, or a proxy that does not answer (`Unreachable`, `Down`, `Switch`); a
page may say that the address is frozen (`Frozen`).  `RecordFailure` counts for all keys
of the login, `Unblock`, `Forget`, `Resume` and `Thaw` are the clock, which may end
anything at any moment.

`late` and `sent` are history: failures counted for a key since its cooldown began, and
passwords sent since the pause began.

Abstractions: the sliding windows of the `limits` library may refuse at any moment, so
nothing is said of their rates.  The guards of the keys of one login are looked at, or
counted, in one action, and so are `mark_frozen` and the `pause_logins` that follows it.
At least one exit is configured.  `sweep` removes only what has expired, which `Unblock`
and `Forget` do.  A login in the model does not restart with the process: all of this
state is in memory.

### Windows and Accounts

A time is a minute of a day of `Day` minutes, and a moment is a half minute, so that
moments lie on a minute or between two.  `PageState` is `account_window_state`, which counts
minutes; `Due` is the part of `_ready` about the time, which compares moments and takes
yesterday's window after midnight; `NotBeforeError` is `not_before_error`.  `Agree` says
where the two differ, and that they differ nowhere else: in the last minute of a window,
which the scheduler ends at its first moment and the pages at its last, and for a window
that ends at the minute it begins, which is a whole day for the scheduler and one minute for
the pages.  `LeavesTime` says that a start time leaves a whole minute in which the scheduler
may pick the account.  The one exception is in the code, and in `AtEnd`: `not_before_error`
accepts 23:30 for a window from 20:00 to 23:30 (`validate.py:88`, and
`test/test_not_before.py:125` expects it), while `_ready` stops at 23:30:00 and `local_now` knows no
fractions of a second, so that the scheduler has the one second that begins this minute.  It
ticks every `scheduler_interval` seconds, 5 by default and up to 3600: such an account is
checked in by chance only, or by hand.  With an interval of more than a minute a start time
shortly before the end is not safe either; nothing here speaks of the interval.

In `Accounts` users create, change and delete accounts while the runs and the notices of
the same rows are under way.  `AskCreate` waits for `add:<user>`; `Look` reads the user's
accounts and counts them; `Login` is the login of seconds; `Taken`, `Insert` are the look
and the insert after it, which the trigger of `schema.sql` may refuse.  A student who is
already there goes on under `account:<id>` (`Reread`), where `update`, `delete`, runs and
notices wait too.  `Save` is `_save_changes` for an edit and `_save_checkin_window` for a
run, with `reset_not_before`; a refused password leads to the lock `notice:<id>` (`Mail`).
`Leave` gives the keys back, the inner ones first.  Enabled, faults and records are in
`Checkin` and `Notices`; an account is here its user, its student, the school's window and
its start time.  `cas_concurrency` is 1, so that the gate is one more key: with more places
there is less to wait for.

### Buildings

Any number of accounts, with a run each.  `Known` to `Submit` are `_submit` and `_submit_other`
with `for_student`, `_determine_location` and `_jitter_coord`, an action for each exchange
with the school; `Save` is `_save_location`, and takes effect with the exchange that
decides on it.  `Hit`, `Read`, `Fill` are `_learned` under `lru_cache`: two threads may miss
together, and the first one's dict stays in the cache.  `Learn` to `Clear` are the steps
of `learn`.  Dicts are objects that a thread goes on using after `cache_clear`, and files are
inodes that a thread goes on writing after a rename, so that the model shows what two
learners do to the one `.tmp` file: `Open` empties it, `Write` may leave parts of both texts
(`Torn`), `Rename` fails when the other one has taken the file away.

A coordinate is a building, a student's own address, or the base point, each exact or
nearby.  Distances, scatter and trilateration are arithmetic on reals; what is kept of
`locate` is that it finds the place the school has for the student.  `Move` gives the student
another place at any moment.

An answer of the school may come without `yxMc`, the name of the place (`Told`).  Then
`_save_location` leaves `dkdz` as it is, a run without a name stays without, and a place that
was measured goes by the name that the run has already.  This is how an address can get to
other accounts: a student leaves a building for an address of his own, no answer names the
address, and `for_student` learns its coordinates under the name of the building
(`buildings.py:247`), where every account that lives there finds them.  `mistaken` records whose
address that happened to, and `AddressPrivate` says that it happens in no other way.  Without
this exception TLC finds it violated within 18 steps.

## Runs

| Run | Question | Bounds | Distinct states |
|---|---|---|---|
| `locks` | safety, refinement of `KeyedLock`, and progress of the registry | 4 activations, 2 keys, 4 entries: two wait behind a holder while a fourth recycles entries | 33 360 |
| `checkin` | the safety of an account's life | 2 runs, 2 days, hours before and after `checkin_start`, a window over midnight that is learnt, 1 exit, 2 rounds, 1 attempt per window, 1 call of the user, 1 restart | 4.3 million |
| `checkin_live` | verifications end, calls return | from the creation on: 2 runs, one day, 2 exits, 2 calls, 1 restart, 3 rounds as in the code | 54 000 |
| `checkin_create_race` | expected to fail, see below | 1 day, 2 runs, 1 call | |
| `lease` | work of two processes does not overlap, and goes on | 2 owners, 3 starts, the job `tick`, `Stale` = 4 | 38 000 |
| `lease_stop` | expected to fail, see below | 1 process | |
| `login_codes` | cooldown, quota, use and guesses of codes; the life of sessions | 2 requests, 3 codes, clock 0 to 4 with a day of 3 and codes that live 2, 2 guesses, 2 sessions | 1.05 million |
| `notices` | mails are bounded, none follows a recovery, none is forgotten, none waits for ever | 2 accounts, 2 attempts, 2 new faults or cancelled start times, 1 restart | 88 000 |
| `login_guard` | what passes a cooldown or a pause | 3 logins, 2 of them at a time, 2 exits, 1 key that cools down after 2 failures, 2 captchas, with and without a cookie | 1.95 million |
| `accounts` | quota, uniqueness, start times, nested locks | 3 operations at a time of 2 users on 2 students, 1 account per user, 2 rows, a day of 5 minutes with a window that the start time does not go with, one that ends at it, and one over midnight | 1.19 million |
| `buildings` | points accepted; how an address gets to another account | 2 accounts with 3 runs between them, 1 building, 1 address label, answers with and without a name, restarts anywhere | 739 000 |
| `buildings_learn` | expected to fail, see below | 2 runs, 2 buildings | |

Why the bounds are enough: the properties of `Checkin` relate at most two runs (the
one that left a verification and the next one), one midnight and one restart, and one
attempt more than the bound is two runs.  The job `maintenance` renews the lease as `tick`
does and is left to the proof, which holds for any jobs.  Three threads are what it takes to
count one place twice while the key is held by a third, or to wait in a longer circle;
two accounts are
what it takes to wait behind one another for a tick's one notice of each kind, and two
faults let one come back while the mail about the first is out.  Two requests make the
races of `auth.py`, and a clock that outlasts a day frees the quota and purges.  Limits are
smaller than the code's (`MAX_ATTEMPTS_PER_DAY` is 3) so that they are reached.  In
`buildings` one run gives an account the name of a building, a second measures the address
under it, and a third is of the other account.  A window that ends at the minute it begins
is not among those of `accounts`, and is left to the proof.  The
proofs, where there are any, hold for every value of the bounds.

Deadlock is checked in every run but `accounts`, where nothing is left to do when the
operations are used up; that nobody waits in a circle is `NoCircularWait`.  Elsewhere the
tick, the clock or a restart goes on.

Fairness.  A thread that can run does; exchanges with the school end, because every
request carries a timeout; APScheduler fires its jobs again and again; recheck
times come.  Strong fairness is assumed in one place, for taking the account lock,
because the scheduler leaves it free for seconds between two of its jobs.  Nothing
is assumed of the user, the school's or the mail service's answers, midnight or
crashes.  In `Notices` faults and cancelled start times are bounded: one account whose
start time were cancelled again and again could keep its own notice from ever ending.  `Locks` itself
assumes only weak fairness, as `threading.Lock` is no queue, and so promises only
that somebody is served.

### Three expected violations

- `checkin_create_race`: `create_or_update` marks a student who has already checked in
  as `skipped` after `insert_account`, without the account lock.  A run that read the
  new account before the mark, and then fails, finds no settled day in its snapshot and
  writes `failed` over it.  For an account that exists, the property holds (`checkin`)
  and is proved.
- `lease_stop`: `stop_scheduler` deletes the lease before it clears the owner name and
  stops the timer.  A tick that is between its heartbeat and its claim, or that starts
  in between, inserts the row again, and it outlives the process until it is stale.
- `buildings_learn`: `learn` is documented to update the cache atomically.  Two threads
  write the same `buildings.learned.tmp`: one opens and so empties it, the other's rename
  publishes the empty file, and if the process ends there, what was learnt is gone.  Without
  a restart the two writes can still mix, and a file that does not parse counts as empty.
  The buildings are found again by the next run of a student who lives there.

## Proofs

All theorems hold for every value of the constants that satisfies the named
assumptions.  The `*Proof` modules hold nothing but lemmas and theorems.

- `LocksProof`.  The inductive invariant ties the three places where an entry occurs:
  the registry, the users' local variables and the count.  `users[e]` is the number
  of clients that refer to `e`; an entry that somebody refers to is the one filed under
  that client's key; an entry is locked exactly while one of its clients is inside.
  `MutualExclusion` alone is not inductive: without the second part a client could hold
  an entry that is no longer filed, and the next one would get another lock.
  `Refinement` maps `Acquire` to `Take`, `Release` to `Give`, and every other step to a
  stutter.
- `CheckinProof`.  `IInv` adds to `TypeOK` that a thread in a locked place owns the lock
  (so only one is), that a run past the check has no verification beside it, and that
  the snapshot agrees with the account on what only the owner of the lock changes.
  `TypeCorrect`, `PendingBlocks` and `SwitchHonoured` follow, for the specification with
  and without the creation of the account.

  `NewOK` says that nobody works for an account before it is added, and `RInv` adds the
  numbers of runs.  A number is out from the run's entry (or the insertion of the account)
  until its row is written: it has no row, and exactly one thread or the pending
  verification has it, or the verification and the thread that resolves it.  `RecordedOnce`
  alone is not inductive: two holders of one number would write two rows.  `Recorded` and
  `OutcomeKept` follow, with and without the creation of the account.

  `HInv` adds the order: the run under way, or else the pending one, is later than the one
  `last` shows, and a snapshot read under the lock still has that `last`.  `LastMonotone`
  and `SettledKept` follow, for an account that exists: its creation writes `last` without
  the lock.
  `TruthInv` adds where a success comes from: a thread that has read `signed`, or has the
  result or the verdict that counts as done, has a check-in behind it that reached the
  school since the day of its run.  `Truth` follows.

  `CountInv` adds how many runs a window holds.  `AttemptsBounded` alone is not inductive:
  `_ready` counts minutes before the record is written, and the outcome of a deferred run
  adds a row later still.  So every place between the pick and the record keeps a room: the
  run that the scheduler has picked may be recorded at the hour it has noted, or at any
  later one of the day, and the pending verification of a scheduled run at the hour of that
  run.  Both rooms are one, because a run goes on only while no verification is pending and
  the scheduler resolves and runs on one thread.  A window that begins after now has no rows
  (`PickRoom`), midnight empties every window (`FreshRoom`), a manual run's row does not count
  (`QuietRoom`), and a window that the school moves is noted in `moved`.  `Bounded` follows,
  with and without the creation of the account (`CreateCount`).
- `SchedulerLeaseProof`.  The invariant bounds the age of the heartbeat by the age of the
  times the owner's jobs hold, so that a process whose job is inside its lease is the
  owner; `WorkAlone` follows.
- `NoticesProof`.  `NInv` says that the mails of a fault never outnumber the attempts of its
  row, and are one behind while a mail is sent; that a thread that sends owns the account's
  lock, so nobody clears the fault meanwhile; and that a row of `credential_notices` has a
  fault.  `MailsBounded` alone is not inductive: it needs that attempts are counted first.
  `Bounded`, `RecoveredQuiet` and `Reported` follow.
- `LoginCodesProof`.  Each invariant needs what is no longer in the tables.  A code that was
  mailed and has been purged is older than a day, so that the rows that `Allowed` looks at
  are enough to tell the cooldown and the quota: `Spaced` and `Daily`.  A code that has opened
  a session is used as long as it is there, so `consume_login_code` opens no second one:
  `OneSession`.  The attempts of a code with the wrong guesses that are still to be counted
  are fewer than the limit and the requests together: `Guesses`.  Logins are numbered in their
  order, which tells the rows of sessions apart, and a row that `Trim` removes has as many
  newer logins after it as there may be sessions: `Logged`, by `TrimBounded` and `TrimKeeps`,
  which take the least element of a finite set by well-foundedness (`Least`).
  `ThreadAssumption` says that finitely many requests are at work.
- `AccountsProof`.  `IInv` says at each place of an operation which kinds of keys it holds
  at most, that the row it works on is there and its lock is held, that a creation holds its
  user's add lock and the place it counted is still free, and that every start time kept
  or read goes with its window.  `QuotaKept` alone is not inductive: it needs that nobody
  else inserts for the user between the count and the insert.  `NoCircularWait` follows from
  the kinds of keys, which are taken in the order `add`, `account`, then the gate or `notice`;
  `TimeLeft` from `LegalLeavesTime`, and `WindowsAgree` from `AgreeAlways`, arithmetic
  about any day and any window.
- `LoginGuardProof`.  `CooldownHolds` and `PauseHolds` are bounds on history and need a count
  of what is still to come: `IInv` says that the late failures of a key that cools down,
  with the logins past the check that have the key, are fewer than `Gate`, and that the
  passwords sent since the pause began, with those that the logins past the check have left,
  are at most `MaxCaptcha` for each of `Gate - 1` logins.  The login whose failure begins the
  cooldown or the pause leaves the gate with the same step, which is the one less.
- `BuildingsProof`.  `IInv(U)` says that dicts and files, which all students share, hold only
  buildings, the base point and the addresses of the students in `U`, and that what a run
  knows else is its own; so does a run that still reads an old dict or writes an old file.  It
  is needed that the point is such a one before `Learn`.  The steps are proved for any `U`
  that has all of `mistaken`, also after the step; what holds for a set holds for a larger
  one (`Grows`), so the invariant of the specification is `IInv(mistaken)`.
  `EnoughAssumption`, that a dict and an inode are always spare, is used by counting those
  that are in use.

Every safety invariant and every action property that a passing run checks is proved, and
so is the refinement of `KeyedLock`.  Only model-checked: liveness (`KeyServed`,
`PendingResolved`, `CallsReturn`, `WorkGoesOn`, `NoticesMove`), which needs fairness and
ENABLED.

Of `Checkin` from the creation of the account on (`SpecFromCreation`), `TypeOK`,
`PendingBlocksSubmit`, `SwitchedOffNotSubmitted`, `RecordedOnce`, `OutcomeNotLost` and
`AttemptsBounded` are proved.  `SettledNotOverwritten` is false there (`checkin_create_race`).
So is `SuccessIsTrue`, by the same lines of `accounts.py`: when the probe reads `sfydk` before
midnight and the row is inserted after it, the student is marked 今日已打卡 (checked in today)
on a day without a check-in.  `Probe` and `Insert` are two steps, and TLC shows it when
`SuccessIsTrue` is checked of `SpecFromCreation` with two days.  `LastRunMonotone` is not
claimed there: a run may be recorded between the insertion of the account and its marking.

## Plan

All modules of the plan are there:

1. `KeyedLock`, `Locks`: the ground everything stands on.
2. `Checkin`: the core of the program.
3. `SchedulerLease`: several processes.
4. `Notices`: queue, retries, recovery of the account between read and send, restarts.
5. `LoginCodes`: requests for codes, attempts, consumption, sessions.
6. `LoginGuard`: cooldowns, pauses, the rotation of exits.
7. `Windows`, `Accounts`: times of day; quota, uniqueness, nested locks.
8. `Buildings`: the shared cache and private addresses.

A module of nested transactions was dropped: `transaction()` inside a transaction joins it
without a savepoint, but no code of the repository catches an error inside the outer one,
so that nothing is ever half undone.

## Not modelled

Configuration, crypto, middleware, redaction and logs, views, templates and static
files, the mailer's HTTP, the HTML of CAS pages and OCR, DES, distances and scatter of
coordinates, `dbtools`, `__main__`, `tools/`: no state that several steps share, or
conversions no property is about.  The sliding windows of `ratelimit.py` are an external
library in memory.  `netinfo`, `stats` and `permissions` are pure functions of a request.
