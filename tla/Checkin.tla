------------------------------- MODULE Checkin -------------------------------
(***************************************************************************)
(* The life of one hosted account in app/checkin.py: attempts started by   *)
(* the scheduler or by the user, the deferred verification of a submission *)
(* whose outcome is unknown, login refreshes, the switch and deletion of   *)
(* the account, and its creation.                                          *)
(*                                                                         *)
(* Accounts share no state here but the threads, so one account is enough. *)
(* Every access to the database (one autocommit or one transaction) and    *)
(* every exchange with the school is one action; between two of them any   *)
(* other thread, the school, midnight or the end of the process may step   *)
(* in.  The account lock is the mutex of module KeyedLock, which           *)
(* lock_for implements; a thread leaves it together with its last write.   *)
(*                                                                         *)
(* Time is the calendar day and a coarse hour, which is compared with      *)
(* checkin_start and with the school's window.  The account's own start,   *)
(* the retry gap, the recheck delay and the pauses only decide whether     *)
(* something happens now or later, and it may happen whenever the          *)
(* remaining conditions hold.                                              *)
(***************************************************************************)
EXTENDS Integers, Sequences, FiniteSets

CONSTANTS
  Sched,        \* the scheduler's job thread (max_instances=1)
  Web,          \* threads that serve requests
  Nobody,       \* the owner of a free lock
  NoTask,       \* no row in verifications
  Exits,        \* exits.summary()["total"]
  MaxRounds,    \* VERIFY_MAX_ROUNDS
  MaxAttempts,  \* MAX_ATTEMPTS_PER_DAY
  MaxHour,      \* the last hour of a day
  CheckinStart, \* checkin_start
  Windows,      \* what the school may tell as the time to check in
  NoWindow,     \* the account's window is not known
  MaxDay, MaxRuns, MaxCalls, MaxCrashes   \* bounds of the model

Threads == Web \cup {Sched}

ASSUME ThreadAssumption == Sched \notin Web /\ Nobody \notin Threads
ASSUME LimitAssumption ==
  /\ MaxHour \in Nat /\ CheckinStart \in 0..MaxHour
  /\ Windows \subseteq [from : 0..MaxHour, to : 0..MaxHour] /\ NoWindow \notin Windows
  /\ Exits \in Nat \ {0} /\ MaxRounds \in Nat \ {0} /\ MaxAttempts \in Nat \ {0}
  /\ MaxDay \in Nat \ {0} /\ MaxRuns \in Nat /\ MaxCalls \in Nat /\ MaxCrashes \in Nat

VARIABLES
  account,   \* the accounts row
  task,      \* the verifications row, or NoTask
  records,   \* the records rows, oldest first
  lock,      \* who holds lock_for("account:<id>")
  day, hour, \* now
  landed,    \* the days on which a check-in of the student reached the school
  visible,   \* today's check-in shows in the school's status query (sfydk)
  pc, job,   \* control state and local variables of each thread
  tick,      \* the next phase of the scheduler's tick
  moved,     \* the account's window was changed today: history for the properties
  runs, calls, crashes   \* how much of the bounds is used

vars == <<account, task, records, lock, day, hour, landed, visible, pc, job, tick,
          moved, runs, calls, crashes>>
db == <<account, task, records>>
clock == <<day, hour>>
school == <<landed, visible>>
counters == <<runs, calls, crashes>>
-----------------------------------------------------------------------------
Statuses == {"success", "skipped", "no_task", "waiting", "failed"}
Settled == {"success", "skipped", "no_task"}      \* DAY_SETTLED

\* last_run_at and last_status; run numbers the runs in the order in which
\* they entered the account lock.
LastRuns == [day : 0..MaxDay, hour : 0..MaxHour, run : Nat, status : Statuses \cup {"none"}]

\* token is the day of token_at when a token is stored, else 0.
Accounts == [life : {"new", "live", "gone"}, enabled : BOOLEAN,
             auth : {"none", "bad_credentials", "other"},
             token : 0..MaxDay, window : Windows \cup {NoWindow}, last : LastRuns]

Triggers == {"schedule", "manual"}
Tasks == [day : 1..MaxDay, hour : 0..MaxHour, run : Nat \ {0}, trigger : Triggers,
          rounds : 0..(MaxRounds - 1), due : BOOLEAN]

ASSUME NoTaskAssumption == NoTask \notin Tasks

\* at is the day on which the row was written: history for the properties.
Records == [day : 1..MaxDay, hour : 0..MaxHour, run : Nat \ {0}, trigger : Triggers,
            status : Statuses, at : 1..MaxDay]

Ops == {"schedule", "manual", "verify", "refresh", "relogin", "update", "delete", "create"}
RunOps == {"schedule", "manual"}
Answers == {"signed", "no_need", "not_yet", "refused", "open"}
Results == Statuses \cup {"again"}
PCs == {"idle", "check", "lock", "begin", "attempt", "login", "disable", "query",
        "window", "persist", "submit", "confirm", "defer", "record", "settle", "resolve",
        "review", "conclude", "edit", "insert", "mark"}
\* Where a run is after it has passed the check for a pending verification.
Running == {"attempt", "login", "disable", "query", "window", "persist", "submit", "confirm",
            "defer", "record", "settle"}
Locked == Running \cup {"begin", "resolve", "review", "conclude", "edit"}

NoLast == [day |-> 0, hour |-> 0, run |-> 0, status |-> "none"]
NewAccount == [life |-> "new", enabled |-> FALSE, auth |-> "none", token |-> 0,
               window |-> NoWindow, last |-> NoLast]

Jobs == [op : Ops \cup {"none"}, snap : Accounts, run : Nat, day : 0..MaxDay, hour : 0..MaxHour,
         tries : 0..Exits, relogged : BOOLEAN, answer : Answers \cup {"none"},
         result : Results \cup {"none"}, task : Tasks \cup {NoTask}]
NoJob == [op |-> "none", snap |-> NewAccount, run |-> 0, day |-> 0, hour |-> 0, tries |-> 0,
          relogged |-> FALSE, answer |-> "none", result |-> "none",
          task |-> NoTask]

TypeOK ==
  /\ account \in Accounts
  /\ task \in Tasks \cup {NoTask}
  /\ records \in Seq(Records)
  /\ lock \in Threads \cup {Nobody}
  /\ day \in 1..MaxDay /\ hour \in 0..MaxHour
  /\ landed \in SUBSET (1..MaxDay)
  /\ visible \in BOOLEAN
  /\ pc \in [Threads -> PCs]
  /\ job \in [Threads -> Jobs]
  /\ tick \in {"verify", "batch", "refresh"} /\ moved \in BOOLEAN
  /\ runs \in Nat /\ calls \in 0..MaxCalls /\ crashes \in 0..MaxCrashes

InitRest ==
  /\ task = NoTask /\ records = <<>> /\ lock = Nobody
  /\ day = 1 /\ hour = 0 /\ landed = {} /\ visible = FALSE
  /\ pc = [t \in Threads |-> "idle"] /\ job = [t \in Threads |-> NoJob]
  /\ tick = "verify" /\ moved = FALSE /\ runs = 0 /\ calls = 0 /\ crashes = 0

\* The account exists, enabled, with no login yet.
Init == account = [NewAccount EXCEPT !.life = "live", !.enabled = TRUE] /\ InitRest

\* The account is yet to be added.
InitNew == account = NewAccount /\ InitRest
-----------------------------------------------------------------------------
(* Control of a thread. *)

Goto(t, l) == pc' = [pc EXCEPT ![t] = l]
Let(t, j) == job' = [job EXCEPT ![t] = j]

\* The call returns without having taken the lock.
Return(t) == Goto(t, "idle") /\ Let(t, NoJob) /\ UNCHANGED lock

\* The call returns from inside the lock.
Leave(t) == Goto(t, "idle") /\ Let(t, NoJob) /\ lock' = Nobody

\* Past the query and the location check, only the snapshot and the identity
\* of the run are still used.
Spent(j) == [j EXCEPT !.tries = 0, !.relogged = FALSE, !.answer = "none"]

\* The attempt has its result; what is left is to record it.
Finish(t, s) ==
  /\ Goto(t, "record")
  /\ Let(t, [Spent(job[t]) EXCEPT !.result = s])
  /\ UNCHANGED lock

\* An error is recorded by a run, and only reported by a refresh or relogin.
Fail(t) ==
  \/ job[t].op \in RunOps /\ Finish(t, "failed")
  \/ job[t].op \notin RunOps /\ Leave(t)

\* ExitUnreachableError in _run: another attempt through another exit, or
\* the failure of the run when as many were made as there are exits.
Retry(t) ==
  /\ UNCHANGED lock
  /\ \/ /\ job[t].tries + 1 < Exits
        /\ Goto(t, "attempt")
        /\ Let(t, [job[t] EXCEPT !.tries = @ + 1, !.relogged = FALSE, !.answer = "none"])
     \/ /\ job[t].tries + 1 >= Exits
        /\ Goto(t, "record")
        /\ Let(t, [Spent(job[t]) EXCEPT !.day = day, !.hour = hour, !.result = "failed"])

Steady == UNCHANGED <<clock, school, tick, moved, counters>>

\* A run number is still free for every run under way.
Starting == {t \in Threads : /\ pc[t] \in {"check", "lock", "begin", "insert"}
                             /\ job[t].op \in RunOps \cup {"create"}}
RunsLeft == runs + Cardinality(Starting) < MaxRuns
-----------------------------------------------------------------------------
(* The scheduler's tick: verifications first, then check-ins or logins. *)

\* The scheduled runs that _ready counts at hour h of today: those of today that
\* lie in the window h lies in, the account's or, when it has none, from
\* checkin_start to midnight.  A window may cross midnight.
Inside(w, h) == IF w.from <= w.to THEN h \in w.from..w.to ELSE h >= w.from \/ h <= w.to

Open(h) == h >= CheckinStart /\ (account.window # NoWindow => Inside(account.window, h))

SameWindow(g, h) ==
  account.window # NoWindow => (g >= account.window.from <=> h >= account.window.from)

Attempts(h) ==
  Cardinality({i \in DOMAIN records : /\ records[i].day = day
                                      /\ Open(records[i].hour) /\ SameWindow(records[i].hour, h)
                                      /\ records[i].trigger = "schedule"
                                      /\ records[i].status # "waiting"})

\* _done_in_window: the last run settled the day, and began after checkin_start.
Done == /\ account.last.status \in Settled
        /\ account.last.day = day /\ account.last.hour >= CheckinStart

Selectable == account.life = "live" /\ account.enabled /\ account.auth = "none"

\* Mutant: one attempt too many.
ReadyOnceMore ==
  /\ Selectable /\ task = NoTask
  /\ Open(hour) /\ ~Done
  /\ Attempts(hour) <= MaxAttempts

\* _ready on the rows of all_enabled_accounts.
Ready ==
  /\ Selectable /\ task = NoTask
  /\ Open(hour) /\ ~Done
  /\ Attempts(hour) < MaxAttempts

\* due_verifications
IsDue == task # NoTask /\ task.due

\* The tick reads the clock before it sees to the verifications.
TickVerify ==
  /\ pc[Sched] = "idle" /\ tick = "verify"
  /\ tick' = IF hour >= CheckinStart THEN "batch" ELSE "refresh"
  /\ \/ /\ IsDue
        /\ Goto(Sched, "lock")
        /\ Let(Sched, [NoJob EXCEPT !.op = "verify"])
     \/ ~IsDue /\ UNCHANGED <<pc, job>>
  /\ UNCHANGED <<db, lock, clock, school, moved, counters>>

TickCheckin ==
  /\ pc[Sched] = "idle" /\ tick = "batch"
  /\ Ready /\ RunsLeft
  /\ tick' = "verify"
  /\ Goto(Sched, "check")
  /\ Let(Sched, [NoJob EXCEPT !.op = "schedule"])
  /\ UNCHANGED <<db, lock, clock, school, moved, counters>>

TickRefresh ==
  /\ pc[Sched] = "idle" /\ tick = "refresh"
  /\ Selectable /\ account.token # day
  /\ tick' = "verify"
  /\ Goto(Sched, "lock")
  /\ Let(Sched, [NoJob EXCEPT !.op = "refresh"])
  /\ UNCHANGED <<db, lock, clock, school, moved, counters>>

TickOver ==
  /\ pc[Sched] = "idle" /\ tick # "verify"
  /\ tick' = "verify"
  /\ UNCHANGED <<db, lock, clock, school, pc, job, moved, counters>>

\* The recheck time of the pending verification comes.
TaskDue ==
  /\ task # NoTask /\ ~task.due
  /\ task' = [task EXCEPT !.due = TRUE]
  /\ UNCHANGED <<account, records, lock, pc, job>> /\ Steady

\* maintenance() deletes, without the account lock, what is over a day old.
PurgeTask ==
  /\ task # NoTask /\ task.day < day
  /\ task' = NoTask
  /\ UNCHANGED <<account, records, lock, pc, job>> /\ Steady
-----------------------------------------------------------------------------
(* Requests of the user. *)

Call(w) ==
  /\ pc[w] = "idle" /\ account.life = "live" /\ calls < MaxCalls
  /\ calls' = calls + 1
  /\ \/ /\ RunsLeft
        /\ Goto(w, "check") /\ Let(w, [NoJob EXCEPT !.op = "manual"])
     \/ \E op \in {"relogin", "update", "delete"} :
          Goto(w, "lock") /\ Let(w, [NoJob EXCEPT !.op = op])
  /\ UNCHANGED <<db, lock, clock, school, tick, moved, runs, crashes>>
-----------------------------------------------------------------------------
(* run_checkin, up to the first attempt. *)

\* run_checkin looks for a pending verification before it queues for the lock.
Check(t) ==
  /\ pc[t] = "check"
  /\ \/ task # NoTask /\ Return(t)
     \/ task = NoTask /\ Goto(t, "lock") /\ UNCHANGED <<job, lock>>
  /\ UNCHANGED db /\ Steady

\* Where the body that runs under the account lock starts.
Body(op) ==
  CASE op \in RunOps -> "begin"
    [] op \in {"refresh", "relogin"} -> "login"
    [] op = "verify" -> "resolve"
    [] OTHER -> "edit"

\* _locked, and the account mutations: take the lock and read the account
\* again; it may have been deleted meanwhile.
Lock(t) ==
  /\ pc[t] = "lock" /\ lock = Nobody
  /\ \/ /\ account.life = "live"
        /\ lock' = t
        /\ Goto(t, Body(job[t].op))
        /\ Let(t, [job[t] EXCEPT !.snap = account])
     \/ account.life # "live" /\ Return(t)
  /\ UNCHANGED db /\ Steady

\* The run enters the sequence of runs of the account.
Enter(t) ==
  /\ runs' = runs + 1
  /\ Goto(t, "attempt")
  /\ Let(t, [job[t] EXCEPT !.run = runs + 1])
  /\ UNCHANGED lock

\* Mutant: the pending verification is not looked for again under the lock.
BeginUnchecked(t) ==
  /\ pc[t] = "begin"
  /\ \/ job[t].op = "schedule" /\ Leave(t) /\ UNCHANGED runs
     \/ Enter(t)
  /\ UNCHANGED <<db, clock, school, tick, moved, calls, crashes>>

\* Mutant: the early return leaves the lock held.
BeginKeepsLock(t) ==
  /\ pc[t] = "begin"
  /\ \/ (task # NoTask \/ job[t].op = "schedule") /\ Return(t) /\ UNCHANGED runs
     \/ task = NoTask /\ Enter(t)
  /\ UNCHANGED <<db, clock, school, tick, moved, calls, crashes>>

\* _run: a pending verification, or an account whose own start time has not
\* come (schedule only), ends the run; else the first attempt begins.
Begin(t) ==
  /\ pc[t] = "begin"
  /\ \/ (task # NoTask \/ job[t].op = "schedule") /\ Leave(t) /\ UNCHANGED runs
     \/ task = NoTask /\ Enter(t)
  /\ UNCHANGED <<db, clock, school, tick, moved, calls, crashes>>
-----------------------------------------------------------------------------
(* One attempt: _attempt, _business_status, _submit. *)

\* Mutant: the switch is looked at only when the scheduler picks accounts.
AttemptAnyway(t) ==
  /\ pc[t] = "attempt"
  /\ LET j == [job[t] EXCEPT !.day = day, !.hour = hour]
     IN  Goto(t, IF j.snap.token = day THEN "query" ELSE "login") /\ Let(t, j)
  /\ UNCHANGED <<db, lock>> /\ Steady

\* run_at is now.  A disabled account stops every run but a manual one; a
\* login of today is used as it is.
Attempt(t) ==
  /\ pc[t] = "attempt"
  /\ LET j == [job[t] EXCEPT !.day = day, !.hour = hour]
     IN  \/ /\ j.op = "manual" \/ j.snap.enabled
            /\ Goto(t, IF j.snap.token = day THEN "query" ELSE "login")
            /\ Let(t, j)
         \/ /\ j.op = "schedule" /\ ~j.snap.enabled
            /\ Goto(t, "record") /\ Let(t, [Spent(j) EXCEPT !.result = "failed"])
  /\ UNCHANGED <<db, lock>> /\ Steady

\* persist_state: the login is of today, and the account is in order.
Persisted == [account EXCEPT !.token = day, !.auth = "none"]

\* mark_auth_failure: the account's fault is recorded, and wrong credentials also
\* switch it off, in a write of its own.
AuthFails(t) ==
  \/ /\ account' = [account EXCEPT !.auth = "other"]
     /\ Fail(t)
  \/ /\ account' = [account EXCEPT !.auth = "bad_credentials"]
     /\ \/ account.enabled /\ Goto(t, "disable") /\ UNCHANGED <<job, lock>>
        \/ ~account.enabled /\ Fail(t)

\* _login inside a run, a refresh or a relogin, and what its caller makes of
\* each way in which it can fail.
Login(t) ==
  /\ pc[t] = "login"
  /\ \/ /\ account' = Persisted
        /\ \/ /\ job[t].op \in RunOps
              /\ Goto(t, "query") /\ UNCHANGED <<job, lock>>
           \/ job[t].op \notin RunOps /\ Leave(t)
     \/ /\ Leave(t)                          \* logins paused, frozen or rate limited
        /\ UNCHANGED account
     \/ /\ job[t].op = "manual"              \* RateLimitError of a manual run
        /\ Finish(t, "failed") /\ UNCHANGED account
     \/ /\ job[t].op \in RunOps              \* ExitUnreachableError
        /\ Retry(t) /\ UNCHANGED account
     \/ /\ Fail(t)                           \* a temporary error
        /\ UNCHANGED account
     \/ AuthFails(t)
  /\ UNCHANGED <<task, records>> /\ Steady

\* mark_auth_failure, second write: the account is switched off.
Disable(t) ==
  /\ pc[t] = "disable"
  /\ account' = [account EXCEPT !.enabled = FALSE]
  /\ Fail(t)
  /\ UNCHANGED <<task, records>> /\ Steady

\* The status query: 401/403 leads to one new login, 331 means no task.
Query(t) ==
  /\ pc[t] = "query"
  /\ \/ /\ ~job[t].relogged
        /\ Goto(t, "login") /\ Let(t, [job[t] EXCEPT !.relogged = TRUE]) /\ UNCHANGED lock
     \/ Retry(t)
     \/ \E s \in {"no_task", "failed"} : Finish(t, s)
     \/ \E a \in Answers :
          /\ (a = "signed") = visible
          /\ Goto(t, "window") /\ Let(t, [job[t] EXCEPT !.answer = a]) /\ UNCHANGED lock
  /\ UNCHANGED db /\ Steady

\* The account's window becomes w.
NoteWindow(w) == moved' = (moved \/ w # account.window)

\* _save_checkin_window: the window that comes with the answer is kept if none
\* is known or if the answer says that it is not the time; it may be missing.
SaveWindow(t) ==
  /\ pc[t] = "window"
  /\ \E w \in Windows \cup {account.window} :
       /\ account.window = NoWindow \/ job[t].answer = "not_yet" \/ w = account.window
       /\ account' = [account EXCEPT !.window = w]
       /\ NoteWindow(w)
  /\ Goto(t, "persist")
  /\ UNCHANGED <<task, records, lock, job, clock, school, tick, counters>>

\* persist_state after the query, and what _submit concludes from the answer
\* and from the location check.
Persist(t) ==
  /\ pc[t] = "persist"
  /\ account' = Persisted
  /\ LET a == job[t].answer
     IN  \/ a = "signed" /\ Finish(t, "skipped")
         \/ a = "no_need" /\ Finish(t, "no_task")
         \/ a = "not_yet" /\ Finish(t, "waiting")
         \/ a \in {"refused", "open"} /\ Finish(t, "failed")
         \/ a = "open" /\ Retry(t)
         \/ a = "open" /\ Goto(t, "submit") /\ Let(t, Spent(job[t])) /\ UNCHANGED lock
  /\ UNCHANGED <<task, records>> /\ Steady

\* submit_dk.  Whatever comes back, the check-in may have reached the school
\* or not: a lost answer says nothing, "200" is not yet a check-in, and a
\* gateway's error page also counts as a refusal.
Submit(t) ==
  /\ pc[t] = "submit"
  /\ landed' \in {landed, landed \cup {day}}
  /\ \/ Goto(t, "confirm") /\ UNCHANGED <<job, lock>>
     \/ Goto(t, "defer") /\ UNCHANGED <<job, lock>>
     \/ Finish(t, "failed")
  /\ UNCHANGED <<db, clock, visible, tick, moved, counters>>

\* Mutant: "200" is taken for a check-in.
ConfirmBlindly(t) ==
  /\ pc[t] = "confirm"
  /\ \/ Finish(t, "success")
     \/ Goto(t, "defer") /\ UNCHANGED <<job, lock>>
  /\ UNCHANGED db /\ Steady

\* _read_submit_result: only the status query confirms a submission, and a
\* query that fails does not refute one.
Confirm(t) ==
  /\ pc[t] = "confirm"
  /\ \/ visible /\ Finish(t, "success")
     \/ Goto(t, "defer") /\ UNCHANGED <<job, lock>>
  /\ UNCHANGED db /\ Steady

\* _defer_verification: upsert_verification.
Defer(t) ==
  /\ pc[t] = "defer"
  /\ task' = [day |-> job[t].day, hour |-> job[t].hour, run |-> job[t].run, trigger |-> job[t].op,
              rounds |-> 0, due |-> FALSE]
  /\ Leave(t)
  /\ UNCHANGED <<account, records>> /\ Steady
-----------------------------------------------------------------------------
(* _record: a row in records, then the last_* columns of the account. *)

Row(r, d, h, g, s) == [run |-> r, day |-> d, hour |-> h, trigger |-> g, status |-> s, at |-> day]

\* Mutant: a failure always becomes the last result.
LastAlways(snap, r, d, h, s) == [day |-> d, hour |-> h, run |-> r, status |-> s]

\* The last_* columns after a run that began on day d, hour h, ended in s: a failure does not
\* replace a result that settles its day (_settled_today, on the account as
\* it was read under the lock).
LastAfter(snap, r, d, h, s) ==
  IF s = "failed" /\ snap.last.status \in Settled /\ snap.last.day = d
  THEN account.last
  ELSE [day |-> d, hour |-> h, run |-> r, status |-> s]

Record(t) ==
  /\ pc[t] = "record"
  /\ records' = Append(records, Row(job[t].run, job[t].day, job[t].hour, job[t].op, job[t].result))
  /\ Goto(t, "settle")
  /\ UNCHANGED <<account, task, job, lock>> /\ Steady

Settle(t) ==
  /\ pc[t] = "settle"
  /\ account' = [account EXCEPT !.last =
                   LastAfter(job[t].snap, job[t].run, job[t].day, job[t].hour, job[t].result)]
  /\ Leave(t)
  /\ UNCHANGED <<task, records>> /\ Steady
-----------------------------------------------------------------------------
(* resolve_verification. *)

\* The task is gone, is of another day, or has no login of today to ask with:
\* it is dropped.  Else the school is asked.
Resolve(t) ==
  /\ pc[t] = "resolve"
  /\ IF task # NoTask /\ task.day = day /\ job[t].snap.token = day
     THEN /\ Goto(t, "review") /\ Let(t, [job[t] EXCEPT !.task = task])
          /\ UNCHANGED <<task, lock>>
     ELSE task' = NoTask /\ Leave(t)
  /\ UNCHANGED <<account, records>> /\ Steady

\* The school's answer, or none, and the verdict: it shows the check-in, the
\* rounds are used up, or the task is to be asked about again.
Review(t) ==
  /\ pc[t] = "review"
  /\ \E v \in {"success", "failed", "again"} :
       /\ v = "success" => visible
       /\ v = "failed" => job[t].task.rounds + 1 >= MaxRounds
       /\ v = "again" => job[t].task.rounds + 1 < MaxRounds
       /\ Let(t, [job[t] EXCEPT !.result = v])
  /\ Goto(t, "conclude")
  /\ UNCHANGED <<db, lock>> /\ Steady

\* What the verdict on the pending submission says, in records and in last_*.
Verdict(t) == LET k == job[t].task IN Row(k.run, k.day, k.hour, k.trigger, job[t].result)

LastVerdict(t) ==
  LET k == job[t].task IN LastAfter(job[t].snap, k.run, k.day, k.hour, job[t].result)

\* Mutant: the verdict is recorded, and the task stays.
RecordVerdictOnly(t) ==
  /\ records' = Append(records, Verdict(t))
  /\ account' = [account EXCEPT !.last = LastVerdict(t)]
  /\ UNCHANGED task

\* The transaction of the verdict: the record, the last_* columns and the end
\* of the task.
RecordVerdict(t) ==
  /\ records' = Append(records, Verdict(t))
  /\ account' = [account EXCEPT !.last = LastVerdict(t)]
  /\ task' = NoTask

\* Mutant: a task that is not confirmed at once is dropped without a record.
ForgetTask(t) == task' = NoTask

\* Mutant: the rounds are not counted.
PostponeOnly(t) ==
  task' = IF task = NoTask THEN task ELSE [task EXCEPT !.due = FALSE]

\* Mutant: the rounds are counted twice.
BumpTwice(t) ==
  task' = IF task = NoTask THEN task ELSE [task EXCEPT !.rounds = @ + 2, !.due = FALSE]

\* bump_verification, if the row is still there.
Bump(t) ==
  task' = IF task = NoTask THEN task ELSE [task EXCEPT !.rounds = @ + 1, !.due = FALSE]

Conclude(t) ==
  /\ pc[t] = "conclude"
  /\ \/ job[t].result = "again" /\ Bump(t) /\ UNCHANGED <<account, records>>
     \/ job[t].result # "again" /\ RecordVerdict(t)
  /\ Leave(t) /\ Steady
-----------------------------------------------------------------------------
(* Edits of the account, under its lock. *)

\* set_enabled, toggle_enabled and update.  An update may check the password with
\* the school: then it keeps the new login and window, or records the fault.
Update(t) ==
  /\ pc[t] = "edit" /\ job[t].op = "update"
  /\ \/ /\ \E e \in BOOLEAN, w \in Windows \cup {account.window} :
             /\ account' \in {[account EXCEPT !.enabled = e],
                              [account EXCEPT !.enabled = e, !.auth = "none"],
                              [Persisted EXCEPT !.enabled = e, !.window = w]}
             /\ NoteWindow(account'.window)
        /\ Leave(t)
     \/ AuthFails(t) /\ UNCHANGED moved
     \/ Leave(t) /\ UNCHANGED <<account, moved>>       \* refused
  /\ UNCHANGED <<task, records, clock, school, tick, counters>>

\* delete; ON DELETE CASCADE
Delete(t) ==
  /\ pc[t] = "edit" /\ job[t].op = "delete"
  /\ account' = [account EXCEPT !.life = "gone"]
  /\ task' = NoTask /\ records' = <<>>
  /\ Leave(t) /\ Steady
-----------------------------------------------------------------------------
(* accounts.create_or_update for a student who is not hosted yet.  The add *)
(* lock keeps a user's creations apart; the account lock is not taken.     *)

\* The probe logs in and asks the school for the status.
Probe(w) ==
  /\ pc[w] = "idle" /\ account.life = "new" /\ calls < MaxCalls /\ RunsLeft
  /\ \A u \in Web : job[u].op # "create"
  /\ calls' = calls + 1
  /\ Goto(w, "insert")
  /\ Let(w, [NoJob EXCEPT !.op = "create", !.answer = IF visible THEN "signed" ELSE "open"])
  /\ UNCHANGED <<db, lock, clock, school, tick, moved, runs, crashes>>

\* insert_account, of a student who is not taken yet, with the login of the
\* probe: from here on everybody sees the account.
Insert(t) ==
  /\ pc[t] = "insert" /\ account.life = "new"
  /\ \E e \in BOOLEAN, w \in Windows \cup {NoWindow} :
       account' = [account EXCEPT !.life = "live", !.enabled = e, !.token = day, !.window = w]
  /\ \/ /\ job[t].answer = "signed"
        /\ runs' = runs + 1
        /\ Goto(t, "mark")
        /\ Let(t, [job[t] EXCEPT !.run = runs + 1, !.day = day, !.hour = hour])
     \/ /\ job[t].answer # "signed"
        /\ UNCHANGED runs /\ Goto(t, "idle") /\ Let(t, NoJob)
  /\ UNCHANGED <<task, records, lock, clock, school, tick, moved, calls, crashes>>

\* The student has checked in already: a skipped run is recorded in one
\* transaction, unless the account was deleted (the foreign key fails).
Mark(t) ==
  /\ pc[t] = "mark"
  /\ \/ /\ account.life = "live"
        /\ records' = Append(records, Row(job[t].run, job[t].day, job[t].hour, "manual", "skipped"))
        /\ account' = [account EXCEPT !.last = [day |-> job[t].day, hour |-> job[t].hour,
                                                run |-> job[t].run, status |-> "skipped"]]
     \/ account.life # "live" /\ UNCHANGED <<account, records>>
  /\ Return(t)
  /\ UNCHANGED task /\ Steady
-----------------------------------------------------------------------------
(* The world around the process. *)

\* Midnight.
NextDay ==
  /\ day < MaxDay
  /\ day' = day + 1 /\ hour' = 0 /\ visible' = FALSE /\ moved' = FALSE
  /\ UNCHANGED <<db, lock, landed, pc, job, tick, counters>>

NextHour ==
  /\ hour < MaxHour
  /\ hour' = hour + 1
  /\ UNCHANGED <<db, lock, day, school, pc, job, tick, moved, counters>>

\* The student checks in with the school's own app.
SignElsewhere ==
  /\ day \notin landed
  /\ landed' = landed \cup {day}
  /\ UNCHANGED <<db, lock, clock, visible, pc, job, tick, moved, counters>>

\* A check-in that reached the school shows in its status query.
Show ==
  /\ day \in landed /\ ~visible
  /\ visible' = TRUE
  /\ UNCHANGED <<db, lock, clock, landed, pc, job, tick, moved, counters>>

\* The process ends and is started again: only the database remains.
Crash ==
  /\ crashes < MaxCrashes
  /\ crashes' = crashes + 1
  /\ pc' = [t \in Threads |-> "idle"] /\ job' = [t \in Threads |-> NoJob]
  /\ lock' = Nobody /\ tick' = "verify"
  /\ UNCHANGED <<db, clock, school, moved, runs, calls>>
-----------------------------------------------------------------------------
RunStep(t) ==
  \/ Check(t) \/ Begin(t) \/ Attempt(t) \/ Login(t) \/ Disable(t) \/ Query(t)
  \/ SaveWindow(t) \/ Persist(t) \/ Submit(t) \/ Confirm(t) \/ Defer(t) \/ Record(t) \/ Settle(t)

ThreadStep(t) ==
  \/ Lock(t) \/ RunStep(t) \/ Update(t) \/ Delete(t)
  \/ Resolve(t) \/ Review(t) \/ Conclude(t)
  \/ Insert(t) \/ Mark(t)

Tick == TickVerify \/ TickCheckin \/ TickRefresh \/ TickOver

World == NextDay \/ NextHour \/ SignElsewhere \/ Show \/ Crash \/ TaskDue \/ PurgeTask

Next ==
  \/ \E t \in Threads : ThreadStep(t)
  \/ \E w \in Web : Call(w) \/ Probe(w)
  \/ Tick
  \/ World

Spec == Init /\ [][Next]_vars

\* The same system, from before the account is added.
SpecFromCreation == InitNew /\ [][Next]_vars

(***************************************************************************)
(* Threads run, every exchange with the school ends (requests carry        *)
(* timeouts), the scheduler's jobs keep firing, and recheck times come.  A *)
(* thread that waits for the account lock gets it in the end: between two  *)
(* of its jobs the scheduler sleeps for seconds with the lock free, and a  *)
(* released lock wakes a waiter.  Nothing is assumed of the user, of the   *)
(* school's answers, of midnight or of crashes.                            *)
(***************************************************************************)
Fairness ==
  /\ \A t \in Threads : WF_vars(ThreadStep(t)) /\ SF_vars(Lock(t))
  /\ WF_vars(Tick) /\ WF_vars(TaskDue)

FairSpecFromCreation == SpecFromCreation /\ Fairness
-----------------------------------------------------------------------------
(* Properties. *)

\* Nothing is submitted while the outcome of an earlier submission is open:
\* a run that has passed _run's check goes on to submit_dk only if no
\* verification is pending, although run_checkin's own check was made before
\* it queued for the lock.
PendingBlocksSubmit ==
  \A t \in Threads : pc[t] \in Running /\ job[t].op \in RunOps => task = NoTask

\* A run leaves at most one row in records, and none while its verification
\* is pending, however attempts, verdicts and restarts interleave.
RecordedOnce ==
  /\ \A i, j \in DOMAIN records : records[i].run = records[j].run => i = j
  /\ task # NoTask => \A i \in DOMAIN records : records[i].run # task.run

\* A run is recorded as success or skipped only if a check-in of the student
\* reached the school between the day of the run and the day of the record.
SuccessIsTrue ==
  \A i \in DOMAIN records :
    records[i].status \in {"success", "skipped"} =>
      \E d \in records[i].day..records[i].at : d \in landed

\* MAX_ATTEMPTS_PER_DAY bounds the scheduled runs of one window, through
\* deferred outcomes, restarts and runs that wait for the lock past midnight.
\* A window that is moved on the day starts a new count.
AttemptsBounded ==
  ~moved => \A h \in 0..MaxHour : Open(h) => Attempts(h) <= MaxAttempts

\* While a scheduled run submits, the account exists and is switched on: the
\* user who got an answer from an edit or a deletion can rely on it, even if the
\* scheduler had picked the account before.
SwitchedOffNotSubmitted ==
  \A t \in Threads :
    pc[t] = "submit" => /\ account.life = "live"
                        /\ job[t].op = "schedule" => account.enabled

\* A result that settles the day is never replaced by a failure of that day
\* (test_failed_attempt_does_not_overwrite_the_days_success).
SettledNotOverwritten ==
  [][account.last.status \in Settled /\ account'.last.day = account.last.day
       => account'.last.status # "failed"]_vars

\* The last_* columns never go back to an earlier run, although the verdict
\* on a submission is written long after the run that made it.
LastRunMonotone == [][account'.last.run >= account.last.run]_vars

\* A pending verification ends in a record of its run, unless its day is
\* over, its login is no longer of today, or the account is deleted.
OutcomeNotLost ==
  [][task # NoTask /\ task' = NoTask =>
       \/ task.day < day \/ account.token # day \/ account'.life = "gone"
       \/ \E i \in DOMAIN records' : records'[i].run = task.run]_vars

\* Every pending verification comes to an end: resolved, abandoned or purged.
PendingResolved == task # NoTask ~> task = NoTask

\* Every call returns; in particular no path keeps the account lock.
CallsReturn == \A t \in Threads : pc[t] # "idle" ~> pc[t] = "idle"
=============================================================================
