------------------------------- MODULE Notices -------------------------------
(***************************************************************************)
(* app/notifications.py: mails to the owners of accounts.  One tells that  *)
(* the school rejects the password (credential_notices), one that the      *)
(* school's new window cancelled the account's own start time              *)
(* (schedule_notices).  Both are queued in the transaction of the change   *)
(* they tell about, are sent under the account lock, by whoever made the   *)
(* change or by the scheduler's tick, and are tried a few times.           *)
(*                                                                         *)
(* due is how long a row still waits for its next_at: a row is due from 0  *)
(* on, and the tick takes the one that is due for the longest time.  The   *)
(* process may end between any two writes and around a mail, which may go  *)
(* out although its sender sees an error.                                  *)
(***************************************************************************)
EXTENDS Integers, FiniteSets

CONSTANTS
  Ids,          \* accounts.id: a set of numbers
  Sched, Web,   \* the tick at its notices, and threads in which passwords are rejected
  Nobody, NoRow, NoId,
  MaxAttempts,  \* MAX_NOTICE_ATTEMPTS
  RetryGap,     \* NOTICE_RETRY_SECONDS
  DueCap,       \* no order is kept among rows that are due for longer than this
  MaxCrashes,   \* bounds of the model: restarts, and
  MaxChanges    \* new faults and cancelled start times

Threads == Web \cup {Sched}

ASSUME NamesAssumption == Sched \notin Web /\ Nobody \notin Threads /\ Ids \subseteq Nat \ {NoId}
ASSUME LimitAssumption ==
  /\ MaxAttempts \in Nat \ {0} /\ RetryGap \in Nat \ {0}
  /\ DueCap \in Nat /\ MaxCrashes \in Nat /\ MaxChanges \in Nat

VARIABLES
  auth,      \* auth_error of each account: "fine" is none or another kind; or "gone"
  cred,      \* the row in credential_notices
  sched,     \* the row in schedule_notices
  lock,      \* who holds lock_for("account:<id>")
  pc, at,    \* control state of a thread, and the account it is about
  ago,       \* how long ago the tick read the clock for its schedule notice
  mails,     \* credential mails since the fault came up: history for the properties
  told,      \* schedule mails since the last reset: history for the properties
  crashes, changes

vars == <<auth, cred, sched, lock, pc, at, ago, mails, told, crashes, changes>>
tables == <<auth, cred, sched>>
bounds == <<crashes, changes>>
history == <<mails, told>>

Rows == [attempts : 0..MaxAttempts, due : (-DueCap)..RetryGap]
ASSUME DueCapAssumption == DueCap <= RetryGap
ASSUME NoRowAssumption == NoRow \notin Rows

PCs == {"idle", "credTake", "credRead", "credSend", "credSent", "schedPick", "schedTake",
        "schedRead", "schedSend", "schedSent", "schedFailed"}
TypeOK ==
  /\ auth \in [Ids -> {"fine", "bad_credentials", "gone"}]
  /\ cred \in [Ids -> Rows \cup {NoRow}] /\ sched \in [Ids -> Rows \cup {NoRow}]
  /\ lock \in [Ids -> Threads \cup {Nobody}]
  /\ pc \in [Threads -> PCs] /\ at \in [Threads -> Ids \cup {NoId}]
  /\ ago \in 0..DueCap
  /\ mails \in [Ids -> Nat] /\ told \in [Ids -> Nat]
  /\ crashes \in 0..MaxCrashes /\ changes \in 0..MaxChanges

Init ==
  /\ auth = [a \in Ids |-> "fine"]
  /\ cred = [a \in Ids |-> NoRow] /\ sched = [a \in Ids |-> NoRow]
  /\ lock = [a \in Ids |-> Nobody]
  /\ pc = [t \in Threads |-> "idle"] /\ at = [t \in Threads |-> NoId] /\ ago = 0
  /\ mails = [a \in Ids |-> 0] /\ told = [a \in Ids |-> 0]
  /\ crashes = 0 /\ changes = 0

Goto(t, l) == pc' = [pc EXCEPT ![t] = l]
Let(t, a) == at' = [at EXCEPT ![t] = a]
Write(row, a, r) == row' = [row EXCEPT ![a] = r]

Take(t, a) == lock[a] = Nobody /\ lock' = [lock EXCEPT ![a] = t]
Free(t) == lock' = [lock EXCEPT ![at[t]] = Nobody] /\ Let(t, NoId)

\* The tick goes on to the schedule notices; a request ends.
Leave(t) == Goto(t, IF t = Sched THEN "schedPick" ELSE "idle") /\ Free(t)
Stay(t, l) == Goto(t, l) /\ UNCHANGED <<lock, at>>

NewRow == [attempts |-> 0, due |-> 0]
Tried(r, gap) == [attempts |-> r.attempts + 1, due |-> gap]
Change == changes < MaxChanges /\ changes' = changes + 1

\* The one of the rows in queue that a tick takes: least next_at, then least id.
First(a, row, queue) ==
  /\ a \in queue
  /\ \A b \in queue : row[a].due < row[b].due \/ (row[a].due = row[b].due /\ a <= b)
-----------------------------------------------------------------------------
(* What queues and cancels notices, each under the account lock. *)

\* Mutant: a notice is queued at every rejection.
MarkAgain(t, a) ==
  /\ pc[t] = "idle" /\ auth[a] # "gone" /\ Take(t, a)
  /\ Write(auth, a, "bad_credentials")
  /\ cred' = IF cred[a] = NoRow THEN [cred EXCEPT ![a] = NewRow] ELSE cred
  /\ IF auth[a] = "bad_credentials" THEN UNCHANGED changes ELSE Change
  /\ Goto(t, "credRead") /\ Let(t, a)
  /\ UNCHANGED <<sched, ago, history, crashes>>

\* mark_auth_failure: the school rejects the password.  A fault that is new
\* queues its notice, and the sending follows under the same lock.
Mark(t, a) ==
  /\ pc[t] = "idle" /\ auth[a] # "gone" /\ Take(t, a)
  /\ \/ auth[a] = "bad_credentials" /\ UNCHANGED <<auth, cred, changes>>
     \/ /\ auth[a] = "fine" /\ Change
        /\ Write(auth, a, "bad_credentials")
        /\ cred' = IF cred[a] = NoRow THEN [cred EXCEPT ![a] = NewRow] ELSE cred
  /\ Goto(t, "credRead") /\ Let(t, a)
  /\ UNCHANGED <<sched, ago, history, crashes>>

\* update_account and set_auth_error that clear the fault or note another kind
\* delete the notice with it.
Recover(a) ==
  /\ lock[a] = Nobody /\ auth[a] = "bad_credentials"
  /\ Write(auth, a, "fine") /\ Write(cred, a, NoRow) /\ Write(mails, a, 0)
  /\ UNCHANGED <<sched, lock, pc, at, ago, told, bounds>>

\* reset_not_before in the transaction that stores the school's window.
Reset(a) ==
  /\ lock[a] = Nobody /\ auth[a] # "gone" /\ Change
  /\ Write(sched, a, NewRow) /\ Write(told, a, 0)
  /\ UNCHANGED <<auth, cred, lock, pc, at, ago, mails, crashes>>

\* delete_account; ON DELETE CASCADE
Delete(a) ==
  /\ lock[a] = Nobody /\ auth[a] # "gone"
  /\ Write(auth, a, "gone") /\ Write(cred, a, NoRow) /\ Write(sched, a, NoRow)
  /\ UNCHANGED <<lock, pc, at, ago, history, bounds>>
-----------------------------------------------------------------------------
(* retry_credential_notices and send_credential_notice. *)

\* Mutant: rows that are used up stay in the query.
CredPickEver(r) == r # NoRow /\ r.due <= 0

\* The WHERE of due_credential_notices.
CredPick(r) == r # NoRow /\ r.due <= 0 /\ r.attempts < MaxAttempts

\* Mutant: the attempts are not looked at again.
CredTryEver(r) == r # NoRow /\ r.due <= 0

\* The checks of send_credential_notice, with the time of that moment.
CredTry(r) == r # NoRow /\ r.due <= 0 /\ r.attempts < MaxAttempts

\* One credential notice a tick.
TickCred ==
  /\ pc[Sched] = "idle"
  /\ LET queue == {a \in Ids : CredPick(cred[a])} IN
     \/ \E a \in Ids : First(a, cred, queue) /\ Goto(Sched, "credTake") /\ Let(Sched, a)
     \/ queue = {} /\ Goto(Sched, "schedPick") /\ UNCHANGED at
  /\ UNCHANGED <<tables, lock, ago, history, bounds>>

\* Mutant: the tick sends without the account lock.
CredTakeNothing(t) ==
  /\ pc[t] = "credTake"
  /\ Goto(t, "credRead")
  /\ UNCHANGED <<tables, lock, at, ago, history, bounds>>

CredTake(t) ==
  /\ pc[t] = "credTake" /\ Take(t, at[t])
  /\ Goto(t, "credRead")
  /\ UNCHANGED <<tables, at, ago, history, bounds>>

\* Mutant: the row is gone before the mail is out.
CredReadOnce(t) ==
  /\ pc[t] = "credRead"
  /\ LET a == at[t]
     IN  \/ CredTry(cred[a]) /\ Write(cred, a, NoRow) /\ Stay(t, "credSend")
         \/ ~CredTry(cred[a]) /\ UNCHANGED cred /\ Leave(t)
  /\ UNCHANGED <<auth, sched, ago, history, bounds>>

\* The row is read again.  A row without its fault goes.  If it is due, the
\* attempt is counted before the mail is sent.
CredRead(t) ==
  /\ pc[t] = "credRead"
  /\ LET a == at[t]
     IN  \/ auth[a] # "bad_credentials" /\ Write(cred, a, NoRow) /\ Leave(t)
         \/ /\ auth[a] = "bad_credentials" /\ CredTry(cred[a])
            /\ Write(cred, a, Tried(cred[a], RetryGap))
            /\ Stay(t, "credSend")
         \/ auth[a] = "bad_credentials" /\ ~CredTry(cred[a]) /\ UNCHANGED cred /\ Leave(t)
  /\ UNCHANGED <<auth, sched, ago, history, bounds>>

\* The mail goes out, or not, whatever its sender is told; only an answer
\* that it is sent ends the notice.
CredSend(t) ==
  /\ pc[t] = "credSend"
  /\ \/ Write(mails, at[t], mails[at[t]] + 1) /\ Stay(t, "credSent")
     \/ mails' \in {mails, [mails EXCEPT ![at[t]] = @ + 1]} /\ Leave(t)
  /\ UNCHANGED <<tables, ago, told, bounds>>

CredSent(t) ==
  /\ pc[t] = "credSent"
  /\ Write(cred, at[t], NoRow)
  /\ Leave(t)
  /\ UNCHANGED <<auth, sched, ago, history, bounds>>
-----------------------------------------------------------------------------
(* retry_schedule_notices.  The tick reads the clock once, before it waits *)
(* for the account.                                                        *)

Exhausted(r) == r.attempts >= MaxAttempts

\* The WHERE of due_schedule_notices.
SchedPick(r) == r # NoRow /\ (r.due <= 0 \/ Exhausted(r))

\* One schedule notice a tick; without one the tick is over.
TickSched ==
  /\ pc[Sched] = "schedPick"
  /\ LET queue == {a \in Ids : SchedPick(sched[a])} IN
     \/ \E a \in Ids : First(a, sched, queue) /\ Goto(Sched, "schedTake") /\ Let(Sched, a)
     \/ queue = {} /\ Goto(Sched, "idle") /\ UNCHANGED at
  /\ ago' = 0
  /\ UNCHANGED <<tables, lock, history, bounds>>

SchedTake(t) ==
  /\ pc[t] = "schedTake" /\ Take(t, at[t])
  /\ Goto(t, "schedRead")
  /\ UNCHANGED <<tables, at, ago, history, bounds>>

SchedEnd(t) == Goto(t, "idle") /\ Free(t)

\* The row is read again: it is gone, or queued anew since the tick read the
\* clock; or is given up; or is tried.
SchedRead(t) ==
  /\ pc[t] = "schedRead"
  /\ LET row == sched[at[t]] IN
     \/ row = NoRow /\ UNCHANGED sched /\ SchedEnd(t)
     \/ row # NoRow /\ Exhausted(row) /\ Write(sched, at[t], NoRow) /\ SchedEnd(t)
     \/ /\ row # NoRow /\ ~Exhausted(row) /\ row.due + ago > 0
        /\ UNCHANGED sched /\ SchedEnd(t)
     \/ /\ row # NoRow /\ ~Exhausted(row) /\ row.due + ago <= 0
        /\ Write(sched, at[t], Tried(row, RetryGap - ago))
        /\ Stay(t, "schedSend")
  /\ ago' = 0
  /\ UNCHANGED <<auth, cred, history, bounds>>

\* The last attempt ends the notice also when it fails.
SchedSend(t) ==
  /\ pc[t] = "schedSend"
  /\ \/ Write(told, at[t], told[at[t]] + 1) /\ Stay(t, "schedSent")
     \/ /\ told' \in {told, [told EXCEPT ![at[t]] = @ + 1]}
        /\ IF Exhausted(sched[at[t]]) THEN Stay(t, "schedSent") ELSE SchedEnd(t)
  /\ UNCHANGED <<tables, ago, mails, bounds>>

SchedSent(t) ==
  /\ pc[t] = "schedSent"
  /\ Write(sched, at[t], NoRow)
  /\ SchedEnd(t)
  /\ UNCHANGED <<auth, cred, ago, history, bounds>>
-----------------------------------------------------------------------------
Older(r) == IF r = NoRow \/ r.due = -DueCap THEN r ELSE [r EXCEPT !.due = @ - 1]

Pass ==
  /\ cred' = [a \in Ids |-> Older(cred[a])] /\ sched' = [a \in Ids |-> Older(sched[a])]
  /\ ago' = IF pc[Sched] \in {"schedTake", "schedRead"} /\ ago < DueCap THEN ago + 1 ELSE ago
  /\ UNCHANGED <<auth, lock, pc, at, history, bounds>>

\* The process ends and is started again.
Crash ==
  /\ crashes < MaxCrashes
  /\ crashes' = crashes + 1
  /\ pc' = [t \in Threads |-> "idle"] /\ lock' = [a \in Ids |-> Nobody]
  /\ at' = [t \in Threads |-> NoId] /\ ago' = 0
  /\ UNCHANGED <<tables, history, changes>>

Sending(t) ==
  CredRead(t) \/ CredSend(t) \/ CredSent(t) \/ SchedRead(t) \/ SchedSend(t) \/ SchedSent(t)
TickStep == TickCred \/ TickSched

Next ==
  \/ \E w \in Web, a \in Ids : Mark(w, a)
  \/ \E a \in Ids : Recover(a) \/ Reset(a) \/ Delete(a)
  \/ TickStep \/ CredTake(Sched) \/ SchedTake(Sched)
  \/ \E t \in Threads : Sending(t)
  \/ Pass \/ Crash

Spec == Init /\ [][Next]_vars

(***************************************************************************)
(* Threads run and mails have a timeout; ticks come again and again; time  *)
(* passes.  The tick gets the account lock in the end, which is free most  *)
(* of the time.  Nothing is assumed of the mail service or of the users.   *)
(***************************************************************************)
Fairness ==
  /\ \A t \in Threads : WF_vars(Sending(t))
  /\ WF_vars(TickStep) /\ WF_vars(Pass)
  /\ SF_vars(CredTake(Sched)) /\ SF_vars(SchedTake(Sched))

FairSpec == Spec /\ Fairness
-----------------------------------------------------------------------------
(* Properties. *)

\* A fault is reported by at most MAX_NOTICE_ATTEMPTS mails, and a reset too,
\* through restarts at any point: the attempt is counted before the mail goes out.
MailsBounded == \A a \in Ids : mails[a] <= MaxAttempts /\ told[a] <= MaxAttempts

\* Nobody is told of a fault that is over: while a credential mail is sent, the
\* account has its fault, however long the tick has waited for the account.
NoMailAfterRecovery ==
  \A t \in Threads : pc[t] = "credSend" => auth[at[t]] = "bad_credentials"

\* A fault is never forgotten: as long as it lasts, its notice is queued or a
\* mail went out.
FaultReported ==
  \A a \in Ids : auth[a] = "bad_credentials" => cred[a] # NoRow \/ mails[a] > 0

\* No notice is stuck: every one ends or uses its attempts up, although a tick
\* takes one of each kind, rows that are used up stay in the table and a row may
\* be queued anew while the tick waits for its account.
NoticesMove ==
  \A a \in Ids :
    /\ cred[a] # NoRow ~> (cred[a] = NoRow \/ cred[a].attempts = MaxAttempts)
    /\ sched[a] # NoRow ~> sched[a] = NoRow
=============================================================================
