---------------------------- MODULE CheckinProof ----------------------------
(***************************************************************************)
(* Proofs about Checkin, for any number of request threads and any bounds, *)
(* whether the account exists at the start (Spec) or is yet to be added    *)
(* (SpecFromCreation).  The inductive invariant IInv says of each thread   *)
(* what its place in the code implies for its locals, for the lock and for *)
(* the rows it has read.  RInv adds the numbers under which runs are to be *)
(* recorded, HInv their order, TruthInv the check-ins behind what is       *)
(* recorded, and CountInv the runs that a window holds.                    *)
(***************************************************************************)
EXTENDS Checkin, SequenceTheorems, FiniteSetTheorems, TLAPS

\* Which operation a thread executes at each place.
OpOK(t) ==
  /\ pc[t] \in {"check", "begin"} \cup (Running \ {"login", "disable"}) => job[t].op \in RunOps
  /\ pc[t] = "login" => job[t].op \in RunOps \cup {"refresh", "relogin"}
  /\ pc[t] = "disable" => job[t].op \in RunOps \cup {"refresh", "relogin", "update"}
  /\ pc[t] = "edit" => job[t].op \in {"update", "delete"}
  /\ pc[t] = "lock" => job[t].op \in Ops \ {"create"}

\* What the locals of a run hold, and that no verification is pending.
RunOK(t) ==
  /\ pc[t] \in Running /\ job[t].op \in RunOps => job[t].run >= 1 /\ task = NoTask
  /\ pc[t] \in Running \ {"attempt"} /\ job[t].op \in RunOps => job[t].day >= 1
  /\ pc[t] \in {"window", "persist"} => job[t].answer \in Answers
  /\ pc[t] \in {"record", "settle"} => job[t].result \in Statuses
  /\ pc[t] = "mark" => job[t].run >= 1 /\ job[t].day >= 1

\* What the locals of a resolution hold: its task is the pending one, if that
\* was not purged meanwhile.
VerifyOK(t) ==
  /\ pc[t] \in {"review", "conclude"} =>
       job[t].task \in Tasks /\ (task # NoTask => task.rounds = job[t].task.rounds)
  /\ pc[t] = "conclude" =>
       /\ job[t].result \in {"success", "failed", "again"}
       /\ job[t].result = "again" => job[t].task.rounds + 1 < MaxRounds

LockOK(t) == pc[t] \in Locked => lock = t

\* Under the lock the account exists, and is switched on if the run relies
\* on it.
SwitchOK(t) ==
  /\ pc[t] \in Locked => account.life = "live"
  /\ pc[t] \in ({"begin"} \cup Running) \ {"record", "settle"} /\ job[t].snap.enabled
       => account.enabled
  /\ pc[t] \in Running \ {"attempt", "record", "settle"} /\ job[t].op = "schedule"
       => account.enabled

LocalOK(t) == OpOK(t) /\ RunOK(t) /\ VerifyOK(t) /\ LockOK(t) /\ SwitchOK(t)

IInv == TypeOK /\ \A t \in Threads : LocalOK(t)
-----------------------------------------------------------------------------
(* The locals of a thread. *)

\* The locals of an idle thread have their types.
LEMMA NoJobType == NoJob \in Jobs
BY LimitAssumption DEF NoJob, Jobs, NewAccount, Accounts, NoLast, LastRuns

\* A job of any operation that has not begun.
LEMMA NewJobType == \A op \in Ops : [NoJob EXCEPT !.op = op] \in Jobs
<1>1. SUFFICES ASSUME NEW op \in Ops PROVE [NoJob EXCEPT !.op = op] \in Jobs
  OBVIOUS
<1> QED
  BY NoJobType DEF Jobs

\* The fields of a job.
LEMMA JobFields ==
  ASSUME NEW j \in Jobs
  PROVE  /\ j.op \in Ops \cup {"none"} /\ j.snap \in Accounts /\ j.run \in Nat
         /\ j.day \in 0..MaxDay /\ j.hour \in 0..MaxHour /\ j.tries \in 0..Exits /\ j.relogged \in BOOLEAN
         /\ j.answer \in Answers \cup {"none"} /\ j.result \in Results \cup {"none"}
         /\ j.task \in Tasks \cup {NoTask}
BY DEF Jobs

\* Dropping the scratch locals of an attempt keeps the others.
LEMMA SpentJob ==
  ASSUME NEW j \in Jobs
  PROVE  /\ Spent(j) \in Jobs
         /\ Spent(j).op = j.op /\ Spent(j).run = j.run /\ Spent(j).day = j.day
         /\ Spent(j).snap = j.snap /\ Spent(j).hour = j.hour
<1>1. 0 \in 0..Exits /\ FALSE \in BOOLEAN /\ "none" \in Answers \cup {"none"}
  BY LimitAssumption
<1>2. Spent(j) \in Jobs
  BY <1>1 DEF Spent, Jobs
<1> QED
  BY <1>2 DEF Spent, Jobs

\* The effect of a step of thread t on the other threads: none.
Moved(t) ==
  /\ pc' \in [Threads -> PCs] /\ job' \in [Threads -> Jobs]
  /\ \A u \in Threads \ {t} : pc'[u] = pc[u] /\ job'[u] = job[u]

\* Moving a thread and setting its locals leaves the other threads alone.
LEMMA Move ==
  ASSUME TypeOK, NEW t \in Threads, NEW l \in PCs, NEW j \in Jobs, Goto(t, l), Let(t, j)
  PROVE  Moved(t) /\ pc'[t] = l /\ job'[t] = j
BY DEF Goto, Let, Moved, TypeOK

\* Moving a thread with its locals unchanged.
LEMMA MoveOn ==
  ASSUME TypeOK, NEW t \in Threads, NEW l \in PCs, Goto(t, l), job' = job
  PROVE  Moved(t) /\ pc'[t] = l /\ job'[t] = job[t]
BY DEF Goto, Moved, TypeOK

\* A call that leaves the lock ends idle.
LEMMA LeaveMoves ==
  ASSUME TypeOK, NEW t \in Threads, Leave(t)
  PROVE  /\ Moved(t) /\ lock' = Nobody
         /\ pc'[t] = "idle" /\ LocalOK(t)'
<1>1. Moved(t) /\ pc'[t] = "idle" /\ job'[t] = NoJob
  BY Move, NoJobType DEF Leave, PCs
<1> QED
  BY <1>1 DEF Leave, LocalOK, OpOK, RunOK, VerifyOK, LockOK, SwitchOK, Locked, Running

\* So does a call that returns without having taken it.
LEMMA ReturnMoves ==
  ASSUME TypeOK, NEW t \in Threads, Return(t)
  PROVE  /\ Moved(t) /\ lock' = lock
         /\ pc'[t] = "idle" /\ LocalOK(t)'
<1>1. Moved(t) /\ pc'[t] = "idle" /\ job'[t] = NoJob
  BY Move, NoJobType DEF Return, PCs
<1> QED
  BY <1>1 DEF Return, LocalOK, OpOK, RunOK, VerifyOK, LockOK, SwitchOK, Locked, Running

\* A step of a run ends it, or keeps its identity and what it has read.
Carries(t) ==
  /\ Moved(t)
  /\ \/ pc'[t] = "idle"
     \/ /\ pc'[t] \in Running \ {"settle"}
        /\ job'[t].op = job[t].op /\ job'[t].run = job[t].run /\ job'[t].snap = job[t].snap
        /\ \/ job'[t].day = job[t].day /\ job'[t].hour = job[t].hour
           \/ job'[t].day = day /\ job'[t].hour = hour

\* A run that has its result goes on to record it.
LEMMA FinishMoves ==
  ASSUME IInv, NEW t \in Threads, pc[t] \in Running \ {"attempt"}, job[t].op \in RunOps,
         NEW s \in Statuses, Finish(t, s), task' = task, account'.life = account.life
  PROVE  Carries(t) /\ LocalOK(t)' /\ lock' = lock /\ pc'[t] = "record"
<1> DEFINE j == [Spent(job[t]) EXCEPT !.result = s]
<1>1. job[t] \in Jobs
  BY DEF IInv, TypeOK
<1>2. j \in Jobs /\ j.op = job[t].op /\ j.run = job[t].run /\ j.day = job[t].day /\ j.result = s
      /\ j.snap = job[t].snap /\ j.hour = job[t].hour
  BY <1>1, SpentJob DEF Jobs, Results
<1>3. Moved(t) /\ pc'[t] = "record" /\ job'[t] = j
  BY <1>2, Move DEF Finish, PCs, IInv
<1>4. LocalOK(t)
  BY DEF IInv
<1> QED
  BY <1>2, <1>3, <1>4
  DEF Finish, LocalOK, OpOK, RunOK, VerifyOK, LockOK, SwitchOK, Carries, Locked, Running, RunOps

\* An attempt whose exit was unreachable is repeated, or fails.
LEMMA RetryMoves ==
  ASSUME IInv, NEW t \in Threads, pc[t] \in {"login", "query", "persist"},
         job[t].op \in RunOps, Retry(t), task' = task,
         account'.life = account.life, account'.enabled = account.enabled
  PROVE  Carries(t) /\ LocalOK(t)' /\ lock' = lock
<1>1. job[t] \in Jobs /\ day \in 0..MaxDay /\ day >= 1 /\ hour \in 0..MaxHour
  BY LimitAssumption DEF IInv, TypeOK
<1>2. LocalOK(t)
  BY DEF IInv
<1>3. CASE job[t].tries + 1 < Exits
  <2> DEFINE j == [job[t] EXCEPT !.tries = @ + 1, !.relogged = FALSE, !.answer = "none"]
  <2>1. job[t].tries + 1 \in 0..Exits /\ job[t].tries \in 0..Exits
    BY <1>1, <1>3, JobFields, LimitAssumption
  <2>2. /\ j \in Jobs /\ j.op = job[t].op /\ j.run = job[t].run /\ j.snap = job[t].snap
        /\ j.day = job[t].day /\ j.hour = job[t].hour
    BY <1>1, <2>1 DEF Jobs
  <2>3. Goto(t, "attempt") /\ Let(t, j) /\ lock' = lock
    BY <1>3, <1>1, <2>1, LimitAssumption DEF Retry
  <2>4. Moved(t) /\ pc'[t] = "attempt" /\ job'[t] = j
    BY <2>2, <2>3, Move DEF PCs, IInv
  <2> QED
    BY <1>2, <2>2, <2>3, <2>4
    DEF LocalOK, OpOK, RunOK, VerifyOK, LockOK, SwitchOK, Carries, Locked, Running, RunOps
<1>4. CASE ~(job[t].tries + 1 < Exits)
  <2> DEFINE j == [Spent(job[t]) EXCEPT !.day = day, !.hour = hour, !.result = "failed"]
  <2>2. j \in Jobs /\ j.op = job[t].op /\ j.run = job[t].run /\ j.day = day /\ j.result = "failed"
        /\ j.snap = job[t].snap /\ j.hour = hour
    BY <1>1, SpentJob DEF Jobs, Results, Statuses
  <2>3. Goto(t, "record") /\ Let(t, j) /\ lock' = lock
    BY <1>4, <1>1 DEF Retry
  <2>4. Moved(t) /\ pc'[t] = "record" /\ job'[t] = j
    BY <2>2, <2>3, Move DEF PCs, IInv
  <2> QED
    BY <1>1, <1>2, <2>2, <2>3, <2>4
    DEF LocalOK, OpOK, RunOK, VerifyOK, LockOK, SwitchOK, Carries, Locked, Running, RunOps, Statuses
<1> QED
  BY <1>3, <1>4

\* An error ends a refresh or relogin, and fails a run.
LEMMA FailMoves ==
  ASSUME IInv, NEW t \in Threads, pc[t] \in {"login", "disable"} \/ job[t].op = "update",
         Fail(t), task' = task, account'.life = account.life
  PROVE  Carries(t) /\ LocalOK(t)' /\ lock' \in {lock, Nobody}
<1>1. CASE job[t].op \in RunOps /\ Finish(t, "failed")
  <2>1. pc[t] \in Running \ {"attempt"} /\ "failed" \in Statuses
    BY <1>1 DEF Running, Statuses, RunOps
  <2> QED
    BY <1>1, <2>1, FinishMoves
<1>2. CASE Leave(t)
  BY <1>2, LeaveMoves DEF IInv, Carries
<1> QED
  BY <1>1, <1>2 DEF Fail
-----------------------------------------------------------------------------
(* One step at a time. *)

\* A step of t under the lock, or one that changes neither the pending
\* verification nor what the account promises, keeps what holds of the others.
LEMMA OthersKeep ==
  ASSUME IInv, NEW t \in Threads, Moved(t),
         \/ pc[t] \in Locked
         \/ /\ task' = task /\ lock' \in {lock, t} /\ (lock' = t => lock \in {t, Nobody})
            /\ account.life = "live" =>
                 account'.life = "live" /\ (account.enabled => account'.enabled)
  PROVE  \A u \in Threads \ {t} : LocalOK(u)'
<1> SUFFICES ASSUME NEW u \in Threads \ {t} PROVE LocalOK(u)'
  OBVIOUS
<1>1. LocalOK(u) /\ LocalOK(t) /\ pc'[u] = pc[u] /\ job'[u] = job[u]
  BY DEF IInv, Moved
<1>2. CASE pc[u] \notin Locked
  <2>1. pc[u] \notin Running /\ pc[u] \notin {"begin", "review", "conclude", "record", "settle", "persist"}
    BY <1>2 DEF Locked, Running
  <2> QED
    BY <1>1, <1>2, <2>1 DEF LocalOK, OpOK, RunOK, VerifyOK, LockOK, SwitchOK
<1>3. CASE pc[u] \in Locked
  <2>1. lock = u /\ pc[t] \notin Locked
    BY <1>1, <1>3 DEF LocalOK, LockOK
  <2>2. lock' = u /\ task' = task
    BY <2>1, ThreadAssumption DEF Threads
  <2> QED
    BY <1>1, <1>3, <2>1, <2>2 DEF LocalOK, OpOK, RunOK, VerifyOK, LockOK, SwitchOK
<1> QED
  BY <1>2, <1>3

\* What a step of t owes for IInv.
LEMMA Assemble ==
  ASSUME IInv, NEW t \in Threads, Moved(t), LocalOK(t)',
         \/ pc[t] \in Locked
         \/ /\ task' = task /\ lock' \in {lock, t} /\ (lock' = t => lock \in {t, Nobody})
            /\ account.life = "live" =>
                 account'.life = "live" /\ (account.enabled => account'.enabled),
         account' \in Accounts, task' \in Tasks \cup {NoTask}, records' \in Seq(Records),
         lock' \in Threads \cup {Nobody}, landed' \in SUBSET (1..MaxDay),
         day' = day, hour' = hour, visible' \in BOOLEAN, moved' \in BOOLEAN, tick' \in {"verify", "batch", "refresh"},
         runs' \in Nat, calls' \in 0..MaxCalls, crashes' = crashes
  PROVE  IInv'
<1>1. TypeOK'
  BY DEF IInv, TypeOK, Moved
<1>2. \A u \in Threads : LocalOK(u)'
  BY OthersKeep
<1> QED
  BY <1>1, <1>2 DEF IInv

\* Taking the lock, and the checks around it.
LEMMA LockKeeps ==
  ASSUME IInv, NEW t \in Threads, Lock(t) \/ Check(t)
  PROVE  IInv'
<1>1. CASE Check(t) /\ task # NoTask
  <2>1. Return(t) /\ UNCHANGED db /\ Steady
    BY <1>1 DEF Check
  <2>2. Moved(t) /\ LocalOK(t)' /\ lock' = lock
    BY <2>1, ReturnMoves DEF IInv
  <2> QED
    BY <2>1, <2>2, Assemble DEF IInv, TypeOK, Steady, clock, db, school, counters
<1>2. CASE Check(t) /\ task = NoTask
  <2>1. Goto(t, "lock") /\ UNCHANGED <<job, lock>> /\ UNCHANGED db /\ Steady /\ pc[t] = "check"
    BY <1>2 DEF Check
  <2>2. Moved(t) /\ pc'[t] = "lock" /\ job'[t] = job[t]
    BY <2>1, MoveOn DEF PCs, IInv
  <2>3. LocalOK(t)'
    BY <2>1, <2>2 DEF IInv, LocalOK, OpOK, RunOK, VerifyOK, LockOK, SwitchOK, Locked, Running, RunOps, Ops
  <2> QED
    BY <2>1, <2>2, <2>3, Assemble DEF IInv, TypeOK, Steady, clock, db, school, counters
<1>3. CASE Lock(t) /\ account.life # "live"
  <2>1. Return(t) /\ UNCHANGED db /\ Steady
    BY <1>3 DEF Lock
  <2>2. Moved(t) /\ LocalOK(t)' /\ lock' = lock
    BY <2>1, ReturnMoves DEF IInv
  <2> QED
    BY <2>1, <2>2, Assemble DEF IInv, TypeOK, Steady, clock, db, school, counters
<1>4. CASE Lock(t) /\ account.life = "live"
  <2> DEFINE j == [job[t] EXCEPT !.snap = account]
             l == Body(job[t].op)
  <2>1. /\ lock = Nobody /\ lock' = t /\ Goto(t, l) /\ Let(t, j)
        /\ UNCHANGED db /\ Steady /\ pc[t] = "lock"
    BY <1>4 DEF Lock
  <2>2. job[t].op \in Ops \ {"create"} /\ job[t] \in Jobs /\ account \in Accounts
    BY <2>1 DEF IInv, LocalOK, OpOK, TypeOK
  <2>3. j \in Jobs /\ j.op = job[t].op /\ j.snap = account
    BY <2>2 DEF Jobs
  <2>4. /\ l \in {"begin", "login", "resolve", "edit"}
        /\ l = "begin" => j.op \in RunOps
        /\ l = "login" => j.op \in {"refresh", "relogin"}
        /\ l = "edit" => j.op \in {"update", "delete"}
    BY <2>2, <2>3 DEF Body, Ops, RunOps
  <2>5. Moved(t) /\ pc'[t] = l /\ job'[t] = j
    BY <2>1, <2>3, <2>4, Move DEF PCs, IInv
  <2>6. LocalOK(t)'
    <3> HIDE DEF j, l
    <3>1. account' = account /\ account.life = "live"
      BY <1>4, <2>1 DEF db
    <3> QED
      BY <2>1, <2>3, <2>4, <2>5, <3>1 DEF LocalOK, OpOK, RunOK, VerifyOK, LockOK, SwitchOK, Locked, Running, RunOps
  <2> QED
    BY <2>1, <2>5, <2>6, Assemble DEF IInv, TypeOK, Steady, clock, db, school, counters
<1> QED
  BY <1>1, <1>2, <1>3, <1>4 DEF Lock, Check

\* Entering the run.
LEMMA BeginKeeps ==
  ASSUME IInv, NEW t \in Threads, Begin(t)
  PROVE  IInv'
<1>1. pc[t] = "begin" /\ pc[t] \in Locked /\ LocalOK(t) /\ job[t] \in Jobs /\ runs \in Nat
  BY DEF Begin, Locked, IInv, TypeOK
<1>2. CASE Leave(t) /\ UNCHANGED runs
  BY <1>1, <1>2, LeaveMoves, Assemble DEF Begin, IInv, TypeOK, db, clock, school
<1>3. CASE task = NoTask /\ Enter(t)
  <2> DEFINE j == [job[t] EXCEPT !.run = runs + 1]
  <2>1. runs' = runs + 1 /\ runs' \in Nat /\ Goto(t, "attempt") /\ Let(t, j) /\ lock' = lock
    BY <1>1, <1>3 DEF Enter
  <2>2. j \in Jobs /\ j.op = job[t].op /\ j.run >= 1 /\ j.snap = job[t].snap
    BY <1>1 DEF Jobs
  <2>3. Moved(t) /\ pc'[t] = "attempt" /\ job'[t] = j
    BY <2>1, <2>2, Move DEF PCs, IInv
  <2>4. LocalOK(t)'
    BY <1>1, <1>3, <2>1, <2>2, <2>3
    DEF Begin, db, LocalOK, OpOK, RunOK, VerifyOK, LockOK, SwitchOK, Locked, Running, RunOps
  <2> QED
    BY <1>1, <2>1, <2>3, <2>4, Assemble DEF Begin, IInv, TypeOK, db, clock, school
<1> QED
  BY <1>2, <1>3 DEF Begin

\* Moving on inside a run with only scratch locals changed.
LEMMA RunGoes ==
  ASSUME IInv, NEW t \in Threads, pc[t] \in Running, job[t].op \in RunOps,
         NEW l \in Running \ {"window", "persist", "record", "settle"},
         NEW j \in Jobs, j.op = job[t].op, j.run = job[t].run, j.snap = job[t].snap,
         j.day >= 1,
         (j.day = job[t].day /\ j.hour = job[t].hour) \/ (j.day = day /\ j.hour = hour),
         job[t].op = "schedule" => account.enabled,
         pc[t] \notin {"record", "settle"},
         Goto(t, l), Let(t, j), lock' = lock, task' = task,
         account'.life = account.life, account'.enabled = account.enabled
  PROVE  Carries(t) /\ LocalOK(t)'
<1>1. Moved(t) /\ pc'[t] = l /\ job'[t] = j
  BY Move DEF PCs, Running, IInv
<1>2. LocalOK(t)
  BY DEF IInv
<1> QED
  BY <1>1, <1>2 DEF LocalOK, OpOK, RunOK, VerifyOK, LockOK, SwitchOK, Carries, Locked, Running, RunOps

\* The start of an attempt.
LEMMA AttemptKeeps ==
  ASSUME IInv, NEW t \in Threads, Attempt(t)
  PROVE  IInv' /\ Carries(t)
<1> DEFINE j == [job[t] EXCEPT !.day = day, !.hour = hour]
<1>1. /\ pc[t] = "attempt" /\ pc[t] \in Running /\ pc[t] \in Locked /\ LocalOK(t)
      /\ job[t] \in Jobs /\ day \in 0..MaxDay /\ day >= 1 /\ hour \in 0..MaxHour
      /\ job[t].op \in RunOps /\ UNCHANGED <<db, lock>> /\ Steady
  BY LimitAssumption DEF Attempt, Locked, Running, IInv, TypeOK, LocalOK, OpOK
<1>2. /\ j \in Jobs /\ j.op = job[t].op /\ j.run = job[t].run /\ j.snap = job[t].snap
      /\ j.day = day /\ j.hour = hour
  BY <1>1 DEF Jobs
<1>3. UNCHANGED <<account, task, records, lock, day, hour, landed, visible, tick, moved, runs, calls, crashes>>
  BY <1>1 DEF Steady, clock, db, school, counters
<1>4. ASSUME NEW l \in {"query", "login"}, j.op = "manual" \/ j.snap.enabled, Goto(t, l), Let(t, j)
      PROVE  Carries(t) /\ LocalOK(t)'
  <2>1. job[t].op = "schedule" => account.enabled
    BY <1>1, <1>2, <1>4 DEF LocalOK, SwitchOK, Running
  <2>2. l \in Running \ {"window", "persist", "record", "settle"}
    BY DEF Running
  <2> HIDE DEF j
  <2> QED
    BY <1>1, <1>2, <1>3, <1>4, <2>1, <2>2, RunGoes
<1>5. ASSUME Goto(t, "record"), Let(t, [Spent(j) EXCEPT !.result = "failed"])
      PROVE  Carries(t) /\ LocalOK(t)'
  <2> DEFINE k == [Spent(j) EXCEPT !.result = "failed"]
  <2>1. k \in Jobs /\ k.op = j.op /\ k.run = j.run /\ k.day = j.day /\ k.result = "failed"
        /\ k.snap = j.snap /\ k.hour = j.hour
    <3> HIDE DEF j
    <3> QED BY <1>2, SpentJob DEF Jobs, Results, Statuses
  <2>2. Moved(t) /\ pc'[t] = "record" /\ job'[t] = k
    BY <1>5, <2>1, Move DEF PCs, IInv
  <2> HIDE DEF j, k
  <2> QED
    BY <1>1, <1>2, <1>3, <2>1, <2>2
    DEF LocalOK, OpOK, RunOK, VerifyOK, LockOK, SwitchOK, Carries, Locked, Running, RunOps, Statuses
<1>6. Carries(t) /\ LocalOK(t)'
  BY <1>4, <1>5 DEF Attempt
<1> QED
  BY <1>1, <1>3, <1>6, Assemble DEF IInv, TypeOK, Carries

\* A login, its failure, a switch, a window and a deletion keep the account's
\* type, and what they do not write.
LEMMA AuthWrites ==
  ASSUME account \in Accounts, day \in 1..MaxDay
  PROVE  /\ Persisted \in Accounts /\ Persisted.life = account.life
         /\ Persisted.enabled = account.enabled /\ Persisted.last = account.last
         /\ \A x \in {"none", "other", "bad_credentials"} :
              LET a == [account EXCEPT !.auth = x]
              IN  /\ a \in Accounts /\ a.life = account.life /\ a.enabled = account.enabled
                  /\ a.last = account.last /\ a.token = account.token
<1>1. day \in 0..MaxDay
  BY LimitAssumption
<1> QED
  BY <1>1 DEF Persisted, Accounts

\* Writing the window keeps the account's type, and what it does not write.
LEMMA WindowWrites ==
  ASSUME account \in Accounts, NEW w \in Windows \cup {account.window},
         account' = [account EXCEPT !.window = w]
  PROVE  /\ account' \in Accounts /\ account'.life = account.life
         /\ account'.enabled = account.enabled /\ account'.last = account.last
BY DEF Accounts

\* What an update writes.
LEMMA UpdateWrites ==
  ASSUME account \in Accounts, day \in 1..MaxDay, NEW t \in Threads, Update(t)
  PROVE  account'.last = account.last /\ account'.life = account.life
<1>1. CASE AuthFails(t)
  BY <1>1, AuthWrites DEF AuthFails
<1>2. Persisted \in Accounts /\ Persisted.last = account.last /\ Persisted.life = account.life
  BY AuthWrites
<1>3. ASSUME NEW e \in BOOLEAN, NEW w \in Windows \cup {account.window},
             account' \in {[account EXCEPT !.enabled = e],
                          [account EXCEPT !.enabled = e, !.auth = "none"],
                          [Persisted EXCEPT !.enabled = e, !.window = w]}
      PROVE  account'.last = account.last /\ account'.life = account.life
  BY <1>2, <1>3 DEF Accounts
<1> QED
  BY <1>1, <1>3 DEF Update

\* A recorded fault: the call ends, or goes on to switch the account off.
LEMMA AuthFailMoves ==
  ASSUME IInv, NEW t \in Threads, AuthFails(t), task' = task,
         \/ pc[t] = "login" /\ job[t].op \in RunOps \cup {"refresh", "relogin"}
         \/ pc[t] = "edit" /\ job[t].op = "update"
  PROVE  /\ Carries(t) /\ LocalOK(t)' /\ lock' \in {lock, Nobody}
         /\ account' \in Accounts /\ account'.life = account.life
         /\ account'.enabled = account.enabled /\ account'.last = account.last
<1>1. /\ account \in Accounts /\ day \in 1..MaxDay /\ LocalOK(t) /\ pc[t] \in Locked
      /\ job[t].op \in RunOps \cup {"refresh", "relogin", "update"}
  BY DEF IInv, TypeOK, Locked, Running
<1>2. PICK x \in {"other", "bad_credentials"} : account' = [account EXCEPT !.auth = x]
  BY DEF AuthFails
<1>3. /\ account' \in Accounts /\ account'.life = account.life
      /\ account'.enabled = account.enabled /\ account'.last = account.last
  BY <1>1, <1>2, AuthWrites
<1>4. CASE Fail(t)
  BY <1>3, <1>4, FailMoves
<1>5. CASE account.enabled /\ Goto(t, "disable") /\ UNCHANGED <<job, lock>>
  <2>1. Moved(t) /\ pc'[t] = "disable" /\ job'[t] = job[t]
    BY <1>5, MoveOn DEF PCs, IInv
  <2>2. job[t].op \in RunOps => pc[t] = "login"
    BY DEF RunOps
  <2>3. LocalOK(t)'
    BY <1>1, <1>3, <1>5, <2>1, <2>2
    DEF LocalOK, OpOK, RunOK, VerifyOK, LockOK, SwitchOK, Locked, Running
  <2>4. IInv /\ job[t] \in Jobs
    BY DEF IInv, TypeOK
  <2> QED
    BY <1>3, <1>5, <2>1, <2>3 DEF Carries, Running
<1> QED
  BY <1>3, <1>4, <1>5 DEF AuthFails

\* A login, whatever comes of it.
LEMMA LoginKeeps ==
  ASSUME IInv, NEW t \in Threads, Login(t)
  PROVE  IInv' /\ Carries(t)
<1>1. /\ pc[t] = "login" /\ pc[t] \in Running /\ pc[t] \in Locked /\ LocalOK(t)
      /\ job[t] \in Jobs /\ account \in Accounts /\ day \in 1..MaxDay
      /\ UNCHANGED <<task, records, day, hour, landed, visible, tick, moved, runs, calls, crashes>>
  BY DEF Login, Locked, Running, IInv, TypeOK, Steady, clock, school, counters
<1>2. /\ job[t].op \in RunOps => job[t].day >= 1
      /\ job[t].op = "schedule" => account.enabled
      /\ job[t].op \in RunOps \cup {"refresh", "relogin"}
  BY <1>1 DEF LocalOK, OpOK, RunOK, SwitchOK, Running
<1>3. \/ AuthFails(t)
      \/ account' \in Accounts /\ account'.life = account.life /\ account'.enabled = account.enabled
  BY <1>1, AuthWrites DEF Login
<1>a. CASE AuthFails(t)
  BY <1>1, <1>2, <1>a, AuthFailMoves, Assemble DEF IInv, TypeOK, Carries
<1> SUFFICES ASSUME ~AuthFails(t) PROVE IInv' /\ Carries(t)
  BY <1>a
<1>4. ASSUME job[t].op \in RunOps, Goto(t, "query"), job' = job, lock' = lock
      PROVE  Carries(t) /\ LocalOK(t)'
  <2>1. Moved(t) /\ pc'[t] = "query" /\ job'[t] = job[t]
    BY <1>4, MoveOn DEF PCs, IInv
  <2> QED
    BY <1>1, <1>2, <1>3, <1>4, <2>1
    DEF LocalOK, OpOK, RunOK, VerifyOK, LockOK, SwitchOK, Carries, Locked, Running, RunOps
<1>5. ASSUME Leave(t) PROVE Carries(t) /\ LocalOK(t)' /\ lock' = Nobody
  BY <1>5, LeaveMoves DEF IInv, Carries
<1>6. ASSUME job[t].op = "manual", Finish(t, "failed") PROVE Carries(t) /\ LocalOK(t)' /\ lock' = lock
  BY <1>1, <1>3, <1>6, FinishMoves DEF Running, RunOps, Statuses
<1>7. ASSUME job[t].op \in RunOps, Retry(t) PROVE Carries(t) /\ LocalOK(t)' /\ lock' = lock
  BY <1>1, <1>3, <1>7, RetryMoves
<1>8. ASSUME Fail(t) PROVE Carries(t) /\ LocalOK(t)' /\ lock' \in {lock, Nobody}
  BY <1>1, <1>3, <1>8, FailMoves
<1>9. Carries(t) /\ LocalOK(t)' /\ lock' \in {lock, Nobody}
  BY <1>4, <1>5, <1>6, <1>7, <1>8 DEF Login
<1> QED
  BY <1>1, <1>3, <1>9, Assemble DEF IInv, TypeOK, Carries

\* Switching the account off after its credentials were refused.
LEMMA DisableKeeps ==
  ASSUME IInv, NEW t \in Threads, Disable(t)
  PROVE  IInv' /\ Carries(t)
<1>1. /\ pc[t] = "disable" /\ pc[t] \in Locked /\ account \in Accounts
      /\ UNCHANGED <<task, records, day, hour, landed, visible, tick, moved, runs, calls, crashes>>
  BY DEF Disable, Locked, Running, IInv, TypeOK, Steady, clock, school, counters
<1>2. account' \in Accounts /\ account'.life = account.life
  BY <1>1 DEF Disable, Accounts
<1>3. Carries(t) /\ LocalOK(t)' /\ lock' \in {lock, Nobody}
  BY <1>1, <1>2, FailMoves DEF Disable
<1> QED
  BY <1>1, <1>2, <1>3, Assemble DEF IInv, TypeOK, Carries

\* What holds of a run past the start of its attempt.
LEMMA UnderWay ==
  ASSUME IInv, NEW t \in Threads, pc[t] \in Running \ {"attempt", "login", "disable"}
  PROVE  /\ pc[t] \in Locked /\ lock = t /\ LocalOK(t) /\ job[t] \in Jobs
         /\ job[t].op \in RunOps /\ job[t].day >= 1 /\ job[t].run >= 1 /\ task = NoTask
         /\ pc[t] \notin {"record", "settle"} /\ job[t].op = "schedule" => account.enabled
BY DEF IInv, TypeOK, LocalOK, OpOK, RunOK, LockOK, SwitchOK, Running, Locked

\* Moving on to a place that needs nothing but what UnderWay gives.
LEMMA RunMovesOn ==
  ASSUME IInv, NEW t \in Threads, pc[t] \in {"query", "persist", "submit", "confirm"},
         NEW l \in {"confirm", "defer"}, Goto(t, l), job' = job, lock' = lock, task' = task,
         account'.life = account.life, account'.enabled = account.enabled
  PROVE  Carries(t) /\ LocalOK(t)'
<1>1. Moved(t) /\ pc'[t] = l /\ job'[t] = job[t]
  BY MoveOn DEF PCs, IInv
<1>2. LocalOK(t)
  BY DEF IInv
<1> QED
  BY <1>1, <1>2 DEF LocalOK, OpOK, RunOK, VerifyOK, LockOK, SwitchOK, Carries, Locked, Running, RunOps

\* The status query.
LEMMA QueryKeeps ==
  ASSUME IInv, NEW t \in Threads, Query(t)
  PROVE  IInv' /\ Carries(t)
<1>1. /\ pc[t] = "query" /\ pc[t] \in Running \ {"attempt", "login", "disable"}
      /\ UNCHANGED <<account, task, records, day, hour, landed, visible, tick, moved, runs, calls, crashes>>
  BY DEF Query, Running, Steady, clock, db, school, counters
<1>2. /\ pc[t] \in Locked /\ LocalOK(t) /\ job[t] \in Jobs
      /\ job[t].op \in RunOps /\ job[t].day >= 1
      /\ job[t].op = "schedule" => account.enabled
  BY <1>1, UnderWay
<1>3. ASSUME Goto(t, "login"), Let(t, [job[t] EXCEPT !.relogged = TRUE]), lock' = lock
      PROVE  Carries(t) /\ LocalOK(t)'
  <2> DEFINE j == [job[t] EXCEPT !.relogged = TRUE]
  <2>1. /\ j \in Jobs /\ j.op = job[t].op /\ j.run = job[t].run /\ j.snap = job[t].snap
        /\ j.day = job[t].day /\ j.hour = job[t].hour
    BY <1>2 DEF Jobs
  <2>2. "login" \in Running \ {"window", "persist", "record", "settle"}
    BY DEF Running
  <2>3. Let(t, j)
    BY <1>3
  <2> HIDE DEF j
  <2> QED
    BY <1>1, <1>2, <1>3, <2>1, <2>2, <2>3, RunGoes
<1>4. ASSUME NEW a \in Answers, Goto(t, "window"), Let(t, [job[t] EXCEPT !.answer = a]), lock' = lock
      PROVE  Carries(t) /\ LocalOK(t)'
  <2> DEFINE j == [job[t] EXCEPT !.answer = a]
  <2>1. /\ j \in Jobs /\ j.op = job[t].op /\ j.run = job[t].run /\ j.snap = job[t].snap
        /\ j.day = job[t].day /\ j.hour = job[t].hour /\ j.answer = a
    BY <1>2 DEF Jobs
  <2>2. Moved(t) /\ pc'[t] = "window" /\ job'[t] = j
    BY <1>4, <2>1, Move DEF PCs, IInv
  <2> HIDE DEF j
  <2> QED
    BY <1>1, <1>2, <1>4, <2>1, <2>2
    DEF LocalOK, OpOK, RunOK, VerifyOK, LockOK, SwitchOK, Carries, Locked, Running, RunOps
<1>5. ASSUME Retry(t) PROVE Carries(t) /\ LocalOK(t)' /\ lock' = lock
  BY <1>1, <1>2, <1>5, RetryMoves
<1>6. ASSUME NEW s \in {"no_task", "failed"}, Finish(t, s) PROVE Carries(t) /\ LocalOK(t)' /\ lock' = lock
  <2>1. s \in Statuses /\ pc[t] \in Running \ {"attempt"}
    BY <1>1 DEF Statuses
  <2> QED
    BY <1>1, <1>2, <1>6, <2>1, FinishMoves
<1>7. Carries(t) /\ LocalOK(t)' /\ lock' = lock
  BY <1>3, <1>4, <1>5, <1>6 DEF Query
<1> QED
  BY <1>1, <1>2, <1>7, Assemble DEF IInv, TypeOK, Carries

\* Keeping the window that came with the answer.
LEMMA SaveWindowKeeps ==
  ASSUME IInv, NEW t \in Threads, SaveWindow(t)
  PROVE  IInv' /\ Carries(t)
<1>1. /\ pc[t] = "window" /\ pc[t] \in Running \ {"attempt", "login", "disable"}
      /\ Goto(t, "persist") /\ job' = job /\ account \in Accounts /\ moved' \in BOOLEAN
      /\ UNCHANGED <<task, records, lock, day, hour, landed, visible, tick, runs, calls, crashes>>
  BY DEF SaveWindow, NoteWindow, Running, clock, school, counters, IInv, TypeOK
<1>2. /\ pc[t] \in Locked /\ LocalOK(t) /\ job[t] \in Jobs
      /\ job[t].op \in RunOps /\ job[t].day >= 1
  BY <1>1, UnderWay
<1>3. account' \in Accounts /\ account'.life = account.life /\ account'.enabled = account.enabled
  BY <1>1, WindowWrites DEF SaveWindow
<1>4. Moved(t) /\ pc'[t] = "persist" /\ job'[t] = job[t]
  BY <1>1, MoveOn DEF PCs, IInv
<1>5. Carries(t) /\ LocalOK(t)'
  BY <1>1, <1>2, <1>3, <1>4
  DEF LocalOK, OpOK, RunOK, VerifyOK, LockOK, SwitchOK, Carries, Locked, Running, RunOps
<1> QED
  BY <1>1, <1>2, <1>3, <1>5, Assemble DEF IInv, TypeOK, Carries

\* What is made of the school's answer.
LEMMA PersistKeeps ==
  ASSUME IInv, NEW t \in Threads, Persist(t)
  PROVE  IInv' /\ Carries(t)
<1>1. /\ pc[t] = "persist" /\ pc[t] \in Running \ {"attempt", "login", "disable"}
      /\ account' = Persisted /\ account \in Accounts /\ day \in 1..MaxDay
      /\ UNCHANGED <<task, records, day, hour, landed, visible, tick, moved, runs, calls, crashes>>
  BY DEF Persist, Running, Steady, clock, db, school, counters, IInv, TypeOK
<1>2. /\ pc[t] \in Locked /\ LocalOK(t) /\ job[t] \in Jobs
      /\ job[t].op \in RunOps /\ job[t].day >= 1
      /\ job[t].op = "schedule" => account.enabled
  BY <1>1, UnderWay
<1>3. account' \in Accounts /\ account'.life = account.life /\ account'.enabled = account.enabled
  BY <1>1, AuthWrites
<1>4. ASSUME Goto(t, "submit"), Let(t, Spent(job[t])), lock' = lock
      PROVE  Carries(t) /\ LocalOK(t)'
  <2>1. "submit" \in Running \ {"window", "persist", "record", "settle"}
    BY DEF Running
  <2> QED
    BY <1>1, <1>2, <1>3, <1>4, <2>1, SpentJob, RunGoes
<1>5. ASSUME Retry(t) PROVE Carries(t) /\ LocalOK(t)' /\ lock' = lock
  BY <1>1, <1>2, <1>3, <1>5, RetryMoves
<1>6. ASSUME NEW s \in Statuses, Finish(t, s) PROVE Carries(t) /\ LocalOK(t)' /\ lock' = lock
  <2>1. pc[t] \in Running \ {"attempt"}
    BY <1>1
  <2> QED
    BY <1>1, <1>2, <1>3, <1>6, <2>1, FinishMoves
<1>7. Carries(t) /\ LocalOK(t)' /\ lock' = lock
  <2>1. {"skipped", "no_task", "waiting", "failed"} \subseteq Statuses
    BY DEF Statuses
  <2> QED
    BY <1>4, <1>5, <1>6, <2>1 DEF Persist
<1> QED
  BY <1>1, <1>2, <1>3, <1>7, Assemble DEF IInv, TypeOK, Carries

\* The submission and its confirmation.
LEMMA SubmitKeeps ==
  ASSUME IInv, NEW t \in Threads, Submit(t) \/ Confirm(t)
  PROVE  IInv' /\ Carries(t)
<1>1. /\ pc[t] \in {"submit", "confirm"} /\ pc[t] \in Running \ {"attempt", "login", "disable"}
      /\ UNCHANGED <<account, task, records, day, hour, visible, tick, moved, runs, calls, crashes>>
      /\ landed' \in SUBSET (1..MaxDay) /\ landed \in SUBSET (1..MaxDay)
  BY DEF Submit, Confirm, Running, Steady, clock, db, school, counters, IInv, TypeOK
<1>2. pc[t] \in Locked /\ job[t].op \in RunOps
  BY <1>1, UnderWay
<1>3. ASSUME NEW l \in {"confirm", "defer"}, Goto(t, l), UNCHANGED <<job, lock>>
      PROVE  Carries(t) /\ LocalOK(t)'
  BY <1>1, <1>3, RunMovesOn
<1>4. ASSUME NEW s \in Statuses, Finish(t, s) PROVE Carries(t) /\ LocalOK(t)' /\ lock' = lock
  <2>1. pc[t] \in Running \ {"attempt"}
    BY <1>1
  <2> QED
    BY <1>1, <1>2, <1>4, <2>1, FinishMoves
<1>5. Carries(t) /\ LocalOK(t)' /\ lock' = lock
  <2>1. {"success", "failed"} \subseteq Statuses
    BY DEF Statuses
  <2> QED
    BY <1>3, <1>4, <2>1 DEF Submit, Confirm
<1> QED
  BY <1>1, <1>2, <1>5, Assemble DEF IInv, TypeOK, Carries

\* Deferring the outcome.
LEMMA DeferKeeps ==
  ASSUME IInv, NEW t \in Threads, Defer(t)
  PROVE  IInv'
<1>1. /\ pc[t] = "defer" /\ pc[t] \in Running \ {"attempt", "login", "disable"}
      /\ UNCHANGED <<account, records, day, hour, landed, visible, tick, moved, runs, calls, crashes>>
      /\ Leave(t)
  BY DEF Defer, Running, Steady, clock, school, counters
<1>2. pc[t] \in Locked /\ job[t] \in Jobs /\ job[t].op \in RunOps /\ job[t].day >= 1 /\ job[t].run >= 1
  BY <1>1, UnderWay
<1>3. task' \in Tasks
  BY <1>2, JobFields, LimitAssumption DEF Defer, RunOps, Tasks, Triggers
<1>4. Moved(t) /\ LocalOK(t)' /\ lock' = Nobody
  BY <1>1, LeaveMoves DEF IInv
<1> QED
  BY <1>1, <1>2, <1>3, <1>4, Assemble DEF IInv, TypeOK

\* A row of records has its type.
LEMMA RowType ==
  ASSUME TypeOK, NEW r \in Nat \ {0}, NEW d \in 1..MaxDay, NEW h \in 0..MaxHour,
         NEW g \in Triggers, NEW s \in Statuses
  PROVE  Row(r, d, h, g, s) \in Records /\ Append(records, Row(r, d, h, g, s)) \in Seq(Records)
<1>1. Row(r, d, h, g, s) \in Records
  BY DEF Row, Records, TypeOK
<1> QED
  BY <1>1 DEF TypeOK

\* The last_* columns keep their type, and the rest of the account its value.
LEMMA LastType ==
  ASSUME TypeOK, NEW snap, NEW r \in Nat, NEW d \in 0..MaxDay, NEW h \in 0..MaxHour,
         NEW s \in Statuses
  PROVE  LET a == [account EXCEPT !.last = LastAfter(snap, r, d, h, s)]
         IN  a \in Accounts /\ a.life = account.life /\ a.enabled = account.enabled
<1>1. account \in Accounts /\ account.last \in LastRuns
  BY DEF TypeOK, Accounts
<1>2. LastAfter(snap, r, d, h, s) \in LastRuns
  BY <1>1 DEF LastAfter, LastRuns
<1> QED
  BY <1>1, <1>2 DEF Accounts

\* Recording a run, and settling the account.
LEMMA RecordKeeps ==
  ASSUME IInv, NEW t \in Threads, Record(t) \/ Settle(t)
  PROVE  IInv'
<1>1. /\ pc[t] \in {"record", "settle"} /\ pc[t] \in Running \ {"attempt", "login", "disable"}
      /\ pc[t] \in Locked
      /\ UNCHANGED <<task, day, hour, landed, visible, tick, moved, runs, calls, crashes>>
  BY DEF Record, Settle, Running, Locked, Steady, clock, school, counters
<1>2. LocalOK(t) /\ job[t] \in Jobs /\ job[t].result \in Statuses /\ job[t].op \in RunOps
      /\ job[t].run \in Nat \ {0} /\ job[t].day \in 1..MaxDay /\ job[t].hour \in 0..MaxHour
  BY <1>1, JobFields, LimitAssumption DEF IInv, TypeOK, LocalOK, RunOK, OpOK
<1>3. CASE Record(t)
  <2>1. Goto(t, "settle") /\ job' = job /\ lock' = lock /\ account' = account
        /\ records' = Append(records, Row(job[t].run, job[t].day, job[t].hour, job[t].op, job[t].result))
    BY <1>3 DEF Record
  <2>2. records' \in Seq(Records)
    <3>1. job[t].op \in Triggers
      BY <1>2 DEF RunOps, Triggers
    <3> QED
      BY <1>2, <2>1, <3>1, RowType DEF IInv
  <2>3. Moved(t) /\ pc'[t] = "settle" /\ job'[t] = job[t]
    BY <2>1, MoveOn DEF PCs, IInv
  <2>4. LocalOK(t)'
    BY <1>1, <1>2, <2>1, <2>3, <1>3
    DEF Record, LocalOK, OpOK, RunOK, VerifyOK, LockOK, SwitchOK, Locked, Running, RunOps
  <2> QED
    BY <1>1, <2>1, <2>2, <2>3, <2>4, Assemble DEF IInv, TypeOK
<1>4. CASE Settle(t)
  <2>1. /\ account' = [account EXCEPT !.last =
              LastAfter(job[t].snap, job[t].run, job[t].day, job[t].hour, job[t].result)]
        /\ Leave(t) /\ records' = records
    BY <1>4 DEF Settle
  <2>2. account' \in Accounts
    <3>1. job[t].run \in Nat /\ job[t].day \in 0..MaxDay
      BY <1>2
    <3> QED
      BY <1>2, <2>1, <3>1, LastType DEF IInv
  <2>3. Moved(t) /\ LocalOK(t)' /\ lock' = Nobody
    BY <2>1, LeaveMoves DEF IInv
  <2> QED
    BY <1>1, <2>1, <2>2, <2>3, Assemble DEF IInv, TypeOK
<1> QED
  BY <1>3, <1>4

\* Updating the account.
LEMMA UpdateKeeps ==
  ASSUME IInv, NEW t \in Threads, Update(t)
  PROVE  IInv'
<1>1. /\ pc[t] = "edit" /\ pc[t] \in Locked /\ job[t].op = "update" /\ moved' \in BOOLEAN
      /\ UNCHANGED <<task, records, day, hour, landed, visible, tick, runs, calls, crashes>>
      /\ account \in Accounts /\ day \in 1..MaxDay
  BY DEF Update, NoteWindow, Locked, clock, school, counters, IInv, TypeOK
<1>2. CASE AuthFails(t)
  BY <1>1, <1>2, AuthFailMoves, Assemble DEF IInv, TypeOK, Carries
<1>3. CASE Leave(t) /\ account' = account
  BY <1>1, <1>3, LeaveMoves, Assemble DEF IInv, TypeOK
<1>4. ASSUME NEW e \in BOOLEAN, NEW w \in Windows \cup {account.window}, Leave(t),
             account' \in {[account EXCEPT !.enabled = e],
                          [account EXCEPT !.enabled = e, !.auth = "none"],
                          [Persisted EXCEPT !.enabled = e, !.window = w]}
      PROVE  IInv'
  <2>1. Persisted \in Accounts
    BY <1>1, AuthWrites
  <2>2. account' \in Accounts
    BY <1>1, <1>4, <2>1 DEF Accounts
  <2> QED
    BY <1>1, <1>4, <2>2, LeaveMoves, Assemble DEF IInv, TypeOK
<1> QED
  BY <1>2, <1>3, <1>4 DEF Update

\* Deleting the account.
LEMMA DeleteKeeps ==
  ASSUME IInv, NEW t \in Threads, Delete(t)
  PROVE  IInv'
<1>1. /\ pc[t] \in Locked /\ Leave(t) /\ task' = NoTask /\ records' = <<>>
      /\ UNCHANGED <<day, hour, landed, visible, tick, moved, runs, calls, crashes>>
  BY DEF Delete, Locked, Steady, clock, school, counters
<1>2. account' \in Accounts /\ records' \in Seq(Records)
  BY <1>1 DEF Delete, IInv, TypeOK, Accounts
<1> QED
  BY <1>1, <1>2, LeaveMoves, Assemble DEF IInv, TypeOK

\* The start of a resolution.
LEMMA ResolveKeeps ==
  ASSUME IInv, NEW t \in Threads, Resolve(t)
  PROVE  IInv'
<1>1. /\ pc[t] = "resolve" /\ pc[t] \in Locked /\ LocalOK(t) /\ job[t] \in Jobs
      /\ UNCHANGED <<account, records, day, hour, landed, visible, moved, runs, calls, crashes>>
      /\ tick' \in {"verify", "batch", "refresh"} /\ task \in Tasks \cup {NoTask}
  BY DEF Resolve, Locked, Steady, clock, db, school, counters, IInv, TypeOK
<1>2. CASE Leave(t) /\ task' \in {task, NoTask}
  BY <1>1, <1>2, LeaveMoves, Assemble DEF IInv, TypeOK
<1>3. CASE task # NoTask /\ Goto(t, "review") /\ Let(t, [job[t] EXCEPT !.task = task])
           /\ UNCHANGED <<task, lock>>
  <2> DEFINE j == [job[t] EXCEPT !.task = task]
  <2>1. j \in Jobs /\ j.task = task
    BY <1>1 DEF Jobs
  <2>2. Moved(t) /\ pc'[t] = "review" /\ job'[t] = j
    BY <1>3, <2>1, Move DEF PCs, IInv
  <2> HIDE DEF j
  <2>3. LocalOK(t)'
    BY <1>1, <1>3, <2>1, <2>2
    DEF LocalOK, OpOK, RunOK, VerifyOK, LockOK, SwitchOK, Locked, Running, RunOps
  <2> QED
    BY <1>1, <1>3, <2>2, <2>3, Assemble DEF IInv, TypeOK
<1> QED
  BY <1>2, <1>3 DEF Resolve, db

\* The verdict, or another round.
LEMMA ReviewKeeps ==
  ASSUME IInv, NEW t \in Threads, Review(t)
  PROVE  IInv'
<1>1. /\ pc[t] = "review" /\ pc[t] \in Locked /\ LocalOK(t) /\ job[t] \in Jobs
      /\ UNCHANGED <<account, task, records, lock, day, hour, landed, visible, tick, moved, runs, calls, crashes>>
  BY DEF Review, Locked, Steady, clock, db, school, counters, IInv, TypeOK
<1>2. PICK v \in {"success", "failed", "again"} :
        /\ v = "again" => job[t].task.rounds + 1 < MaxRounds
        /\ Let(t, [job[t] EXCEPT !.result = v])
  BY DEF Review
<1> DEFINE j == [job[t] EXCEPT !.result = v]
<1>3. v \in Results
  BY DEF Results, Statuses
<1>4. j \in Jobs /\ j.task = job[t].task /\ j.result = v
  BY <1>1, <1>3 DEF Jobs
<1>5. Moved(t) /\ pc'[t] = "conclude" /\ job'[t] = j
  BY <1>2, <1>4, Move DEF Review, PCs, IInv
<1> HIDE DEF j
<1>6. LocalOK(t)'
  BY <1>1, <1>2, <1>4, <1>5
  DEF LocalOK, OpOK, RunOK, VerifyOK, LockOK, SwitchOK, Locked, Running, RunOps
<1> QED
  BY <1>1, <1>5, <1>6, Assemble DEF IInv, TypeOK

\* Writing it down.
LEMMA ConcludeKeeps ==
  ASSUME IInv, NEW t \in Threads, Conclude(t)
  PROVE  IInv'
<1>1. /\ pc[t] = "conclude" /\ pc[t] \in Locked /\ Leave(t) /\ LocalOK(t) /\ job[t] \in Jobs
      /\ UNCHANGED <<day, hour, landed, visible, tick, moved, runs, calls, crashes>>
      /\ task \in Tasks \cup {NoTask}
  BY DEF Conclude, Locked, Steady, clock, school, counters, IInv, TypeOK
<1>2. /\ job[t].task \in Tasks /\ job[t].result \in {"success", "failed", "again"}
      /\ task # NoTask => task.rounds = job[t].task.rounds
      /\ job[t].result = "again" => job[t].task.rounds + 1 < MaxRounds
  BY <1>1 DEF LocalOK, VerifyOK
<1>3. Moved(t) /\ LocalOK(t)' /\ lock' = Nobody
  BY <1>1, LeaveMoves DEF IInv
<1>4. CASE job[t].result = "again" /\ Bump(t) /\ UNCHANGED <<account, records>>
  <2>1. ASSUME task # NoTask PROVE task' \in Tasks
    <3>1. task \in Tasks /\ task.rounds + 1 < MaxRounds /\ task.rounds \in Nat
      BY <1>1, <1>2, <1>4, <2>1 DEF Tasks
    <3>2. task.rounds + 1 \in 0..(MaxRounds - 1)
      BY <3>1, LimitAssumption
    <3> QED
      BY <1>4, <2>1, <3>1, <3>2 DEF Bump, Tasks
  <2>2. task' \in Tasks \cup {NoTask}
    BY <1>4, <2>1 DEF Bump
  <2> QED
    BY <1>1, <1>3, <1>4, <2>2, Assemble DEF IInv, TypeOK
<1>5. CASE job[t].result # "again" /\ RecordVerdict(t)
  <2> DEFINE k == job[t].task
  <2>1. /\ k.run \in Nat \ {0} /\ k.run \in Nat /\ k.day \in 1..MaxDay /\ k.day \in 0..MaxDay /\ k.hour \in 0..MaxHour
        /\ k.trigger \in Triggers /\ job[t].result \in Statuses
    BY <1>2, <1>5, LimitAssumption DEF Tasks, Statuses
  <2>2. /\ records' = Append(records, Row(k.run, k.day, k.hour, k.trigger, job[t].result))
        /\ account' = [account EXCEPT !.last = LastAfter(job[t].snap, k.run, k.day, k.hour, job[t].result)]
        /\ task' = NoTask
    BY <1>5 DEF RecordVerdict, Verdict, LastVerdict
  <2> HIDE DEF k
  <2>3. records' \in Seq(Records)
    BY <2>1, <2>2, RowType DEF IInv
  <2>4. account' \in Accounts
    BY <2>1, <2>2, LastType DEF IInv
  <2> QED
    BY <1>1, <1>3, <2>2, <2>3, <2>4, Assemble DEF IInv, TypeOK
<1> QED
  BY <1>4, <1>5 DEF Conclude

\* Inserting the account, and marking the day.
LEMMA CreateKeeps ==
  ASSUME IInv, NEW t \in Threads, Insert(t) \/ Mark(t)
  PROVE  IInv'
<1>1. /\ job[t] \in Jobs /\ account \in Accounts /\ day \in 0..MaxDay /\ day \in 1..MaxDay
      /\ hour \in 0..MaxHour /\ runs \in Nat /\ LocalOK(t)
  BY LimitAssumption DEF IInv, TypeOK
<1>2. CASE Insert(t)
  <2>1. /\ account' \in Accounts /\ account.life = "new"
        /\ UNCHANGED <<task, records, lock, day, hour, landed, visible, tick, moved, calls, crashes>>
    BY <1>1, <1>2 DEF Insert, Accounts, clock, school
  <2>2. CASE runs' = runs + 1 /\ Goto(t, "mark") /\ Let(t, [job[t] EXCEPT !.run = runs + 1, !.day = day, !.hour = hour])
    <3> DEFINE j == [job[t] EXCEPT !.run = runs + 1, !.day = day, !.hour = hour]
    <3>0. runs + 1 \in Nat /\ runs + 1 >= 1
      BY <1>1
    <3>1. j \in Jobs /\ j.run >= 1 /\ j.day = day /\ runs' \in Nat
      BY <1>1, <2>2, <3>0 DEF Jobs
    <3>2. Moved(t) /\ pc'[t] = "mark" /\ job'[t] = j
      BY <2>2, <3>1, Move DEF PCs, IInv
    <3> HIDE DEF j
    <3>3. LocalOK(t)'
      BY <1>1, <3>1, <3>2 DEF LocalOK, OpOK, RunOK, VerifyOK, LockOK, SwitchOK, Locked, Running
    <3> QED
      BY <2>1, <3>1, <3>2, <3>3, Assemble DEF IInv, TypeOK
  <2>3. CASE runs' = runs /\ Goto(t, "idle") /\ Let(t, NoJob)
    <3>1. Moved(t) /\ pc'[t] = "idle" /\ job'[t] = NoJob
      BY <2>3, Move, NoJobType DEF PCs, IInv
    <3>2. LocalOK(t)'
      BY <3>1 DEF LocalOK, OpOK, RunOK, VerifyOK, LockOK, SwitchOK, Locked, Running
    <3> QED
      BY <1>1, <2>1, <2>3, <3>1, <3>2, Assemble DEF IInv, TypeOK
  <2> QED
    BY <1>2, <2>2, <2>3 DEF Insert
<1>3. CASE Mark(t)
  <2>1. /\ job[t].run \in Nat \ {0} /\ job[t].day \in 1..MaxDay /\ job[t].run \in Nat /\ job[t].day \in 0..MaxDay
        /\ job[t].hour \in 0..MaxHour
    BY <1>1, <1>3, JobFields, LimitAssumption DEF Mark, LocalOK, RunOK
  <2>2. /\ UNCHANGED <<task, day, hour, landed, visible, tick, moved, runs, calls, crashes>> /\ Return(t)
    BY <1>3 DEF Mark, Steady, clock, school, counters
  <2>3. Moved(t) /\ LocalOK(t)' /\ lock' = lock
    BY <2>2, ReturnMoves DEF IInv
  <2>4. /\ account' \in Accounts /\ account'.life = account.life /\ account'.enabled = account.enabled
        /\ records' \in Seq(Records)
    <3>1. CASE UNCHANGED <<account, records>>
      BY <3>1 DEF IInv, TypeOK
    <3>2. CASE /\ records' = Append(records, Row(job[t].run, job[t].day, job[t].hour, "manual", "skipped"))
               /\ account' = [account EXCEPT !.last =
                              [day |-> job[t].day, hour |-> job[t].hour, run |-> job[t].run, status |-> "skipped"]]
      <4>1. records' \in Seq(Records)
        BY <2>1, <3>2, RowType DEF Triggers, Statuses, IInv
      <4>2. [day |-> job[t].day, hour |-> job[t].hour, run |-> job[t].run, status |-> "skipped"] \in LastRuns
        BY <2>1 DEF LastRuns, Statuses
      <4>3. /\ account' \in Accounts /\ account'.life = account.life
            /\ account'.enabled = account.enabled
        BY <1>1, <3>2, <4>2 DEF Accounts
      <4> QED
        BY <4>1, <4>3
    <3> QED
      BY <1>3, <3>1, <3>2 DEF Mark
  <2> QED
    BY <2>2, <2>3, <2>4, Assemble DEF IInv, TypeOK
<1> QED
  BY <1>2, <1>3

\* Calls of the user, and the jobs of a tick.
LEMMA StartKeeps ==
  ASSUME IInv, Tick \/ \E w \in Web : Call(w) \/ Probe(w)
  PROVE  IInv'
<1>1. /\ UNCHANGED <<account, task, records, lock, day, hour, landed, visible, moved, runs, crashes>>
      /\ tick' \in {"verify", "batch", "refresh"} /\ calls' \in 0..MaxCalls
  <2>1. UNCHANGED <<db, lock, clock, school, moved, runs, crashes>>
    BY DEF Tick, TickVerify, TickCheckin, TickRefresh, TickOver, Call, Probe, counters
  <2>2. tick' \in {"verify", "batch", "refresh"}
    BY DEF Tick, TickVerify, TickCheckin, TickRefresh, TickOver, Call, Probe, IInv, TypeOK
  <2>3. calls' \in 0..MaxCalls
    <3>1. calls \in 0..MaxCalls /\ MaxCalls \in Nat
      BY LimitAssumption DEF IInv, TypeOK
    <3>2. calls' = calls \/ (calls < MaxCalls /\ calls' = calls + 1)
      BY DEF Tick, TickVerify, TickCheckin, TickRefresh, TickOver, Call, Probe, counters
    <3> QED
      BY <3>1, <3>2
  <2> QED
    BY <2>1, <2>2, <2>3 DEF db, clock, school
<1>2. CASE UNCHANGED <<pc, job>>
  <2>1. TypeOK'
    BY <1>1, <1>2 DEF IInv, TypeOK
  <2>2. \A u \in Threads : LocalOK(u)'
    BY <1>1, <1>2 DEF IInv, LocalOK, OpOK, RunOK, VerifyOK, LockOK, SwitchOK
  <2> QED
    BY <2>1, <2>2 DEF IInv
<1>3. ASSUME NEW t \in Threads, NEW op \in Ops, NEW l \in {"check", "lock", "insert"},
             l = "check" => op \in RunOps, l = "lock" => op # "create",
             NEW j \in Jobs, j.op = op, Goto(t, l), Let(t, j), pc[t] = "idle"
      PROVE  IInv'
  <2>1. Moved(t) /\ pc'[t] = l /\ job'[t] = j
    BY <1>3, Move DEF PCs, IInv
  <2>2. LocalOK(t)'
    BY <1>1, <1>3, <2>1 DEF LocalOK, OpOK, RunOK, VerifyOK, LockOK, SwitchOK, Locked, Running
  <2> QED
    BY <1>1, <2>1, <2>2, Assemble DEF IInv, TypeOK
<1>4. Sched \in Threads /\ \A w \in Web : w \in Threads
  BY DEF Threads
<1>5. ASSUME TickVerify \/ TickCheckin \/ TickRefresh, ~UNCHANGED <<pc, job>> PROVE IInv'
  <2>1. PICK op \in {"verify", "schedule", "refresh"}, l \in {"check", "lock"} :
          /\ l = "check" <=> op = "schedule"
          /\ Goto(Sched, l) /\ Let(Sched, [NoJob EXCEPT !.op = op]) /\ pc[Sched] = "idle"
    BY <1>5 DEF TickVerify, TickCheckin, TickRefresh
  <2>2. op \in Ops /\ [NoJob EXCEPT !.op = op] \in Jobs /\ [NoJob EXCEPT !.op = op].op = op
    BY NewJobType DEF Ops, NoJob
  <2> QED
    BY <1>3, <1>4, <2>1, <2>2 DEF RunOps
<1>6. ASSUME NEW w \in Web, Call(w) PROVE IInv'
  <2>1. PICK op \in {"manual", "relogin", "update", "delete"}, l \in {"check", "lock"} :
          /\ l = "check" <=> op = "manual"
          /\ Goto(w, l) /\ Let(w, [NoJob EXCEPT !.op = op]) /\ pc[w] = "idle"
    BY <1>6 DEF Call
  <2>2. op \in Ops /\ [NoJob EXCEPT !.op = op] \in Jobs /\ [NoJob EXCEPT !.op = op].op = op
    BY NewJobType DEF Ops, NoJob
  <2> QED
    BY <1>3, <1>4, <2>1, <2>2 DEF RunOps
<1>7. ASSUME NEW w \in Web, Probe(w) PROVE IInv'
  <2> DEFINE j == [NoJob EXCEPT !.op = "create", !.answer = IF visible THEN "signed" ELSE "open"]
  <2>1. j \in Jobs /\ j.op = "create"
    BY NoJobType DEF Jobs, Ops, Answers, NoJob
  <2>2. Goto(w, "insert") /\ Let(w, j) /\ pc[w] = "idle" /\ "create" \in Ops
    BY <1>7 DEF Probe, Ops
  <2> HIDE DEF j
  <2> QED
    BY <1>3, <1>4, <2>1, <2>2
<1> QED
  BY <1>2, <1>5, <1>6, <1>7 DEF Tick, TickOver

\* The world around the process.
LEMMA WorldKeeps ==
  ASSUME IInv, World
  PROVE  IInv'
<1>1. CASE Crash
  <2>1. /\ \A u \in Threads : pc'[u] = "idle"
        /\ pc' \in [Threads -> PCs] /\ job' \in [Threads -> Jobs]
    BY <1>1, NoJobType DEF Crash, PCs
  <2>2. TypeOK'
    <3>1. crashes' \in 0..MaxCrashes
      BY <1>1, LimitAssumption DEF Crash, IInv, TypeOK
    <3> QED
      BY <1>1, <2>1, <3>1 DEF Crash, IInv, TypeOK, db, clock, school
  <2>3. \A u \in Threads : LocalOK(u)'
    BY <2>1 DEF LocalOK, OpOK, RunOK, VerifyOK, LockOK, SwitchOK, Locked, Running
  <2> QED
    BY <2>2, <2>3 DEF IInv
<1>2. CASE NextDay \/ NextHour \/ SignElsewhere \/ Show
  <2>1. TypeOK'
    <3>1. day' \in 1..MaxDay /\ hour' \in 0..MaxHour
      BY <1>2, LimitAssumption DEF NextDay, NextHour, SignElsewhere, Show, clock, IInv, TypeOK
    <3>2. landed' \in SUBSET (1..MaxDay) /\ visible' \in BOOLEAN /\ moved' \in BOOLEAN
      BY <1>2 DEF NextDay, NextHour, SignElsewhere, Show, school, IInv, TypeOK
    <3> QED
      BY <1>2, <3>1, <3>2 DEF NextDay, NextHour, SignElsewhere, Show, IInv, TypeOK, db, counters
  <2>2. \A u \in Threads : LocalOK(u)'
    BY <1>2 DEF NextDay, NextHour, SignElsewhere, Show, db, counters,
       IInv, LocalOK, OpOK, RunOK, VerifyOK, LockOK, SwitchOK
  <2> QED
    BY <2>1, <2>2 DEF IInv
<1>3. CASE TaskDue \/ PurgeTask
  <2>1. /\ task # NoTask /\ task \in Tasks
        /\ task' \in Tasks \cup {NoTask} /\ (task' # NoTask => task'.rounds = task.rounds)
    BY <1>3 DEF TaskDue, PurgeTask, IInv, TypeOK, Tasks
  <2>2. UNCHANGED <<account, records, lock, day, hour, landed, visible, pc, job, tick, moved, runs, calls, crashes>>
    BY <1>3 DEF TaskDue, PurgeTask, Steady, clock, school, counters
  <2>3. TypeOK'
    BY <2>1, <2>2 DEF IInv, TypeOK
  <2>4. \A u \in Threads : LocalOK(u)'
    BY <2>1, <2>2 DEF IInv, LocalOK, OpOK, RunOK, VerifyOK, LockOK, SwitchOK
  <2> QED
    BY <2>3, <2>4 DEF IInv
<1> QED
  BY <1>1, <1>2, <1>3 DEF World
-----------------------------------------------------------------------------
(* The invariant. *)

\* Both initial states satisfy it.
LEMMA Start == Init \/ InitNew => IInv
<1> SUFFICES ASSUME Init \/ InitNew PROVE IInv
  OBVIOUS
<1>1. account \in Accounts
  <2>1. NewAccount \in Accounts
    BY LimitAssumption DEF NewAccount, Accounts, NoLast, LastRuns
  <2>2. [NewAccount EXCEPT !.life = "live", !.enabled = TRUE] \in Accounts
    BY <2>1 DEF Accounts
  <2> QED
    BY <2>1, <2>2 DEF Init, InitNew
<1>2. /\ \A t \in Threads : pc[t] = "idle"
      /\ pc \in [Threads -> PCs] /\ job \in [Threads -> Jobs]
  BY NoJobType DEF Init, InitNew, InitRest, PCs
<1>3. TypeOK
  <2>1. <<>> \in Seq(Records) /\ 1 \in 1..MaxDay /\ 0 \in 0..MaxHour /\ {} \in SUBSET (1..MaxDay)
    BY LimitAssumption
  <2>2. 0 \in 0..MaxCalls /\ 0 \in 0..MaxCrashes /\ 0 \in Nat
    BY LimitAssumption
  <2> QED
    BY <1>1, <1>2, <2>1, <2>2 DEF Init, InitNew, InitRest, TypeOK
<1>4. \A t \in Threads : LocalOK(t)
  BY <1>2 DEF LocalOK, OpOK, RunOK, VerifyOK, LockOK, SwitchOK, Locked, Running
<1> QED
  BY <1>3, <1>4 DEF IInv

\* Every step keeps it.
LEMMA Keeps == IInv /\ [Next]_vars => IInv'
<1> SUFFICES ASSUME IInv, [Next]_vars PROVE IInv'
  OBVIOUS
<1>1. ASSUME NEW t \in Threads, ThreadStep(t) PROVE IInv'
  BY <1>1, LockKeeps, BeginKeeps, AttemptKeeps, LoginKeeps, DisableKeeps, QueryKeeps,
     SaveWindowKeeps, PersistKeeps, SubmitKeeps, DeferKeeps, RecordKeeps, UpdateKeeps, DeleteKeeps, ResolveKeeps,
     ReviewKeeps, ConcludeKeeps, CreateKeeps
  DEF ThreadStep, RunStep
<1>2. CASE Tick \/ \E w \in Web : Call(w) \/ Probe(w)
  BY <1>2, StartKeeps
<1>3. CASE World
  BY <1>3, WorldKeeps
<1>4. CASE UNCHANGED vars
  <2>1. TypeOK'
    BY <1>4 DEF vars, IInv, TypeOK
  <2>2. \A t \in Threads : LocalOK(t)'
    BY <1>4 DEF vars, IInv, LocalOK, OpOK, RunOK, VerifyOK, LockOK, SwitchOK
  <2> QED
    BY <2>1, <2>2 DEF IInv
<1> QED
  BY <1>1, <1>2, <1>3, <1>4 DEF Next

\* IInv is an invariant of the hosted account and of its creation.
THEOREM Invariance == (Spec => []IInv) /\ (SpecFromCreation => []IInv)
<1>1. Init => IInv
  BY Start
<1>2. InitNew => IInv
  BY Start
<1>3. IInv /\ [Next]_vars => IInv'
  BY Keeps
<1>4. Spec => []IInv
  BY <1>1, <1>3, PTL DEF Spec
<1>5. SpecFromCreation => []IInv
  BY <1>2, <1>3, PTL DEF SpecFromCreation
<1> QED
  BY <1>4, <1>5

\* Every variable keeps its type: in particular no attempt, refresh, verdict
\* or creation of app/checkin.py and app/accounts.py leaves a malformed row,
\* and the rounds of a verification stay below VERIFY_MAX_ROUNDS.
THEOREM TypeCorrect == (Spec => []TypeOK) /\ (SpecFromCreation => []TypeOK)
<1>1. IInv => TypeOK
  BY DEF IInv
<1> QED
  BY <1>1, Invariance, PTL

\* A run is past _run's check only while no verification is pending: the
\* second look, under the account lock, closes the gap that run_checkin's
\* look before the lock leaves, for any number of threads.
THEOREM PendingBlocks ==
  (Spec => []PendingBlocksSubmit) /\ (SpecFromCreation => []PendingBlocksSubmit)
<1>1. IInv => PendingBlocksSubmit
  BY DEF IInv, LocalOK, RunOK, PendingBlocksSubmit
<1> QED
  BY <1>1, Invariance, PTL

\* A scheduled run submits only for an account that exists and is switched
\* on, although the scheduler selected it before it queued for the lock.
THEOREM SwitchHonoured ==
  (Spec => []SwitchedOffNotSubmitted) /\ (SpecFromCreation => []SwitchedOffNotSubmitted)
<1>1. IInv => SwitchedOffNotSubmitted
  BY DEF IInv, LocalOK, SwitchOK, SwitchedOffNotSubmitted, Running, Locked
<1> QED
  BY <1>1, Invariance, PTL
-----------------------------------------------------------------------------
(* An account that is yet to be added has left nothing, and nobody works   *)
(* for it but the request that adds it.                                    *)

NewOK ==
  account.life = "new" =>
    /\ task = NoTask /\ records = <<>>
    /\ \A t \in Threads : pc[t] \in {"idle", "insert"}

AInv == IInv /\ NewOK

\* An account is added once.
LEMMA NeverNewAgain ==
  ASSUME IInv, Next, account'.life = "new"
  PROVE  account.life = "new"
<1>1. account \in Accounts /\ day \in 1..MaxDay
  BY DEF IInv, TypeOK
<1>2. \A t \in Threads : Update(t) => account'.life = account.life
  BY <1>1, UpdateWrites
<1>3. ASSUME NEW t \in Threads, ThreadStep(t)
      PROVE  account'.life = account.life \/ account'.life # "new"
  <2>1. CASE Login(t) \/ Persist(t)
    BY <1>1, <2>1, AuthWrites DEF Login, AuthFails, Persist
  <2>2. CASE SaveWindow(t)
    BY <1>1, <2>2, WindowWrites DEF SaveWindow
  <2>3. CASE Disable(t) \/ Settle(t) \/ Mark(t)
    BY <1>1, <2>3 DEF Disable, Settle, Mark, Accounts
  <2>4. CASE Conclude(t)
    BY <1>1, <2>4 DEF Conclude, RecordVerdict, Accounts
  <2>5. CASE Insert(t) \/ Delete(t)
    BY <1>1, <2>5 DEF Insert, Delete, Accounts
  <2>6. CASE Lock(t) \/ Check(t) \/ Begin(t) \/ Attempt(t) \/ Query(t) \/ Submit(t) \/ Confirm(t)
             \/ Defer(t) \/ Record(t) \/ Resolve(t) \/ Review(t)
    BY <2>6 DEF Lock, Check, Begin, Attempt, Query, Submit, Confirm, Defer, Record, Resolve,
       Review, db
  <2> QED
    BY <1>2, <1>3, <2>1, <2>2, <2>3, <2>4, <2>5, <2>6 DEF ThreadStep, RunStep
<1>4. CASE Tick \/ World \/ \E w \in Web : Call(w) \/ Probe(w)
  BY <1>4 DEF Tick, TickVerify, TickCheckin, TickRefresh, TickOver, World, NextDay, NextHour,
     SignElsewhere, Show, Crash, TaskDue, PurgeTask, Call, Probe, db
<1> QED
  BY <1>2, <1>3, <1>4 DEF Next

\* Whoever else works for an account works for one that was added.
LEMMA NewKeeps == AInv /\ [Next]_vars => AInv'
<1> SUFFICES ASSUME AInv, [Next]_vars PROVE NewOK'
  BY Keeps DEF AInv
<1>1. CASE UNCHANGED vars
  BY <1>1 DEF vars, AInv, NewOK
<1>2. CASE Next
  <2> SUFFICES ASSUME account'.life = "new"
               PROVE  /\ task' = NoTask /\ records' = <<>>
                      /\ \A t \in Threads : pc'[t] \in {"idle", "insert"}
    BY DEF NewOK
  <2>1. /\ IInv /\ account.life = "new" /\ task = NoTask /\ records = <<>>
        /\ pc \in [Threads -> PCs] /\ account \in Accounts
        /\ \A t \in Threads : pc[t] \in {"idle", "insert"}
    BY <1>2, NeverNewAgain DEF AInv, NewOK, IInv, TypeOK
  <2>2. ASSUME NEW t \in Threads PROVE ~ThreadStep(t)
    <3>1. ~Insert(t)
      BY <2>1 DEF Insert, Accounts
    <3> QED
      BY <2>1, <3>1 DEF ThreadStep, RunStep, Lock, Check, Begin, Attempt, Login, Disable, Query,
         SaveWindow, Persist, Submit, Confirm, Defer, Record, Settle, Update, Delete, Resolve,
         Review, Conclude, Mark
  <2>3. CASE Tick
    BY <2>1, <2>3 DEF Tick, TickVerify, TickCheckin, TickRefresh, TickOver, IsDue, Ready,
       Selectable, db
  <2>4. ASSUME NEW w \in Web, Call(w) \/ Probe(w)
        PROVE  /\ task' = NoTask /\ records' = <<>>
               /\ \A t \in Threads : pc'[t] \in {"idle", "insert"}
    BY <2>1, <2>4 DEF Call, Probe, Goto, db
  <2>5. CASE World
    BY <2>1, <2>5 DEF World, NextDay, NextHour, SignElsewhere, Show, Crash, TaskDue, PurgeTask,
       Steady, db
  <2> QED
    BY <1>2, <2>2, <2>3, <2>4, <2>5 DEF Next
<1> QED
  BY <1>1, <1>2

LEMMA NewStart == Init \/ InitNew => AInv
<1> SUFFICES ASSUME Init \/ InitNew PROVE NewOK
  BY Start DEF AInv
<1> QED
  BY DEF Init, InitNew, InitRest, NewOK
-----------------------------------------------------------------------------
(* The numbers of runs, for an account that exists or is yet to be added.  *)
(* A number is out while a run goes on that is to be recorded under it,    *)
(* while the verification of the run is pending or resolved, and while a   *)
(* new account is to be marked.  RInv says that nobody else has a number *)
(* that is out, and that it has no row in records.                         *)

Unrecorded(r) == \A i \in DOMAIN records : records[i].run # r

\* The place of a run under the lock, and of a resolution that has its task.
Pursued(t) == pc[t] \in Running /\ job[t].op \in RunOps
Resolving(t) == pc[t] \in {"review", "conclude"}

\* The number that t is to record, or 0.
Claim(t) ==
  IF Resolving(t) THEN job[t].task.run
  ELSE IF (Pursued(t) /\ pc[t] # "settle") \/ pc[t] = "mark" THEN job[t].run ELSE 0

\* Number r has been given to a run, and the run has no row.
Out(r) == r <= runs /\ Unrecorded(r)

ClaimsOK ==
  /\ \A t \in Threads : Claim(t) # 0 => Out(Claim(t))
  /\ \A t, u \in Threads : t # u /\ Claim(t) # 0 => Claim(t) # Claim(u)

PendingOK ==
  task # NoTask =>
    /\ Out(task.run) /\ task.day <= day
    /\ \A t \in Threads : Claim(t) = task.run <=> Resolving(t)

RecordsOK ==
  /\ \A i \in DOMAIN records : records[i].run <= runs
  /\ \A i, j \in DOMAIN records : records[i].run = records[j].run => i = j

\* What a thread has noted of the time, and of the login.
NotedOK(t) ==
  /\ pc[t] # "idle" => job[t].day <= day
  /\ pc[t] = "resolve" => job[t].snap.token = account.token

RInv == AInv /\ ClaimsOK /\ PendingOK /\ RecordsOK /\ \A t \in Threads : NotedOK(t)
-----------------------------------------------------------------------------
\* The run numbers that are compared are numbers, and so are the days.
LEMMA Numbers ==
  ASSUME IInv
  PROVE  /\ account \in Accounts /\ account.last.run \in Nat /\ runs \in Nat /\ day \in Nat
         /\ account.token \in 0..MaxDay /\ records \in Seq(Records)
         /\ \A i \in DOMAIN records : records[i].run \in Nat
         /\ task # NoTask => task \in Tasks /\ task.run \in Nat /\ task.day \in Nat
         /\ \A t \in Threads : /\ job[t] \in Jobs /\ job[t].run \in Nat /\ job[t].day \in Nat
                               /\ job[t].snap \in Accounts
<1>1. TypeOK
  BY DEF IInv
<1>2. account \in Accounts /\ account.last.run \in Nat /\ account.token \in 0..MaxDay
  BY <1>1 DEF TypeOK, Accounts, LastRuns
<1>3. runs \in Nat /\ day \in Nat
  BY <1>1, LimitAssumption DEF TypeOK
<1>4. records \in Seq(Records) /\ \A i \in DOMAIN records : records[i].run \in Nat
  <2>1. records \in Seq(Records)
    BY <1>1 DEF TypeOK
  <2>2. \A i \in DOMAIN records : records[i] \in Records
    BY <2>1
  <2> QED
    BY <2>1, <2>2 DEF Records
<1>5. ASSUME task # NoTask PROVE task \in Tasks /\ task.run \in Nat /\ task.day \in Nat
  <2>1. task \in Tasks
    BY <1>1, <1>5 DEF TypeOK
  <2>2. task.run \in Nat /\ task.day \in 1..MaxDay
    BY <2>1 DEF Tasks
  <2> QED
    BY <2>1, <2>2, LimitAssumption
<1>6. ASSUME NEW t \in Threads
      PROVE  job[t] \in Jobs /\ job[t].run \in Nat /\ job[t].day \in Nat /\ job[t].snap \in Accounts
  BY <1>1, JobFields, LimitAssumption DEF TypeOK
<1> QED
  BY <1>2, <1>3, <1>4, <1>5, <1>6

\* A row more: it is the new one, or one that was there.
LEMMA OneMoreRow ==
  ASSUME TypeOK, NEW row, records' = Append(records, row)
  PROVE  /\ \A i \in DOMAIN records' :
              \/ i \in DOMAIN records /\ records'[i] = records[i]
              \/ i = Len(records) + 1 /\ records'[i] = row
         /\ Len(records) + 1 \in DOMAIN records' /\ records'[Len(records) + 1] = row
BY DEF TypeOK

\* The numbers that are out are positive.
LEMMA Claims ==
  ASSUME IInv
  PROVE  /\ \A t \in Threads : Claim(t) \in Nat /\ (Resolving(t) => Claim(t) # 0)
         /\ \A t \in Threads : (Pursued(t) /\ pc[t] # "settle") \/ pc[t] = "mark" =>
              Claim(t) = job[t].run /\ Claim(t) # 0 /\ ~Resolving(t)
         /\ task # NoTask => task.run \in Nat \ {0}
<1>1. ASSUME NEW t \in Threads, Resolving(t) PROVE Claim(t) \in Nat \ {0}
  <2>1. job[t].task \in Tasks
    BY <1>1 DEF IInv, LocalOK, VerifyOK, Resolving
  <2> QED
    BY <1>1, <2>1 DEF Claim, Tasks
<1>2. ASSUME NEW t \in Threads, (Pursued(t) /\ pc[t] # "settle") \/ pc[t] = "mark"
      PROVE  Claim(t) = job[t].run /\ Claim(t) \in Nat \ {0} /\ ~Resolving(t)
  <2>1. job[t].run \in Nat /\ job[t].run >= 1
    BY <1>2, Numbers DEF IInv, LocalOK, RunOK, Pursued
  <2>2. ~Resolving(t)
    BY <1>2 DEF Resolving, Pursued, Running
  <2> QED
    BY <1>2, <2>1, <2>2 DEF Claim
<1>3. task # NoTask => task.run \in Nat \ {0}
  BY DEF IInv, TypeOK, Tasks
<1>4. \A t \in Threads : Claim(t) \in Nat
  BY <1>1, <1>2 DEF Claim
<1> QED
  BY <1>1, <1>2, <1>3, <1>4

\* A thread elsewhere has no number.
LEMMA NoClaim ==
  ASSUME NEW t \in Threads, pc'[t] \notin Running \ {"settle"} \/ job'[t].op \notin RunOps,
         pc'[t] \notin {"review", "conclude", "mark"}
  PROVE  Claim(t)' = 0 /\ ~Resolving(t)'
<1>1. ~Resolving(t)' /\ pc'[t] # "mark" /\ ~(Pursued(t)' /\ pc'[t] # "settle")
  BY DEF Resolving, Pursued
<1> QED
  BY <1>1 DEF Claim

LEMMA IdleClaim ==
  ASSUME NEW t \in Threads, pc'[t] = "idle"
  PROVE  Claim(t)' = 0 /\ ~Resolving(t)' /\ NotedOK(t)'
<1>1. pc'[t] \notin Running /\ pc'[t] \notin {"review", "conclude", "mark"}
  BY DEF Running
<1> QED
  BY <1>1, NoClaim DEF NotedOK

\* What the others have noted of the login stays true.
TokenKept(t) == \A u \in Threads \ {t} : pc[u] = "resolve" => account'.token = account.token

LEMMA LockedToken ==
  ASSUME IInv, NEW t \in Threads, pc[t] \in Locked
  PROVE  TokenKept(t)
BY DEF TokenKept, IInv, LocalOK, LockOK, Locked

\* The others keep what is theirs.
LEMMA OthersClaim ==
  ASSUME RInv, NEW t \in Threads, Moved(t), TokenKept(t), day' = day
  PROVE  /\ \A u \in Threads \ {t} : Claim(u)' = Claim(u) /\ (Resolving(u)' <=> Resolving(u))
         /\ \A u \in Threads \ {t} : NotedOK(u)'
BY DEF Moved, TokenKept, Claim, Resolving, Pursued, NotedOK, RInv

\* The pending verification is the same one, or there is none.
SameTask ==
  task' # NoTask => /\ task # NoTask /\ task'.run = task.run /\ task'.day = task.day
                    /\ task'.hour = task.hour /\ task'.trigger = task.trigger

\* A step that neither gives out a number nor adds a row.
LEMMA QuietRuns ==
  ASSUME RInv, AInv', NEW t \in Threads, Moved(t), TokenKept(t), NotedOK(t)',
         day' = day, runs' = runs, records' \in {records, <<>>}, SameTask,
         \/ Claim(t)' = 0 /\ ~Resolving(t)'
         \/ Claim(t)' = Claim(t) /\ (Resolving(t)' <=> Resolving(t))
  PROVE  RInv'
<1>1. /\ IInv /\ ClaimsOK /\ PendingOK /\ RecordsOK
      /\ \A u \in Threads \ {t} : Claim(u)' = Claim(u) /\ (Resolving(u)' <=> Resolving(u))
      /\ \A u \in Threads : NotedOK(u)'
  BY OthersClaim DEF RInv, AInv
<1>2. \A r : Out(r) => Out(r)'
  BY DEF Out, Unrecorded
<1>3. ClaimsOK'
  BY <1>1, <1>2 DEF ClaimsOK
<1>4. PendingOK'
  BY <1>1, <1>2, Claims DEF PendingOK, SameTask
<1>5. RecordsOK'
  BY <1>1 DEF RecordsOK
<1> QED
  BY <1>1, <1>3, <1>4, <1>5 DEF RInv

\* A number is given out.
LEMMA TakeRuns ==
  ASSUME RInv, AInv', NEW t \in Threads, Moved(t), TokenKept(t), NotedOK(t)',
         runs' = runs + 1, UNCHANGED <<task, records, day>>,
         Claim(t)' = runs + 1, ~Resolving(t), ~Resolving(t)'
  PROVE  RInv'
<1>1. /\ IInv /\ ClaimsOK /\ PendingOK /\ RecordsOK /\ runs \in Nat
      /\ \A u \in Threads \ {t} : Claim(u)' = Claim(u) /\ (Resolving(u)' <=> Resolving(u))
      /\ \A u \in Threads : NotedOK(u)'
      /\ \A i \in DOMAIN records : records[i].run \in Nat /\ records[i].run <= runs
  BY OthersClaim, Numbers DEF RInv, AInv, RecordsOK
<1>2. \A u \in Threads : Claim(u) \in Nat /\ (Claim(u) # 0 => Claim(u) <= runs /\ Out(Claim(u)))
  BY <1>1, Claims DEF ClaimsOK, Out
<1>3. \A r \in Nat : Out(r) => Out(r)'
  BY <1>1 DEF Out, Unrecorded
<1>4. \A r : r = runs + 1 => Out(r)'
  BY <1>1 DEF Out, Unrecorded
<1>7. ClaimsOK'
  <2>1. \A u \in Threads : Claim(u)' # 0 => Out(Claim(u))'
    <3> SUFFICES ASSUME NEW u \in Threads, Claim(u)' # 0 PROVE Out(Claim(u))'
      OBVIOUS
    <3>1. CASE u = t
      BY <1>4, <3>1
    <3>2. CASE u # t
      BY <1>1, <1>2, <1>3, <3>2
    <3> QED
      BY <3>1, <3>2
  <2>2. \A u \in Threads \ {t} : Claim(u) # runs + 1
    BY <1>1, <1>2
  <2>3. \A u, v \in Threads : u # v /\ Claim(u)' # 0 => Claim(u)' # Claim(v)'
    BY <1>1, <2>2 DEF ClaimsOK
  <2> QED
    BY <2>1, <2>3 DEF ClaimsOK
<1>5. PendingOK'
  <2>1. task # NoTask => task.run \in Nat /\ task.run <= runs
    BY <1>1, Claims DEF PendingOK, Out
  <2> QED
    BY <1>1, <1>3, <2>1 DEF PendingOK
<1>6. RecordsOK'
  BY <1>1 DEF RecordsOK
<1> QED
  BY <1>1, <1>5, <1>6, <1>7 DEF RInv

\* A row is added under a number that is out.
LEMMA RowRuns ==
  ASSUME RInv, AInv', NEW t \in Threads, Moved(t), TokenKept(t), NotedOK(t)',
         runs' = runs, day' = day, NEW row, records' = Append(records, row),
         row.run = Claim(t), Claim(t) # 0, Claim(t)' = 0, ~Resolving(t)',
         task' = NoTask \/ (task' = task /\ ~Resolving(t))
  PROVE  RInv'
<1>1. /\ IInv /\ ClaimsOK /\ PendingOK /\ RecordsOK /\ TypeOK
      /\ \A u \in Threads \ {t} : Claim(u)' = Claim(u) /\ (Resolving(u)' <=> Resolving(u))
      /\ \A u \in Threads : NotedOK(u)'
  BY OthersClaim DEF RInv, AInv, IInv
<1>2. \A i \in DOMAIN records' : \/ i \in DOMAIN records /\ records'[i] = records[i]
                                 \/ i = Len(records) + 1 /\ records'[i] = row
  BY <1>1, OneMoreRow
<1>3. Out(Claim(t))
  BY <1>1 DEF ClaimsOK
<1>4. \A r : Out(r) /\ r # Claim(t) => Out(r)'
  BY <1>2 DEF Out, Unrecorded
<1>5. ClaimsOK'
  BY <1>1, <1>4 DEF ClaimsOK
<1>6. PendingOK'
  BY <1>1, <1>4, Claims DEF PendingOK
<1>7. RecordsOK'
  BY <1>1, <1>2, <1>3 DEF RecordsOK, Out, Unrecorded
<1> QED
  BY <1>1, <1>5, <1>6, <1>7 DEF RInv
-----------------------------------------------------------------------------
(* The steps. *)

\* A call that ends without a row.
LEMMA EndRuns ==
  ASSUME RInv, AInv', NEW t \in Threads, Moved(t), pc'[t] = "idle",
         pc[t] \in Locked \/ account' = account,
         UNCHANGED <<runs, day>>, records' \in {records, <<>>}, SameTask
  PROVE  RInv'
<1>1. TokenKept(t)
  BY LockedToken DEF TokenKept, RInv, AInv
<1> QED
  BY <1>1, IdleClaim, QuietRuns

\* Looking for a pending verification, and taking the lock.
LEMMA LockRuns ==
  ASSUME RInv, AInv', NEW t \in Threads, Lock(t) \/ Check(t)
  PROVE  RInv'
<1>1. IInv /\ TypeOK /\ NotedOK(t)
  BY DEF RInv, AInv, IInv
<1>2. UNCHANGED <<account, task, records, runs, day>> /\ TokenKept(t) /\ SameTask
  BY DEF Lock, Check, db, Steady, clock, counters, TokenKept, SameTask
<1>3. CASE Return(t)
  BY <1>1, <1>2, <1>3, ReturnMoves, EndRuns
<1>4. CASE Check(t) /\ Goto(t, "lock") /\ job' = job
  <2>1. Moved(t) /\ pc'[t] = "lock" /\ job'[t] = job[t] /\ pc[t] = "check"
    BY <1>1, <1>4, MoveOn DEF PCs, Check
  <2>2. NotedOK(t)'
    BY <1>1, <1>2, <2>1 DEF NotedOK
  <2> QED
    BY <1>2, <2>1, <2>2, NoClaim, QuietRuns DEF Running
<1>5. CASE Lock(t) /\ Goto(t, Body(job[t].op)) /\ Let(t, [job[t] EXCEPT !.snap = account])
  <2> DEFINE j == [job[t] EXCEPT !.snap = account]
             l == Body(job[t].op)
  <2>1. job[t] \in Jobs /\ account \in Accounts /\ job[t].op \in Ops \ {"create"}
    BY <1>1, <1>5 DEF IInv, TypeOK, LocalOK, OpOK, Lock
  <2>2. j \in Jobs /\ j.snap = account /\ j.op = job[t].op /\ j.day = job[t].day
    BY <2>1 DEF Jobs
  <2>3. l \in {"begin", "login", "resolve", "edit"} /\ (l = "login" => j.op \notin RunOps)
    BY <2>1, <2>2 DEF Body, Ops, RunOps
  <2>4. Goto(t, l) /\ Let(t, j)
    BY <1>5
  <2> HIDE DEF j, l
  <2>5. Moved(t) /\ pc'[t] = l /\ job'[t] = j /\ pc[t] = "lock"
    BY <1>1, <1>5, <2>2, <2>3, <2>4, Move DEF PCs, Lock
  <2>6. NotedOK(t)'
    BY <1>1, <1>2, <2>2, <2>5 DEF NotedOK
  <2> QED
    BY <1>2, <2>3, <2>5, <2>6, NoClaim, QuietRuns DEF Running
<1> QED
  BY <1>3, <1>4, <1>5 DEF Lock, Check

\* A run begins: its number is new.
LEMMA BeginRuns ==
  ASSUME RInv, AInv', NEW t \in Threads, Begin(t)
  PROVE  RInv'
<1>1. /\ IInv /\ TypeOK /\ pc[t] = "begin" /\ pc[t] \in Locked /\ NotedOK(t)
      /\ UNCHANGED <<account, task, records, day>> /\ job[t].op \in RunOps
  BY DEF RInv, AInv, IInv, LocalOK, OpOK, Begin, Locked, clock, db
<1>2. CASE Leave(t) /\ runs' = runs
  BY <1>1, <1>2, LeaveMoves, EndRuns DEF SameTask
<1>3. CASE Enter(t)
  <2> DEFINE j == [job[t] EXCEPT !.run = runs + 1]
  <2>1. runs' = runs + 1 /\ Goto(t, "attempt") /\ Let(t, j)
    BY <1>3 DEF Enter
  <2>2. j \in Jobs /\ j.run = runs + 1 /\ j.day = job[t].day /\ j.op = job[t].op
    <3>1. job[t] \in Jobs /\ runs + 1 \in Nat
      BY <1>1, Numbers
    <3> QED
      BY <3>1 DEF Jobs
  <2> HIDE DEF j
  <2>3. Moved(t) /\ pc'[t] = "attempt" /\ job'[t] = j
    BY <1>1, <2>1, <2>2, Move DEF PCs
  <2>4. /\ Claim(t)' = runs + 1 /\ ~Resolving(t)' /\ ~Resolving(t)
    BY <1>1, <2>2, <2>3 DEF Claim, Resolving, Pursued, Running
  <2>5. NotedOK(t)'
    BY <1>1, <2>2, <2>3 DEF NotedOK
  <2> QED
    BY <1>1, <2>1, <2>3, <2>4, <2>5, LockedToken, TakeRuns
<1> QED
  BY <1>2, <1>3 DEF Begin

\* An attempt on its way keeps its number, or ends.
LEMMA AttemptRuns ==
  ASSUME RInv, AInv', NEW t \in Threads,
         \/ Attempt(t) \/ Login(t) \/ Disable(t) \/ Query(t) \/ SaveWindow(t)
         \/ Persist(t) \/ Submit(t) \/ Confirm(t)
  PROVE  RInv'
<1>1. IInv /\ Carries(t) /\ NotedOK(t)
  BY AttemptKeeps, LoginKeeps, DisableKeeps, QueryKeeps, SaveWindowKeeps, PersistKeeps, SubmitKeeps
  DEF RInv, AInv
<1>2. pc[t] \in Running \ {"record", "settle"} /\ pc[t] \in Locked
  BY DEF Attempt, Login, Disable, Query, SaveWindow, Persist, Submit, Confirm, Running, Locked
<1>3. UNCHANGED <<task, records, runs, day>>
  BY DEF Attempt, Login, Disable, Query, SaveWindow, Persist, Submit, Confirm, Steady, clock, db,
     counters
<1>4. CASE pc'[t] = "idle"
  BY <1>1, <1>2, <1>3, <1>4, EndRuns DEF Carries, SameTask
<1>5. CASE pc'[t] # "idle"
  <2>1. Moved(t) /\ pc'[t] \in Running \ {"settle"} /\ job'[t].op = job[t].op
        /\ job'[t].run = job[t].run /\ job'[t].day \in {job[t].day, day} /\ day \in Nat
    BY <1>1, <1>5, Numbers DEF Carries
  <2>2. Claim(t)' = Claim(t) /\ (Resolving(t)' <=> Resolving(t))
    BY <1>2, <2>1 DEF Claim, Resolving, Pursued, Running
  <2>3. NotedOK(t)'
    BY <1>1, <1>2, <1>3, <2>1 DEF NotedOK, Running
  <2> QED
    BY <1>1, <1>2, <1>3, <2>1, <2>2, <2>3, LockedToken, QuietRuns DEF SameTask
<1> QED
  BY <1>4, <1>5

\* The outcome is deferred: the task takes over the number of the run.
LEMMA DeferRuns ==
  ASSUME RInv, AInv', NEW t \in Threads, Defer(t)
  PROVE  RInv'
<1>1. /\ IInv /\ TypeOK /\ pc[t] = "defer" /\ pc[t] \in Locked /\ NotedOK(t) /\ Leave(t)
      /\ ClaimsOK /\ RecordsOK /\ UNCHANGED <<account, records, runs, day>>
      /\ task'.run = job[t].run /\ task'.day = job[t].day
  BY DEF RInv, AInv, IInv, Defer, Locked, Running, Steady, clock, counters
<1>2. Moved(t) /\ Claim(t)' = 0 /\ ~Resolving(t)' /\ NotedOK(t)' /\ TokenKept(t)
  BY <1>1, LeaveMoves, IdleClaim, LockedToken
<1>3. /\ \A u \in Threads \ {t} : Claim(u)' = Claim(u) /\ (Resolving(u)' <=> Resolving(u))
      /\ \A u \in Threads : NotedOK(u)'
  BY <1>1, <1>2, OthersClaim
<1>4. Claim(t) = job[t].run /\ Claim(t) # 0 /\ job[t].day <= day
  BY <1>1, UnderWay, Claims DEF NotedOK, Pursued, Running
<1>5. \A u \in Threads \ {t} : ~Resolving(u)
  BY <1>1 DEF IInv, LocalOK, LockOK, Locked, Resolving
<1>6. \A r : Out(r) => Out(r)'
  BY <1>1 DEF Out, Unrecorded
<1>7. PendingOK'
  <2>1. Out(task.run)' /\ task'.day <= day'
    BY <1>1, <1>4, <1>6 DEF ClaimsOK
  <2>2. \A u \in Threads : Claim(u)' # task'.run
    BY <1>1, <1>2, <1>3, <1>4 DEF ClaimsOK
  <2> QED
    BY <1>2, <1>3, <1>5, <2>1, <2>2 DEF PendingOK
<1>8. ClaimsOK'
  BY <1>1, <1>2, <1>3, <1>6 DEF ClaimsOK
<1>9. RecordsOK'
  BY <1>1 DEF RecordsOK
<1> QED
  BY <1>3, <1>7, <1>8, <1>9 DEF RInv

\* A run is recorded, and then shown.
LEMMA RecordRuns ==
  ASSUME RInv, AInv', NEW t \in Threads, Record(t) \/ Settle(t)
  PROVE  RInv'
<1>1. /\ IInv /\ TypeOK /\ NotedOK(t) /\ pc[t] \in Locked /\ UNCHANGED <<task, runs, day>>
      /\ pc[t] \in Running \ {"attempt", "login", "disable"} /\ TokenKept(t)
  BY LockedToken
  DEF RInv, AInv, IInv, Record, Settle, Locked, Running, Steady, clock, counters
<1>2. task = NoTask /\ job[t].op \in RunOps
  BY <1>1, UnderWay
<1>3. CASE Record(t)
  <2> DEFINE row == Row(job[t].run, job[t].day, job[t].hour, job[t].op, job[t].result)
  <2>1. /\ pc[t] = "record" /\ Goto(t, "settle") /\ job' = job
        /\ records' = Append(records, row) /\ row.run = job[t].run
    BY <1>3 DEF Record, Row
  <2> HIDE DEF row
  <2>2. Moved(t) /\ pc'[t] = "settle" /\ job'[t] = job[t]
    BY <1>1, <2>1, MoveOn DEF PCs
  <2>3. Claim(t) = job[t].run /\ Claim(t) # 0
    BY <1>1, <1>2, <2>1, Claims DEF Pursued
  <2>4. Claim(t)' = 0 /\ ~Resolving(t)' /\ NotedOK(t)'
    BY <1>1, <2>1, <2>2, NoClaim DEF NotedOK
  <2> QED
    BY <1>1, <1>2, <2>1, <2>2, <2>3, <2>4, RowRuns
<1>4. CASE Settle(t)
  BY <1>1, <1>4, LeaveMoves, EndRuns DEF Settle, SameTask
<1> QED
  BY <1>3, <1>4

\* Editing the account.
LEMMA EditRuns ==
  ASSUME RInv, AInv', NEW t \in Threads, Update(t) \/ Delete(t)
  PROVE  RInv'
<1>1. /\ IInv /\ TypeOK /\ pc[t] = "edit" /\ pc[t] \in Locked /\ NotedOK(t)
      /\ UNCHANGED <<runs, day>>
  BY DEF RInv, AInv, IInv, Update, Delete, Locked, Steady, clock, counters
<1>2. records' \in {records, <<>>} /\ task' \in {task, NoTask} /\ SameTask
  BY DEF Update, Delete, SameTask
<1>3. CASE Leave(t)
  BY <1>1, <1>2, <1>3, LeaveMoves, EndRuns
<1>4. CASE job[t].op = "update" /\ Goto(t, "disable") /\ job' = job
  <2>1. Moved(t) /\ pc'[t] = "disable" /\ job'[t] = job[t]
    BY <1>1, <1>4, MoveOn DEF PCs
  <2>2. Claim(t)' = 0 /\ ~Resolving(t)' /\ NotedOK(t)'
    BY <1>1, <1>4, <2>1, NoClaim DEF NotedOK, RunOps
  <2> QED
    BY <1>1, <1>2, <2>1, <2>2, LockedToken, QuietRuns
<1> QED
  BY <1>3, <1>4 DEF Update, Delete, AuthFails, Fail, RunOps

\* A resolution takes up the task and its number, or drops it.
LEMMA ResolveRuns ==
  ASSUME RInv, AInv', NEW t \in Threads, Resolve(t)
  PROVE  RInv'
<1>1. /\ IInv /\ TypeOK /\ pc[t] = "resolve" /\ pc[t] \in Locked /\ NotedOK(t)
      /\ ClaimsOK /\ RecordsOK /\ PendingOK
      /\ UNCHANGED <<account, records, runs, day>> /\ task' \in {task, NoTask}
  BY DEF RInv, AInv, IInv, Resolve, Locked, Steady, clock, counters
<1>2. CASE Leave(t)
  BY <1>1, <1>2, LeaveMoves, EndRuns DEF SameTask
<1>3. CASE task # NoTask /\ Goto(t, "review") /\ Let(t, [job[t] EXCEPT !.task = task])
           /\ UNCHANGED <<task, lock>>
  <2> DEFINE j == [job[t] EXCEPT !.task = task]
  <2>1. job[t] \in Jobs /\ task \in Tasks
    BY <1>1, <1>3, Numbers
  <2>2. j \in Jobs /\ j.task = task /\ j.day = job[t].day
    BY <2>1 DEF Jobs
  <2>3. Let(t, j)
    BY <1>3
  <2> HIDE DEF j
  <2>4. Moved(t) /\ pc'[t] = "review" /\ job'[t] = j
    BY <1>1, <1>3, <2>2, <2>3, Move DEF PCs
  <2>5. Claim(t)' = task.run /\ Resolving(t)' /\ NotedOK(t)'
    BY <1>1, <2>2, <2>4 DEF Claim, Resolving, NotedOK
  <2>6. /\ \A u \in Threads \ {t} : Claim(u)' = Claim(u) /\ (Resolving(u)' <=> Resolving(u))
        /\ \A u \in Threads : NotedOK(u)'
    BY <1>1, <2>4, <2>5, LockedToken, OthersClaim
  <2>7. \A u \in Threads \ {t} : ~Resolving(u) /\ Claim(u) # task.run
    <3>1. \A u \in Threads \ {t} : ~Resolving(u)
      BY <1>1 DEF IInv, LocalOK, LockOK, Locked, Resolving
    <3> QED
      BY <1>1, <1>3, <3>1 DEF PendingOK
  <2>8. \A r : Out(r) => Out(r)'
    BY <1>1 DEF Out, Unrecorded
  <2>9. PendingOK'
    BY <1>1, <1>3, <2>5, <2>6, <2>7, <2>8 DEF PendingOK
  <2>10. ClaimsOK'
    BY <1>1, <1>3, <2>5, <2>6, <2>7, <2>8 DEF ClaimsOK, PendingOK
  <2>11. RecordsOK'
    BY <1>1 DEF RecordsOK
  <2> QED
    BY <2>6, <2>9, <2>10, <2>11 DEF RInv
<1> QED
  BY <1>2, <1>3 DEF Resolve

\* The school's verdict is noted.
LEMMA ReviewRuns ==
  ASSUME RInv, AInv', NEW t \in Threads, Review(t)
  PROVE  RInv'
<1>1. /\ IInv /\ TypeOK /\ pc[t] = "review" /\ pc[t] \in Locked /\ NotedOK(t)
      /\ UNCHANGED <<account, task, records, runs, day>> /\ TokenKept(t) /\ SameTask
  BY LockedToken DEF RInv, AInv, IInv, Review, Locked, Steady, clock, db, counters, SameTask
<1>2. PICK v \in {"success", "failed", "again"} : Let(t, [job[t] EXCEPT !.result = v])
  BY DEF Review
<1> DEFINE j == [job[t] EXCEPT !.result = v]
<1>3. job[t] \in Jobs /\ v \in Results
  BY <1>1, Numbers DEF Results, Statuses
<1>4. j \in Jobs /\ j.task = job[t].task /\ j.day = job[t].day
  BY <1>3 DEF Jobs
<1>5. Moved(t) /\ pc'[t] = "conclude" /\ job'[t] = j
  BY <1>1, <1>2, <1>4, Move DEF Review, PCs
<1> HIDE DEF j
<1>6. Claim(t)' = Claim(t) /\ Resolving(t) /\ Resolving(t)' /\ NotedOK(t)'
  BY <1>1, <1>4, <1>5 DEF Claim, Resolving, NotedOK
<1> QED
  BY <1>1, <1>5, <1>6, QuietRuns

\* The task is asked about again, or its verdict is written.
LEMMA ConcludeRuns ==
  ASSUME RInv, AInv', NEW t \in Threads, Conclude(t)
  PROVE  RInv'
<1>1. /\ IInv /\ TypeOK /\ pc[t] = "conclude" /\ pc[t] \in Locked /\ Leave(t)
      /\ UNCHANGED <<runs, day>> /\ Resolving(t)
  BY DEF RInv, AInv, IInv, Conclude, Locked, Steady, clock, counters, Resolving
<1>2. Moved(t) /\ pc'[t] = "idle"
  BY <1>1, LeaveMoves
<1>3. CASE Bump(t) /\ UNCHANGED <<account, records>>
  <2>1. task # NoTask => task \in Tasks
    BY <1>1, Numbers
  <2>2. SameTask
    BY <1>3, <2>1 DEF Bump, Tasks, SameTask
  <2> QED
    BY <1>1, <1>2, <1>3, <2>2, EndRuns
<1>4. CASE RecordVerdict(t)
  <2>1. records' = Append(records, Verdict(t)) /\ task' = NoTask
    BY <1>4 DEF RecordVerdict
  <2>2. Verdict(t).run = Claim(t) /\ Claim(t) # 0
    BY <1>1, Claims DEF Verdict, Row, Claim
  <2> QED
    BY <1>1, <1>2, <2>1, <2>2, IdleClaim, LockedToken, RowRuns
<1> QED
  BY <1>3, <1>4 DEF Conclude

\* The account is added, and marked as done.
LEMMA CreateRuns ==
  ASSUME RInv, AInv', NEW t \in Threads, Insert(t) \/ Mark(t)
  PROVE  RInv'
<1>1. /\ IInv /\ TypeOK /\ NewOK /\ account \in Accounts /\ runs \in Nat /\ job[t] \in Jobs
      /\ day \in 0..MaxDay /\ hour \in 0..MaxHour /\ day' = day /\ task' = task
      /\ pc[t] \in {"insert", "mark"} /\ ~Resolving(t)
  <2>1. IInv /\ TypeOK /\ NewOK
    BY DEF RInv, AInv, IInv
  <2>2. day' = day /\ task' = task /\ pc[t] \in {"insert", "mark"}
    BY DEF Insert, Mark, Steady, clock
  <2>3. account \in Accounts /\ runs \in Nat /\ job[t] \in Jobs /\ day \in 0..MaxDay
        /\ hour \in 0..MaxHour
    BY <2>1, LimitAssumption DEF TypeOK
  <2> QED
    BY <2>1, <2>2, <2>3 DEF Resolving
<1>2. TokenKept(t)
  <2>1. CASE Insert(t)
    BY <1>1, <2>1 DEF NewOK, TokenKept, Insert
  <2>2. CASE Mark(t)
    BY <1>1, <2>2 DEF TokenKept, Mark, Accounts
  <2> QED
    BY <2>1, <2>2
<1>3. SameTask
  BY <1>1 DEF SameTask
<1>4. ASSUME Goto(t, "idle"), Let(t, NoJob), UNCHANGED <<runs, records>> PROVE RInv'
  <2>1. Moved(t) /\ pc'[t] = "idle"
    BY <1>1, <1>4, Move, NoJobType DEF PCs
  <2> QED
    BY <1>1, <1>2, <1>3, <1>4, <2>1, IdleClaim, QuietRuns
<1>5. ASSUME Insert(t), runs' = runs + 1, Goto(t, "mark"),
             Let(t, [job[t] EXCEPT !.run = runs + 1, !.day = day, !.hour = hour])
      PROVE  RInv'
  <2> DEFINE j == [job[t] EXCEPT !.run = runs + 1, !.day = day, !.hour = hour]
  <2>1. runs + 1 \in Nat
    BY <1>1
  <2>2. j \in Jobs /\ j.run = runs + 1 /\ j.day = day
    BY <1>1, <2>1 DEF Jobs
  <2>3. Let(t, j)
    BY <1>5
  <2> HIDE DEF j
  <2>4. Moved(t) /\ pc'[t] = "mark" /\ job'[t] = j
    BY <1>1, <1>5, <2>2, <2>3, Move DEF PCs
  <2>5. /\ Claim(t)' = runs + 1 /\ ~Resolving(t)' /\ NotedOK(t)'
    BY <1>1, <2>2, <2>4 DEF Claim, Resolving, NotedOK
  <2>6. records' = records
    BY <1>5 DEF Insert
  <2> QED
    BY <1>1, <1>2, <1>5, <2>4, <2>5, <2>6, TakeRuns
<1>6. ASSUME Mark(t), NEW row, records' = Append(records, row), row.run = job[t].run
      PROVE  RInv'
  <2>1. Moved(t) /\ pc'[t] = "idle" /\ runs' = runs /\ pc[t] = "mark"
    BY <1>1, <1>6, ReturnMoves DEF Mark, Steady, counters
  <2>2. Claim(t) = job[t].run /\ Claim(t) # 0
    BY <1>1, <2>1, Claims
  <2> QED
    BY <1>1, <1>2, <1>6, <2>1, <2>2, IdleClaim, RowRuns
<1>7. CASE Insert(t)
  BY <1>4, <1>5, <1>7 DEF Insert
<1>8. CASE Mark(t)
  <2>1. CASE records' = records
    BY <1>4, <1>8, <2>1 DEF Mark, Return, Steady, counters
  <2>2. CASE records' # records
    <3> DEFINE row == Row(job[t].run, job[t].day, job[t].hour, "manual", "skipped")
    <3>1. records' = Append(records, row)
      BY <1>8, <2>2 DEF Mark
    <3>2. row.run = job[t].run
      BY DEF Row
    <3> HIDE DEF row
    <3> QED
      BY <1>6, <1>8, <3>1, <3>2
  <2> QED
    BY <2>1, <2>2
<1> QED
  BY <1>7, <1>8

\* The jobs of a tick, calls, and the world: no number is given out.
LEMMA RestRuns ==
  ASSUME RInv, AInv', Tick \/ World \/ \E w \in Web : Call(w) \/ Probe(w)
  PROVE  RInv'
<1>1. IInv /\ TypeOK /\ ClaimsOK /\ PendingOK /\ RecordsOK /\ \A t \in Threads : NotedOK(t)
  BY DEF RInv, AInv, IInv
<1>2. CASE World \/ UNCHANGED <<account, task, records, runs, day, pc, job>>
  <2>1. /\ UNCHANGED <<account, records, runs>> /\ day' >= day /\ day' \in Nat /\ day \in Nat
        /\ \A t \in Threads : pc'[t] = "idle" \/ (pc'[t] = pc[t] /\ job'[t] = job[t])
    BY <1>1, <1>2, Numbers
    DEF World, NextDay, NextHour, SignElsewhere, Show, Crash, TaskDue, PurgeTask, Steady, clock,
        db, counters
  <2>2. SameTask
    <3>1. CASE TaskDue
      <4>1. task \in Tasks
        BY <1>1, <3>1, Numbers DEF TaskDue
      <4> QED
        BY <3>1, <4>1 DEF TaskDue, Tasks, SameTask
    <3>2. CASE ~TaskDue
      <4>1. task' \in {task, NoTask}
        BY <1>2, <3>2 DEF World, NextDay, NextHour, SignElsewhere, Show, Crash, PurgeTask, db
      <4> QED
        BY <4>1 DEF SameTask
    <3> QED
      BY <3>1, <3>2
  <2>3. ASSUME NEW t \in Threads
        PROVE  /\ NotedOK(t)'
               /\ \/ Claim(t)' = 0 /\ ~Resolving(t)' /\ pc'[t] = "idle"
                  \/ Claim(t)' = Claim(t) /\ (Resolving(t)' <=> Resolving(t))
    <3>1. CASE pc'[t] = "idle"
      BY <3>1, IdleClaim
    <3>2. CASE pc'[t] = pc[t] /\ job'[t] = job[t]
      <4>1. NotedOK(t) /\ job[t].day \in Nat
        BY <1>1, Numbers
      <4> QED
        BY <2>1, <3>2, <4>1 DEF Claim, Resolving, Pursued, NotedOK
    <3> QED
      BY <2>1, <3>1, <3>2
  <2>4. \A r : Out(r) => Out(r)'
    BY <2>1 DEF Out, Unrecorded
  <2>5. ClaimsOK'
    BY <1>1, <2>3, <2>4 DEF ClaimsOK
  <2>6. PendingOK'
    BY <1>1, <2>1, <2>2, <2>3, <2>4, Claims, Numbers DEF PendingOK, SameTask
  <2>7. RecordsOK'
    BY <1>1, <2>1 DEF RecordsOK
  <2> QED
    BY <2>3, <2>5, <2>6, <2>7 DEF RInv
<1>3. ASSUME NEW t \in Threads, NEW j \in Jobs, NEW l \in {"check", "lock", "insert"}, j.day = 0,
             pc[t] = "idle", Goto(t, l), Let(t, j), UNCHANGED <<account, task, records, runs, day>>
      PROVE  RInv'
  <2>1. Moved(t) /\ pc'[t] = l /\ job'[t] = j
    BY <1>1, <1>3, Move DEF PCs
  <2>2. Claim(t)' = 0 /\ ~Resolving(t)' /\ NotedOK(t)'
    BY <1>3, <2>1, NoClaim, Numbers, <1>1 DEF NotedOK, Running
  <2> QED
    BY <1>3, <2>1, <2>2, QuietRuns DEF TokenKept, SameTask
<1>4. \A op \in Ops : [NoJob EXCEPT !.op = op] \in Jobs /\ [NoJob EXCEPT !.op = op].day = 0
  BY NewJobType DEF NoJob
<1>5. CASE Tick
  <2>1. UNCHANGED <<account, task, records, runs, day>>
    BY <1>5 DEF Tick, TickVerify, TickCheckin, TickRefresh, TickOver, clock, db, counters
  <2>2. \/ UNCHANGED <<pc, job>>
        \/ \E op \in Ops, l \in {"check", "lock"} :
             pc[Sched] = "idle" /\ Goto(Sched, l) /\ Let(Sched, [NoJob EXCEPT !.op = op])
    BY <1>5 DEF Tick, TickVerify, TickCheckin, TickRefresh, TickOver, Ops
  <2> QED
    BY <1>2, <1>3, <1>4, <2>1, <2>2 DEF Threads
<1>6. ASSUME NEW w \in Web, Call(w) PROVE RInv'
  <2>1. UNCHANGED <<account, task, records, runs, day>> /\ pc[w] = "idle" /\ w \in Threads
    BY <1>6 DEF Call, clock, db, Threads
  <2>2. \E op \in Ops, l \in {"check", "lock"} : Goto(w, l) /\ Let(w, [NoJob EXCEPT !.op = op])
    BY <1>6 DEF Call, Ops
  <2> QED
    BY <1>3, <1>4, <2>1, <2>2
<1>7. ASSUME NEW w \in Web, Probe(w) PROVE RInv'
  <2> DEFINE j == [NoJob EXCEPT !.op = "create", !.answer = IF visible THEN "signed" ELSE "open"]
  <2>1. UNCHANGED <<account, task, records, runs, day>> /\ pc[w] = "idle" /\ w \in Threads
        /\ Goto(w, "insert") /\ Let(w, j)
    BY <1>7 DEF Probe, clock, db, Threads
  <2>2. j \in Jobs /\ j.day = 0
    BY NoJobType DEF NoJob, Jobs, Ops, Answers
  <2> HIDE DEF j
  <2> QED
    BY <1>3, <2>1, <2>2
<1> QED
  BY <1>2, <1>5, <1>6, <1>7

\* Numbers that are out stay so until their row is written.
LEMMA RunsKeep == RInv /\ [Next]_vars => RInv'
<1> SUFFICES ASSUME RInv, [Next]_vars PROVE RInv'
  OBVIOUS
<1>1. AInv'
  BY NewKeeps DEF RInv
<1>2. ASSUME NEW t \in Threads, ThreadStep(t) PROVE RInv'
  BY <1>1, <1>2, LockRuns, BeginRuns, AttemptRuns, DeferRuns, RecordRuns, EditRuns, ResolveRuns,
     ReviewRuns, ConcludeRuns, CreateRuns
  DEF ThreadStep, RunStep
<1>3. CASE Tick \/ World \/ \E w \in Web : Call(w) \/ Probe(w)
  BY <1>1, <1>3, RestRuns
<1>4. CASE UNCHANGED vars
  BY <1>1, <1>4 DEF vars, RInv, ClaimsOK, PendingOK, RecordsOK, NotedOK, Claim, Out, Unrecorded,
     Pursued, Resolving
<1> QED
  BY <1>2, <1>3, <1>4 DEF Next

LEMMA RunsStart == Init \/ InitNew => RInv
<1> SUFFICES ASSUME Init \/ InitNew PROVE RInv
  OBVIOUS
<1>1. AInv /\ task = NoTask /\ records = <<>> /\ \A t \in Threads : pc[t] = "idle"
  BY NewStart DEF Init, InitNew, InitRest
<1>2. \A t \in Threads : Claim(t) = 0 /\ NotedOK(t)
  BY <1>1 DEF Claim, Resolving, Pursued, Running, NotedOK
<1> QED
  BY <1>1, <1>2 DEF RInv, ClaimsOK, PendingOK, RecordsOK

\* The numbers of runs are in order, whether the account exists or is added.
THEOREM RunsInvariance == (Spec => []RInv) /\ (SpecFromCreation => []RInv)
<1>1. Init => RInv
  BY RunsStart
<1>2. InitNew => RInv
  BY RunsStart
<1>3. Spec => []RInv
  BY <1>1, RunsKeep, PTL DEF Spec
<1>4. SpecFromCreation => []RInv
  BY <1>2, RunsKeep, PTL DEF SpecFromCreation
<1> QED
  BY <1>3, <1>4

\* No run has two rows in records, nor one while its verification is pending,
\* however attempts, verdicts, purges, restarts, deletions and the creation of
\* the account interleave.
THEOREM Recorded == (Spec => []RecordedOnce) /\ (SpecFromCreation => []RecordedOnce)
<1>1. RInv => RecordedOnce
  BY DEF RInv, RecordsOK, PendingOK, Out, Unrecorded, RecordedOnce
<1> QED
  BY <1>1, RunsInvariance, PTL

\* What a step may do to a pending verification.
LEMMA TaskSteps ==
  ASSUME RInv, Next, task # NoTask, task' = NoTask
  PROVE  \/ task.day < day \/ account.token # day \/ account'.life = "gone"
         \/ \E i \in DOMAIN records' : records'[i].run = task.run
<1>1. /\ IInv /\ TypeOK /\ task.day \in Nat /\ day \in Nat /\ task.day <= day
      /\ account \in Accounts
  BY Numbers DEF RInv, AInv, IInv, PendingOK
<1>2. ASSUME NEW t \in Threads, ThreadStep(t)
      PROVE  \/ task.day < day \/ account.token # day \/ account'.life = "gone"
             \/ \E i \in DOMAIN records' : records'[i].run = task.run
  <2>1. CASE Resolve(t)
    <3>1. job[t].snap.token = account.token
      BY <2>1 DEF RInv, NotedOK, Resolve
    <3>2. task.day # day \/ job[t].snap.token # day
      BY <2>1 DEF Resolve
    <3> QED
      BY <1>1, <3>1, <3>2
  <2>2. CASE Conclude(t)
    <3>1. RecordVerdict(t)
      <4>1. task \in Tasks /\ task' \notin Tasks
        BY <1>1, Numbers, NoTaskAssumption
      <4>2. Bump(t) => task' = [task EXCEPT !.rounds = task.rounds + 1, !.due = FALSE]
        BY DEF Bump
      <4>3. /\ task.rounds = job[t].task.rounds
            /\ job[t].result = "again" => job[t].task.rounds + 1 < MaxRounds
        BY <1>1, <2>2 DEF IInv, LocalOK, VerifyOK, Conclude
      <4>4. job[t].result = "again" => task.rounds + 1 \in 0..(MaxRounds - 1)
        BY <4>1, <4>3, LimitAssumption DEF Tasks
      <4>5. job[t].result = "again" /\ Bump(t) => task' \in Tasks
        BY <4>1, <4>2, <4>4 DEF Tasks
      <4> QED
        BY <2>2, <4>1, <4>5 DEF Conclude
    <3>2. Verdict(t).run = task.run
      <4>1. Resolving(t) /\ Claim(t) = job[t].task.run
        BY <2>2 DEF Conclude, Resolving, Claim
      <4>2. Claim(t) = task.run
        BY <4>1 DEF RInv, PendingOK
      <4> QED
        BY <4>1, <4>2 DEF Verdict, Row
    <3>3. records' = Append(records, Verdict(t))
      BY <3>1 DEF RecordVerdict
    <3> QED
      BY <1>1, <3>2, <3>3, OneMoreRow
  <2>3. CASE Delete(t)
    BY <1>1, <2>3 DEF Delete, Accounts
  <2>4. CASE Defer(t)
    <3>1. pc[t] \in Running \ {"attempt", "login", "disable"}
      BY <2>4 DEF Defer, Running
    <3> QED
      BY <1>1, <3>1, UnderWay
  <2>5. task' = task \/ Resolve(t) \/ Conclude(t) \/ Delete(t) \/ Defer(t)
    BY <1>2, Zenon DEF ThreadStep, RunStep, Lock, Check, Begin, Attempt, Login, Disable, Query,
       SaveWindow, Persist, Submit, Confirm, Update, Record, Settle, Review, Insert, Mark, db
  <2> QED
    BY <2>1, <2>2, <2>3, <2>4, <2>5
<1>3. CASE Tick \/ World \/ \E w \in Web : Call(w) \/ Probe(w)
  <2>1. ~TaskDue
    <3>1. task \in Tasks /\ task' \notin Tasks
      BY <1>1, Numbers, NoTaskAssumption
    <3> QED
      BY <3>1 DEF TaskDue, Tasks
  <2>2. PurgeTask
    BY <1>3, <2>1 DEF Tick, TickVerify, TickCheckin, TickRefresh, TickOver, World, NextDay, NextHour,
       SignElsewhere, Show, Crash, PurgeTask, Call, Probe, db
  <2> QED
    BY <2>2 DEF PurgeTask
<1> QED
  BY <1>2, <1>3 DEF Next

\* A deferred outcome ends in a record of its run, unless its day is over, its
\* login is no longer of today, or the account is deleted.
THEOREM OutcomeKept == (Spec => OutcomeNotLost) /\ (SpecFromCreation => OutcomeNotLost)
<1>1. RInv /\ [Next]_vars
        => [task # NoTask /\ task' = NoTask =>
              \/ task.day < day \/ account.token # day \/ account'.life = "gone"
              \/ \E i \in DOMAIN records' : records'[i].run = task.run]_vars
  BY TaskSteps
<1>2. Spec => OutcomeNotLost
  BY <1>1, RunsInvariance, PTL DEF Spec, OutcomeNotLost
<1>3. SpecFromCreation => OutcomeNotLost
  BY <1>1, RunsInvariance, PTL DEF SpecFromCreation, OutcomeNotLost
<1> QED
  BY <1>2, <1>3
-----------------------------------------------------------------------------
(* What a hosted account (Spec) shows of its runs.  Runs are numbered in   *)
(* the order in which they enter the account lock.  HInv says that the run *)
(* under way, or else the one whose verification is pending, is later than *)
(* the one the account shows, and that the last run which a thread has     *)
(* read under the lock is still the last one.  It does not hold of         *)
(* SpecFromCreation: creating an account writes the last_* columns without *)
(* the lock.                                                               *)

LastOK(t) ==
  /\ pc[t] \notin {"insert", "mark"}
  /\ pc[t] \in Locked => job[t].snap.last = account.last
  /\ Pursued(t) => account.last.run < job[t].run /\ job[t].run <= runs
  /\ Resolving(t) => account.last.run < job[t].task.run

LastRunOK ==
  /\ account.life # "new" /\ account.last.run <= runs
  /\ task # NoTask => account.last.run < task.run

HInv == RInv /\ LastRunOK /\ \A t \in Threads : LastOK(t)
-----------------------------------------------------------------------------
\* A step of t under the lock, or one that writes neither the account nor the
\* number of runs, keeps what holds of the others.
LEMMA OthersLast ==
  ASSUME HInv, RInv', LastRunOK', NEW t \in Threads, Moved(t), LastOK(t)',
         pc[t] \in Locked \/ UNCHANGED <<account, runs>>
  PROVE  HInv'
<1>1. ASSUME NEW u \in Threads \ {t} PROVE LastOK(u)'
  <2>1. LastOK(u) /\ LockOK(u) /\ LockOK(t) /\ pc'[u] = pc[u] /\ job'[u] = job[u]
    BY DEF HInv, RInv, AInv, IInv, LocalOK, Moved
  <2>2. CASE pc[u] \notin Locked
    BY <2>1, <2>2 DEF LastOK, Pursued, Resolving, Locked
  <2>3. CASE pc[u] \in Locked
    <3>1. UNCHANGED <<account, runs>>
      BY <2>1, <2>3 DEF LockOK
    <3> QED
      BY <2>1, <3>1 DEF LastOK, Pursued, Resolving
  <2> QED
    BY <2>2, <2>3
<1> QED
  BY <1>1 DEF HInv

\* So does one that leaves the last_* columns alone.
LEMMA LastStays ==
  ASSUME HInv, RInv', NEW t \in Threads, Moved(t), LastOK(t)', SameTask, runs' = runs,
         account'.last = account.last, account'.life \in {account.life, "gone"},
         pc[t] \in Locked \/ account' = account
  PROVE  HInv'
<1>1. LastRunOK'
  BY DEF HInv, LastRunOK, SameTask
<1> QED
  BY <1>1, OthersLast

\* A call that has ended has nothing to show.
LEMMA IdleLast ==
  ASSUME NEW t \in Threads, pc'[t] = "idle"
  PROVE  LastOK(t)'
BY DEF LastOK, Pursued, Resolving, Locked, Running

\* An attempt on its way, and what else writes neither records nor last_*.
LEMMA AttemptLast ==
  ASSUME HInv, RInv', NEW t \in Threads,
         \/ Attempt(t) \/ Login(t) \/ Disable(t) \/ Query(t) \/ SaveWindow(t)
         \/ Persist(t) \/ Submit(t) \/ Confirm(t)
  PROVE  HInv'
<1>1. IInv /\ account \in Accounts /\ day \in 1..MaxDay /\ LastOK(t)
  BY DEF HInv, RInv, AInv, IInv, TypeOK
<1>2. Carries(t)
  BY <1>1, AttemptKeeps, LoginKeeps, DisableKeeps, QueryKeeps, SaveWindowKeeps,
     PersistKeeps, SubmitKeeps
<1>3. pc[t] \in Running \ {"record", "settle"} /\ pc[t] \in Locked
  BY DEF Attempt, Login, Disable, Query, SaveWindow, Persist, Submit, Confirm, Running, Locked
<1>4. runs' = runs /\ SameTask
  BY DEF Attempt, Login, Disable, Query, SaveWindow, Persist, Submit, Confirm, Steady, db,
     counters, SameTask
<1>5. account'.last = account.last /\ account'.life = account.life
  <2>1. CASE Attempt(t) \/ Query(t) \/ Submit(t) \/ Confirm(t)
    BY <2>1 DEF Attempt, Query, Submit, Confirm, db
  <2>2. CASE Login(t) \/ Persist(t)
    BY <1>1, <2>2, AuthWrites DEF Login, AuthFails, Persist
  <2>3. CASE SaveWindow(t)
    BY <1>1, <2>3, WindowWrites DEF SaveWindow
  <2>4. CASE Disable(t)
    BY <1>1, <2>4 DEF Disable, Accounts
  <2> QED
    BY <2>1, <2>2, <2>3, <2>4
<1>6. LastOK(t)'
  <2>1. CASE pc'[t] = "idle"
    BY <2>1, IdleLast
  <2>2. CASE pc'[t] # "idle"
    BY <1>1, <1>2, <1>3, <1>4, <1>5, <2>2
    DEF LastOK, Pursued, Resolving, Carries, Locked, Running
  <2> QED
    BY <2>1, <2>2
<1> QED
  BY <1>2, <1>3, <1>4, <1>5, <1>6, LastStays DEF Carries

\* Looking for a pending verification, and taking the lock.
LEMMA LockLast ==
  ASSUME HInv, RInv', NEW t \in Threads, Lock(t) \/ Check(t)
  PROVE  HInv'
<1>1. IInv /\ TypeOK
  BY DEF HInv, RInv, AInv, IInv
<1>2. UNCHANGED <<account, runs>> /\ SameTask
  BY DEF Lock, Check, db, Steady, counters, SameTask
<1>3. CASE Return(t)
  BY <1>1, <1>2, <1>3, ReturnMoves, IdleLast, LastStays
<1>4. CASE Check(t) /\ Goto(t, "lock") /\ job' = job
  <2>1. Moved(t) /\ pc'[t] = "lock"
    BY <1>1, <1>4, MoveOn DEF PCs
  <2>2. LastOK(t)'
    BY <2>1 DEF LastOK, Pursued, Resolving, Locked, Running
  <2> QED
    BY <1>2, <2>1, <2>2, LastStays
<1>5. CASE Lock(t) /\ Goto(t, Body(job[t].op)) /\ Let(t, [job[t] EXCEPT !.snap = account])
  <2> DEFINE j == [job[t] EXCEPT !.snap = account]
             l == Body(job[t].op)
  <2>1. job[t] \in Jobs /\ account \in Accounts /\ job[t].op \in Ops \ {"create"}
    BY <1>1, <1>5 DEF IInv, TypeOK, LocalOK, OpOK, Lock
  <2>2. j \in Jobs /\ j.snap = account /\ j.op = job[t].op
    BY <2>1 DEF Jobs
  <2>3. l \in {"begin", "login", "resolve", "edit"} /\ (l = "login" => j.op \notin RunOps)
    BY <2>1, <2>2 DEF Body, Ops, RunOps
  <2>4. Goto(t, l) /\ Let(t, j)
    BY <1>5
  <2> HIDE DEF j, l
  <2>5. Moved(t) /\ pc'[t] = l /\ job'[t] = j
    BY <1>1, <2>2, <2>3, <2>4, Move DEF PCs
  <2>6. LastOK(t)'
    BY <1>2, <2>2, <2>3, <2>5 DEF LastOK, Pursued, Resolving, Locked, Running
  <2> QED
    BY <1>2, <2>5, <2>6, LastStays
<1> QED
  BY <1>3, <1>4, <1>5 DEF Lock, Check

\* A run begins: it is later than all others.
LEMMA BeginLast ==
  ASSUME HInv, RInv', NEW t \in Threads, Begin(t)
  PROVE  HInv'
<1>1. /\ IInv /\ TypeOK /\ pc[t] = "begin" /\ pc[t] \in Locked /\ LastOK(t)
      /\ account.last.run \in Nat /\ runs \in Nat
      /\ UNCHANGED <<account, task>>
  BY Numbers DEF HInv, RInv, AInv, IInv, Begin, Locked, db
<1>2. CASE Leave(t) /\ runs' = runs
  BY <1>1, <1>2, LeaveMoves, IdleLast, LastStays DEF SameTask
<1>3. CASE Enter(t)
  <2> DEFINE j == [job[t] EXCEPT !.run = runs + 1]
  <2>1. runs' = runs + 1 /\ Goto(t, "attempt") /\ Let(t, j)
    BY <1>3 DEF Enter
  <2>2. j \in Jobs /\ j.run = runs + 1 /\ j.snap = job[t].snap
    <3>1. job[t] \in Jobs /\ runs + 1 \in Nat
      BY <1>1, Numbers
    <3> QED
      BY <3>1 DEF Jobs
  <2> HIDE DEF j
  <2>3. Moved(t) /\ pc'[t] = "attempt" /\ job'[t] = j
    BY <1>1, <2>1, <2>2, Move DEF PCs
  <2>4. LastRunOK'
    BY <1>1, <2>1 DEF HInv, LastRunOK
  <2>5. LastOK(t)'
    BY <1>1, <2>1, <2>2, <2>3 DEF HInv, LastRunOK, LastOK, Pursued, Resolving, Locked, Running
  <2> QED
    BY <1>1, <2>3, <2>4, <2>5, OthersLast
<1> QED
  BY <1>2, <1>3 DEF Begin

\* The outcome is deferred: the task takes over the number of the run.
LEMMA DeferLast ==
  ASSUME HInv, RInv', NEW t \in Threads, Defer(t)
  PROVE  HInv'
<1>1. /\ IInv /\ TypeOK /\ pc[t] = "defer" /\ pc[t] \in Locked /\ LastOK(t) /\ Leave(t)
      /\ UNCHANGED <<account, runs>> /\ task'.run = job[t].run
  BY DEF HInv, RInv, AInv, IInv, Defer, Locked, Running, Steady, counters
<1>2. Pursued(t)
  BY <1>1, UnderWay DEF Pursued, Running
<1>3. LastRunOK'
  BY <1>1, <1>2 DEF HInv, LastRunOK, LastOK
<1> QED
  BY <1>1, <1>3, LeaveMoves, IdleLast, OthersLast

\* The last_* columns after a run r that is later than the one they show.
LEMMA LastMoves ==
  ASSUME TypeOK, NEW t \in Threads, job[t].snap.last = account.last,
         NEW r, NEW d, NEW h, NEW s,
         account' = [account EXCEPT !.last = LastAfter(job[t].snap, r, d, h, s)]
  PROVE  /\ account'.life = account.life
         /\ account'.last = account.last \/ account'.last.run = r
         /\ account.last.status \in Settled /\ account'.last.day = account.last.day
              => account'.last.status # "failed"
<1>1. account \in Accounts
  BY DEF TypeOK
<1>2. account'.life = account.life /\ account'.last = LastAfter(job[t].snap, r, d, h, s)
  BY <1>1 DEF Accounts
<1> QED
  BY <1>2 DEF LastAfter, Settled

\* A run is recorded, and then shown.
LEMMA RecordLast ==
  ASSUME HInv, RInv', NEW t \in Threads, Record(t) \/ Settle(t)
  PROVE  HInv'
<1>1. /\ IInv /\ TypeOK /\ LastOK(t) /\ pc[t] \in Locked /\ UNCHANGED <<task, runs>>
      /\ pc[t] \in Running \ {"attempt", "login", "disable"} /\ SameTask
  BY DEF HInv, RInv, AInv, IInv, Record, Settle, Locked, Running, Steady, counters, SameTask
<1>2. task = NoTask /\ Pursued(t)
  BY <1>1, UnderWay DEF Pursued
<1>3. CASE Record(t)
  <2>1. Moved(t) /\ pc'[t] = "settle" /\ job'[t] = job[t] /\ account' = account
    BY <1>1, <1>3, MoveOn DEF PCs, Record
  <2>2. LastOK(t)'
    BY <1>1, <1>2, <2>1 DEF LastOK, Pursued, Resolving, Locked, Running
  <2> QED
    BY <1>1, <2>1, <2>2, LastStays
<1>4. CASE Settle(t)
  <2>1. /\ Leave(t)
        /\ account' = [account EXCEPT !.last =
              LastAfter(job[t].snap, job[t].run, job[t].day, job[t].hour, job[t].result)]
    BY <1>4 DEF Settle
  <2>2. account'.life = account.life /\ (account'.last = account.last \/ account'.last.run = job[t].run)
    BY <1>1, <2>1, LastMoves DEF LastOK
  <2>3. LastRunOK'
    BY <1>1, <1>2, <2>1, <2>2 DEF HInv, LastRunOK, LastOK
  <2> QED
    BY <1>1, <2>1, <2>3, LeaveMoves, IdleLast, OthersLast
<1> QED
  BY <1>3, <1>4

\* Editing the account.
LEMMA EditLast ==
  ASSUME HInv, RInv', NEW t \in Threads, Update(t) \/ Delete(t)
  PROVE  HInv'
<1>1. /\ IInv /\ TypeOK /\ pc[t] = "edit" /\ pc[t] \in Locked /\ LastOK(t)
      /\ runs' = runs /\ account \in Accounts /\ day \in 1..MaxDay /\ SameTask
  BY DEF HInv, RInv, AInv, IInv, TypeOK, Update, Delete, Locked, Steady, counters, SameTask
<1>2. account'.last = account.last /\ account'.life \in {account.life, "gone"}
  <2>1. CASE Update(t)
    BY <1>1, <2>1, UpdateWrites
  <2>2. CASE Delete(t)
    BY <1>1, <2>2 DEF Delete, Accounts
  <2> QED
    BY <2>1, <2>2
<1>3. CASE Leave(t)
  BY <1>1, <1>2, <1>3, LeaveMoves, IdleLast, LastStays
<1>4. CASE job[t].op = "update" /\ Goto(t, "disable") /\ job' = job
  <2>1. Moved(t) /\ pc'[t] = "disable" /\ job'[t] = job[t]
    BY <1>1, <1>4, MoveOn DEF PCs
  <2>2. LastOK(t)'
    BY <1>1, <1>2, <1>4, <2>1 DEF LastOK, Pursued, Resolving, RunOps, Locked, Running
  <2> QED
    BY <1>1, <1>2, <2>1, <2>2, LastStays
<1> QED
  BY <1>3, <1>4 DEF Update, Delete, AuthFails, Fail, RunOps

\* A resolution takes up the task or drops it, and its verdict is noted.
LEMMA ResolveLast ==
  ASSUME HInv, RInv', NEW t \in Threads, Resolve(t) \/ Review(t)
  PROVE  HInv'
<1>1. /\ IInv /\ TypeOK /\ pc[t] \in {"resolve", "review"} /\ pc[t] \in Locked /\ LastOK(t)
      /\ UNCHANGED <<account, runs>> /\ SameTask /\ job[t] \in Jobs
  BY DEF HInv, RInv, AInv, IInv, TypeOK, Resolve, Review, Locked, Steady, db, counters, SameTask
<1>2. CASE Leave(t)
  BY <1>1, <1>2, LeaveMoves, IdleLast, LastStays
<1>3. CASE task # NoTask /\ Goto(t, "review") /\ Let(t, [job[t] EXCEPT !.task = task])
  <2> DEFINE j == [job[t] EXCEPT !.task = task]
  <2>1. j \in Jobs /\ j.task = task /\ j.snap = job[t].snap
    BY <1>1 DEF Jobs, TypeOK
  <2>2. Let(t, j)
    BY <1>3
  <2> HIDE DEF j
  <2>3. Moved(t) /\ pc'[t] = "review" /\ job'[t] = j
    BY <1>1, <1>3, <2>1, <2>2, Move DEF PCs
  <2>4. LastOK(t)'
    BY <1>1, <1>3, <2>1, <2>3 DEF HInv, LastRunOK, LastOK, Pursued, Resolving, Locked, Running
  <2> QED
    BY <1>1, <2>3, <2>4, LastStays
<1>4. CASE Review(t)
  <2>1. PICK v \in {"success", "failed", "again"} : Let(t, [job[t] EXCEPT !.result = v])
    BY <1>4 DEF Review
  <2> DEFINE j == [job[t] EXCEPT !.result = v]
  <2>2. j \in Jobs /\ j.task = job[t].task /\ j.snap = job[t].snap
    BY <1>1 DEF Jobs, Results, Statuses
  <2> HIDE DEF j
  <2>3. Moved(t) /\ pc'[t] = "conclude" /\ job'[t] = j /\ pc[t] = "review"
    BY <1>1, <1>4, <2>1, <2>2, Move DEF Review, PCs, j
  <2>4. LastOK(t)'
    BY <1>1, <2>2, <2>3 DEF LastOK, Pursued, Resolving, Locked, Running
  <2> QED
    BY <1>1, <2>3, <2>4, LastStays
<1> QED
  BY <1>2, <1>3, <1>4 DEF Resolve

\* The task is asked about again, or its verdict is written in one transaction.
LEMMA ConcludeLast ==
  ASSUME HInv, RInv', NEW t \in Threads, Conclude(t)
  PROVE  HInv'
<1>1. /\ IInv /\ TypeOK /\ pc[t] = "conclude" /\ pc[t] \in Locked /\ LastOK(t)
      /\ runs' = runs /\ Leave(t) /\ Resolving(t)
  BY DEF HInv, RInv, AInv, IInv, Conclude, Locked, Steady, counters, Resolving
<1>2. CASE Bump(t) /\ account' = account
  <2>1. task # NoTask => task \in Tasks
    BY <1>1, Numbers
  <2>2. SameTask
    BY <1>2, <2>1 DEF Bump, Tasks, SameTask
  <2> QED
    BY <1>1, <1>2, <2>2, LeaveMoves, IdleLast, LastStays
<1>3. CASE RecordVerdict(t)
  <2> DEFINE k == job[t].task
  <2>1. /\ task' = NoTask
        /\ account' = [account EXCEPT !.last = LastAfter(job[t].snap, k.run, k.day, k.hour, job[t].result)]
    BY <1>3 DEF RecordVerdict, LastVerdict
  <2>2. account.last.run < k.run /\ k.run <= runs
    <3>1. Claim(t) = k.run /\ Claim(t) # 0
      BY <1>1, Claims DEF Claim
    <3> QED
      BY <1>1, <3>1 DEF LastOK, HInv, RInv, ClaimsOK, Out
  <2> HIDE DEF k
  <2>3. account'.life = account.life /\ (account'.last = account.last \/ account'.last.run = k.run)
    BY <1>1, <2>1, LastMoves DEF LastOK
  <2>4. LastRunOK'
    BY <1>1, <2>1, <2>2, <2>3 DEF HInv, LastRunOK
  <2> QED
    BY <1>1, <2>4, LeaveMoves, IdleLast, OthersLast
<1> QED
  BY <1>2, <1>3 DEF Conclude

\* The jobs of a tick, calls, and the world leave the account as it is.
LEMMA RestLast ==
  ASSUME HInv, RInv', Tick \/ World \/ \E w \in Web : Call(w) \/ Probe(w)
  PROVE  HInv'
<1>1. /\ IInv /\ TypeOK /\ \A w \in Web : ~Probe(w)
      /\ pc \in [Threads -> PCs] /\ job \in [Threads -> Jobs]
  BY DEF HInv, RInv, AInv, IInv, TypeOK, LastRunOK, Probe
<1>2. UNCHANGED <<account, runs>>
  BY <1>1 DEF Tick, TickVerify, TickCheckin, TickRefresh, TickOver, World, NextDay, NextHour,
     SignElsewhere, Show, Crash, TaskDue, PurgeTask, Call, Steady, db, counters
<1>3. SameTask
  <2>1. CASE TaskDue
    <3>1. task \in Tasks
      BY <1>1, <2>1, Numbers DEF TaskDue
    <3> QED
      BY <2>1, <3>1 DEF TaskDue, Tasks, SameTask
  <2>2. CASE ~TaskDue
    <3>1. task' \in {task, NoTask}
      BY <1>1, <2>2 DEF Tick, TickVerify, TickCheckin, TickRefresh, TickOver, World, NextDay,
         NextHour, SignElsewhere, Show, Crash, PurgeTask, Call, db
    <3> QED
      BY <3>1 DEF SameTask
  <2> QED
    BY <2>1, <2>2
<1>4. LastRunOK'
  BY <1>2, <1>3 DEF HInv, LastRunOK, SameTask
<1>5. ASSUME NEW t \in Threads PROVE LastOK(t)'
  <2>1. \/ pc'[t] = pc[t] /\ job'[t] = job[t]
        \/ pc'[t] \in {"idle", "lock", "check"}
    <3>1. CASE World
      BY <1>1, <3>1 DEF World, NextDay, NextHour, SignElsewhere, Show, Crash, TaskDue, PurgeTask, Steady
    <3>2. CASE Tick
      BY <1>1, <3>2 DEF Tick, TickVerify, TickCheckin, TickRefresh, TickOver, Goto, Let
    <3>3. ASSUME NEW w \in Web, Call(w)
          PROVE  (pc'[t] = pc[t] /\ job'[t] = job[t]) \/ pc'[t] \in {"idle", "lock", "check"}
      BY <1>1, <3>3 DEF Call, Goto, Let
    <3> QED
      BY <1>1, <3>1, <3>2, <3>3
  <2>2. CASE pc'[t] = pc[t] /\ job'[t] = job[t]
    BY <1>2, <2>2 DEF HInv, LastOK, Pursued, Resolving
  <2>3. CASE pc'[t] \in {"idle", "lock", "check"}
    BY <2>3 DEF LastOK, Pursued, Resolving, Locked, Running
  <2> QED
    BY <2>1, <2>2, <2>3
<1> QED
  BY <1>4, <1>5 DEF HInv
-----------------------------------------------------------------------------
\* HInv holds of the hosted account.
THEOREM HistoryInvariance == Spec => []HInv
<1>1. Init => HInv
  <2> SUFFICES ASSUME Init PROVE HInv
    OBVIOUS
  <2>1. /\ RInv /\ task = NoTask /\ runs = 0 /\ \A t \in Threads : pc[t] = "idle"
    BY RunsStart DEF Init, InitRest
  <2>2. account.life = "live" /\ account.last.run = 0
    BY DEF Init, NewAccount, NoLast
  <2> QED
    BY <2>1, <2>2 DEF HInv, LastRunOK, LastOK, Pursued, Resolving, Locked, Running
<1>2. HInv /\ [Next]_vars => HInv'
  <2> SUFFICES ASSUME HInv, [Next]_vars PROVE HInv'
    OBVIOUS
  <2>1. RInv'
    BY RunsKeep DEF HInv
  <2>2. ASSUME NEW t \in Threads, ThreadStep(t) PROVE HInv'
    <3>1. ~Insert(t) /\ ~Mark(t)
      BY DEF HInv, LastOK, Insert, Mark
    <3> QED
      BY <2>1, <2>2, <3>1, LockLast, BeginLast, AttemptLast, DeferLast, RecordLast, EditLast,
         ResolveLast, ConcludeLast
      DEF ThreadStep, RunStep
  <2>3. CASE Tick \/ World \/ \E w \in Web : Call(w) \/ Probe(w)
    BY <2>1, <2>3, RestLast
  <2>4. CASE UNCHANGED vars
    BY <2>1, <2>4 DEF vars, HInv, LastRunOK, LastOK, Pursued, Resolving
  <2> QED
    BY <2>2, <2>3, <2>4 DEF Next
<1> QED
  BY <1>1, <1>2, PTL DEF Spec

\* What a step does to the last_* columns.
LEMMA LastSteps ==
  ASSUME HInv, Next
  PROVE  /\ account'.last.run >= account.last.run
         /\ account.last.status \in Settled /\ account'.last.day = account.last.day
              => account'.last.status # "failed"
<1>1. IInv /\ TypeOK /\ account \in Accounts /\ account.last.run \in Nat
  BY Numbers DEF HInv, RInv, AInv, IInv
<1>2. CASE account'.last = account.last
  BY <1>1, <1>2 DEF Settled
<1>3. ASSUME NEW t \in Threads, Settle(t) \/ (Conclude(t) /\ RecordVerdict(t))
      PROVE  /\ account'.last.run >= account.last.run
             /\ account.last.status \in Settled /\ account'.last.day = account.last.day
                  => account'.last.status # "failed"
  <2> DEFINE r == IF pc[t] = "settle" THEN job[t].run ELSE job[t].task.run
             d == IF pc[t] = "settle" THEN job[t].day ELSE job[t].task.day
             h == IF pc[t] = "settle" THEN job[t].hour ELSE job[t].task.hour
  <2>1. /\ pc[t] \in {"settle", "conclude"}
        /\ account' = [account EXCEPT !.last = LastAfter(job[t].snap, r, d, h, job[t].result)]
    BY <1>3 DEF Settle, Conclude, RecordVerdict, LastVerdict
  <2>2. LastOK(t) /\ LocalOK(t) /\ pc[t] \in Locked
    BY <1>1, <2>1 DEF HInv, IInv, Locked, Running
  <2>3. job[t].snap.last = account.last
    BY <2>2 DEF LastOK
  <2>4. r > account.last.run
    BY <2>1, <2>2 DEF LastOK, LocalOK, OpOK, Pursued, Resolving, Running
  <2>5. r \in Nat
    <3>1. job[t].run \in Nat
      BY <1>1, Numbers
    <3>2. CASE pc[t] = "conclude"
      BY <2>2, <3>2 DEF LocalOK, VerifyOK, Tasks
    <3> QED
      BY <2>1, <3>1, <3>2
  <2> HIDE DEF r, d, h
  <2>6. /\ account'.last = account.last \/ account'.last.run = r
        /\ account.last.status \in Settled /\ account'.last.day = account.last.day
              => account'.last.status # "failed"
    BY <1>1, <2>1, <2>3, LastMoves
  <2> QED
    BY <1>1, <2>4, <2>5, <2>6
<1>4. ASSUME NEW t \in Threads, ThreadStep(t),
             ~Settle(t), ~(Conclude(t) /\ RecordVerdict(t))
      PROVE  account'.last = account.last
  <2>1. CASE Attempt(t) \/ Query(t) \/ Submit(t) \/ Confirm(t) \/ Check(t) \/ Begin(t)
             \/ Lock(t) \/ Record(t) \/ Defer(t) \/ Resolve(t) \/ Review(t)
    BY <2>1 DEF Attempt, Query, Submit, Confirm, Check, Begin, Lock, Record, Defer, Resolve,
       Review, db
  <2>2. CASE Login(t) \/ Persist(t) \/ SaveWindow(t)
    <3>1. day \in 1..MaxDay
      BY <1>1 DEF TypeOK
    <3>2. CASE SaveWindow(t)
      BY <1>1, <3>2, WindowWrites DEF SaveWindow
    <3> QED
      BY <1>1, <2>2, <3>1, <3>2, AuthWrites DEF Login, AuthFails, Persist
  <2>3. CASE Disable(t)
    BY <1>1, <2>3 DEF Disable, Accounts
  <2>4. CASE Update(t) \/ Delete(t)
    <3>1. CASE Update(t)
      BY <1>1, <3>1, UpdateWrites DEF TypeOK
    <3>2. CASE Delete(t)
      BY <1>1, <3>2 DEF Delete, Accounts
    <3> QED
      BY <2>4, <3>1, <3>2
  <2>5. CASE Conclude(t)
    BY <1>4, <2>5 DEF Conclude
  <2>6. CASE Insert(t) \/ Mark(t)
    BY <2>6 DEF HInv, LastOK, Insert, Mark
  <2> QED
    BY <1>4, <2>1, <2>2, <2>3, <2>4, <2>5, <2>6 DEF ThreadStep, RunStep
<1>5. CASE Tick \/ World \/ \E w \in Web : Call(w) \/ Probe(w)
  <2>1. account' = account
    BY <1>5 DEF Tick, TickVerify, TickCheckin, TickRefresh, TickOver, World, NextDay, NextHour,
       SignElsewhere, Show, Crash, TaskDue, PurgeTask, Call, Probe, db
  <2> QED
    BY <1>2, <2>1
<1> QED
  BY <1>2, <1>3, <1>4, <1>5 DEF Next

\* The last_* columns never go back to an earlier run, although the verdict
\* on a submission is written long after the run that made it.
THEOREM LastMonotone == Spec => LastRunMonotone
<1>1. HInv /\ [Next]_vars => [account'.last.run >= account.last.run]_vars
  BY LastSteps
<1> QED
  BY <1>1, HistoryInvariance, PTL DEF Spec, LastRunMonotone

\* For an account that exists, a result that settles the day is never
\* replaced by a failure of that day.
THEOREM SettledKept == Spec => SettledNotOverwritten
<1>1. HInv /\ [Next]_vars
        => [account.last.status \in Settled /\ account'.last.day = account.last.day
              => account'.last.status # "failed"]_vars
  BY LastSteps
<1> QED
  BY <1>1, HistoryInvariance, PTL DEF Spec, SettledNotOverwritten
-----------------------------------------------------------------------------
(* What is recorded as done is true: every success that a thread is about  *)
(* to record goes back to a query that showed the check-in on the day of   *)
(* the run or later, although midnight may come before the record.         *)

\* A check-in has reached the school on day a or since.
Landed(a) == \E d \in a..day : d \in landed

\* What the answer, the result and the verdict that a thread holds say.
TrueOK(t) ==
  /\ pc[t] \in {"window", "persist"} /\ job[t].answer = "signed" => Landed(job[t].day)
  /\ pc[t] = "record" /\ job[t].result \in {"success", "skipped"} => Landed(job[t].day)
  /\ pc[t] \in {"review", "conclude"} => job[t].task.day \in Nat /\ job[t].task.day <= day
  /\ pc[t] = "conclude" /\ job[t].result = "success" => Landed(job[t].task.day)

ShownOK == visible => day \in landed
TruthInv == ShownOK /\ SuccessIsTrue /\ \A t \in Threads : TrueOK(t)

\* Where a thread claims nothing about the check-in.
Claiming == {"window", "persist", "record", "review", "conclude"}

Others(t) == \A u \in Threads \ {t} : pc'[u] = pc[u] /\ job'[u] = job[u]

\* A check-in that reached the school has reached it for good.
LEMMA LandedStays ==
  ASSUME day \in Nat, day' \in Nat, day' >= day, landed \subseteq landed', NEW a \in Nat, Landed(a)
  PROVE  Landed(a)'
BY DEF Landed

\* What shows has reached the school on any day before.
LEMMA ShownLanded ==
  ASSUME ShownOK, visible, day \in Nat, NEW a \in Nat, a <= day
  PROVE  Landed(a)
BY DEF ShownOK, Landed

\* What a thread that does not move claims stays true.
LEMMA TrueStays ==
  ASSUME HInv, day' \in Nat, day' >= day, landed \subseteq landed',
         NEW t \in Threads, TrueOK(t), pc'[t] = pc[t], job'[t] = job[t]
  PROVE  TrueOK(t)'
<1>1. day \in Nat /\ job[t].day \in Nat
  BY Numbers DEF HInv, RInv, AInv
<1>2. \A a \in Nat : Landed(a) => Landed(a)'
  BY <1>1, LandedStays
<1>3. TrueOK(t)' <=>
        /\ pc[t] \in {"window", "persist"} /\ job[t].answer = "signed" => Landed(job[t].day)'
        /\ pc[t] = "record" /\ job[t].result \in {"success", "skipped"} => Landed(job[t].day)'
        /\ pc[t] \in {"review", "conclude"} => job[t].task.day \in Nat /\ job[t].task.day <= day'
        /\ pc[t] = "conclude" /\ job[t].result = "success" => Landed(job[t].task.day)'
  BY DEF TrueOK, Landed
<1> QED
  BY <1>1, <1>2, <1>3 DEF TrueOK

\* A thread that claims nothing claims nothing false.
LEMMA NoTruthClaim ==
  ASSUME NEW t \in Threads, pc'[t] \notin Claiming
  PROVE  TrueOK(t)'
BY DEF TrueOK, Claiming

\* Records that were true stay so.
LEMMA RowsStayTrue ==
  ASSUME HInv, SuccessIsTrue, landed \subseteq landed', records' = records
  PROVE  SuccessIsTrue'
BY DEF SuccessIsTrue

\* So do they with a row more that is true.
LEMMA RowsTrue ==
  ASSUME HInv, SuccessIsTrue, landed' = landed, day' = day, NEW row,
         records' = Append(records, row), row.at = day,
         row.status \in {"success", "skipped"} => Landed(row.day)
  PROVE  SuccessIsTrue'
<1>1. \A i \in DOMAIN records' :
        \/ i \in DOMAIN records /\ records'[i] = records[i]
        \/ i = Len(records) + 1 /\ records'[i] = row
  BY OneMoreRow DEF HInv, RInv, AInv, IInv
<1> QED
  BY <1>1 DEF SuccessIsTrue, Landed

\* A step of one thread, by what it does to that thread and to the school.
LEMMA ThreadTruth ==
  ASSUME HInv, TruthInv, NEW t \in Threads, Others(t), TrueOK(t)',
         visible' = visible, day' = day, landed \subseteq landed', SuccessIsTrue'
  PROVE  TruthInv'
<1>1. day \in Nat
  BY Numbers DEF HInv, RInv, AInv
<1>2. \A u \in Threads \ {t} : TrueOK(u)'
  BY <1>1, TrueStays DEF TruthInv, Others
<1>3. ShownOK'
  BY DEF TruthInv, ShownOK
<1> QED
  BY <1>2, <1>3 DEF TruthInv

\* A run that has its result: only a success or a skip claims anything.
LEMMA FinishTrue ==
  ASSUME HInv, NEW t \in Threads, NEW s, Finish(t, s), day' = day, landed' = landed \/ s = "failed",
         s \in {"success", "skipped"} => Landed(job[t].day)
  PROVE  Others(t) /\ TrueOK(t)'
<1> DEFINE j == [Spent(job[t]) EXCEPT !.result = s]
<1>1. job[t] \in Jobs /\ Spent(job[t]) \in Jobs /\ Spent(job[t]).day = job[t].day
  BY Numbers, SpentJob DEF HInv, RInv, AInv
<1>2. j.day = job[t].day /\ j.result = s
  BY <1>1 DEF Jobs
<1>3. pc' = [pc EXCEPT ![t] = "record"] /\ job' = [job EXCEPT ![t] = j]
      /\ pc \in [Threads -> PCs] /\ job \in [Threads -> Jobs]
  BY DEF Finish, Goto, Let, HInv, RInv, AInv, IInv, TypeOK
<1> HIDE DEF j
<1>4. pc'[t] = "record" /\ job'[t] = j /\ Others(t)
  BY <1>3 DEF Others
<1> QED
  BY <1>2, <1>4 DEF TrueOK, Landed

\* Another attempt, or a failed run.
LEMMA RetryTrue ==
  ASSUME HInv, NEW t \in Threads, Retry(t)
  PROVE  Others(t) /\ TrueOK(t)'
<1>1. pc \in [Threads -> PCs] /\ job \in [Threads -> Jobs]
  BY DEF HInv, RInv, AInv, IInv, TypeOK
<1>2. Others(t)
  BY <1>1 DEF Retry, Goto, Let, Others
<1>3. CASE Goto(t, "attempt")
  BY <1>1, <1>2, <1>3, NoTruthClaim DEF Goto, Claiming
<1>4. CASE /\ Goto(t, "record")
           /\ Let(t, [Spent(job[t]) EXCEPT !.day = day, !.hour = hour, !.result = "failed"])
  <2> DEFINE j == [Spent(job[t]) EXCEPT !.day = day, !.hour = hour, !.result = "failed"]
  <2>1. j.result = "failed"
    <3>1. Spent(job[t]) \in Jobs
      BY <1>1, SpentJob
    <3> QED
      BY <3>1 DEF Jobs
  <2>2. pc'[t] = "record" /\ job'[t] = j
    BY <1>1, <1>4 DEF Goto, Let
  <2> HIDE DEF j
  <2> QED
    BY <1>2, <2>1, <2>2 DEF TrueOK
<1> QED
  BY <1>2, <1>3, <1>4 DEF Retry

\* A call that goes to a place where it claims nothing.
LEMMA GoTrue ==
  ASSUME HInv, NEW t \in Threads, NEW l, l \notin Claiming, Goto(t, l),
         job' = job \/ \E j : Let(t, j)
  PROVE  Others(t) /\ TrueOK(t)'
<1>1. pc \in [Threads -> PCs] /\ job \in [Threads -> Jobs]
  BY DEF HInv, RInv, AInv, IInv, TypeOK
<1>2. Others(t) /\ pc'[t] = l
  BY <1>1 DEF Goto, Let, Others
<1> QED
  BY <1>2, NoTruthClaim

\* A call that ends.
LEMMA EndTrue ==
  ASSUME HInv, NEW t \in Threads, Leave(t) \/ Return(t)
  PROVE  Others(t) /\ TrueOK(t)'
BY GoTrue DEF Leave, Return, Claiming

\* An error, which is recorded as a failure or only reported.
LEMMA FailTrue ==
  ASSUME HInv, NEW t \in Threads, Fail(t), day' = day, landed' = landed
  PROVE  Others(t) /\ TrueOK(t)'
BY EndTrue, FinishTrue DEF Fail

\* The same for a step that writes no record.
LEMMA QuietTruth ==
  ASSUME HInv, TruthInv, NEW t \in Threads, Others(t), TrueOK(t)',
         visible' = visible, day' = day, landed \subseteq landed', records' = records
  PROVE  TruthInv'
BY ThreadTruth, RowsStayTrue DEF TruthInv

\* An attempt: the query finds the check-in on the school's side, and the
\* thread carries that through the window and the login it keeps.
LEMMA AttemptTruth ==
  ASSUME HInv, TruthInv, NEW t \in Threads,
         \/ Attempt(t) \/ Login(t) \/ Disable(t) \/ Query(t) \/ SaveWindow(t)
         \/ Persist(t) \/ Submit(t) \/ Confirm(t)
  PROVE  TruthInv'
<1>1. /\ day' = day /\ visible' = visible /\ records' = records
      /\ landed \subseteq landed' /\ (landed' = landed \/ Submit(t))
  BY DEF Attempt, Login, Disable, Query, SaveWindow, Persist, Submit, Confirm, Steady, clock, school, db
<1>2. /\ pc \in [Threads -> PCs] /\ job \in [Threads -> Jobs] /\ job[t] \in Jobs
      /\ day \in Nat /\ job[t].day \in Nat /\ TrueOK(t) /\ ShownOK
      /\ pc[t] # "idle" => job[t].day <= day
  BY Numbers DEF HInv, RInv, AInv, IInv, TypeOK, NotedOK, TruthInv
<1>3. ASSUME NEW l, l \notin Claiming, Goto(t, l), job' = job \/ \E j : Let(t, j)
      PROVE  Others(t) /\ TrueOK(t)'
  BY <1>3, GoTrue
<1>4. CASE Attempt(t)
  <2> DEFINE j == [job[t] EXCEPT !.day = day, !.hour = hour]
             f == [Spent(j) EXCEPT !.result = "failed"]
  <2>1. ASSUME Goto(t, IF j.snap.token = day THEN "query" ELSE "login") /\ Let(t, j)
        PROVE  Others(t) /\ TrueOK(t)'
    BY <1>3, <2>1 DEF Claiming
  <2>2. ASSUME Goto(t, "record") /\ Let(t, f)
        PROVE  Others(t) /\ TrueOK(t)'
    <3>1. f.result = "failed"
      <4>1. j \in Jobs
        <5>1. day \in 0..MaxDay /\ hour \in 0..MaxHour
          BY LimitAssumption DEF HInv, RInv, AInv, IInv, TypeOK
        <5> QED
          BY <1>2, <5>1 DEF Jobs
      <4> HIDE DEF j
      <4>2. Spent(j) \in Jobs
        BY <4>1, SpentJob
      <4> QED
        BY <4>2 DEF Jobs
    <3> HIDE DEF f
    <3>2. pc'[t] = "record" /\ job'[t] = f /\ Others(t)
      BY <1>2, <2>2 DEF Goto, Let, Others
    <3> QED
      BY <3>1, <3>2 DEF TrueOK
  <2> QED
    BY <1>1, <1>4, <2>1, <2>2, QuietTruth DEF Attempt
<1>5. CASE Login(t) \/ Disable(t)
  <2>1. landed' = landed
    BY <1>1, <1>5 DEF Login, Disable, Submit
  <2>2. ASSUME Fail(t)
        PROVE  Others(t) /\ TrueOK(t)'
    BY <1>1, <2>1, <2>2, FailTrue
  <2>3. ASSUME Leave(t)
        PROVE  Others(t) /\ TrueOK(t)'
    BY <2>3, EndTrue
  <2>4. ASSUME Finish(t, "failed")
        PROVE  Others(t) /\ TrueOK(t)'
    BY <1>1, <2>1, <2>4, FinishTrue
  <2>5. ASSUME Retry(t)
        PROVE  Others(t) /\ TrueOK(t)'
    BY <2>5, RetryTrue
  <2>6. ASSUME \E l \in {"query", "disable"} : Goto(t, l) /\ job' = job
        PROVE  Others(t) /\ TrueOK(t)'
    BY <1>3, <2>6 DEF Claiming
  <2>7. Others(t) /\ TrueOK(t)'
    BY <1>5, <2>2, <2>3, <2>4, <2>5, <2>6 DEF Login, Disable, AuthFails
  <2> QED
    BY <1>1, <2>7, QuietTruth
<1>6. CASE Query(t)
  <2>1. landed' = landed /\ pc[t] = "query"
    BY <1>1, <1>6 DEF Query, Submit
  <2>2. ASSUME \E s \in {"no_task", "failed"} : Finish(t, s)
        PROVE  Others(t) /\ TrueOK(t)'
    BY <1>1, <2>1, <2>2, FinishTrue
  <2>3. ASSUME NEW a \in Answers, (a = "signed") = visible, Goto(t, "window"),
               Let(t, [job[t] EXCEPT !.answer = a])
        PROVE  Others(t) /\ TrueOK(t)'
    <3> DEFINE j == [job[t] EXCEPT !.answer = a]
    <3>1. j.answer = a /\ j.day = job[t].day
      BY <1>2 DEF Jobs
    <3>2. pc'[t] = "window" /\ job'[t] = j /\ Others(t)
      BY <1>2, <2>3 DEF Goto, Let, Others
    <3> HIDE DEF j
    <3>3. a = "signed" => Landed(job[t].day)
      BY <1>2, <2>1, <2>3, ShownLanded
    <3> QED
      BY <1>1, <2>1, <3>1, <3>2, <3>3 DEF TrueOK, Landed
  <2>4. ASSUME Retry(t)
        PROVE  Others(t) /\ TrueOK(t)'
    BY <2>4, RetryTrue
  <2>5. ASSUME Goto(t, "login") /\ Let(t, [job[t] EXCEPT !.relogged = TRUE])
        PROVE  Others(t) /\ TrueOK(t)'
    BY <1>3, <2>5 DEF Claiming
  <2>6. Others(t) /\ TrueOK(t)'
    BY <1>6, <2>2, <2>3, <2>4, <2>5 DEF Query
  <2> QED
    BY <1>1, <2>6, QuietTruth
<1>7. CASE SaveWindow(t)
  <2>1. landed' = landed /\ pc[t] = "window" /\ Goto(t, "persist") /\ job' = job
    BY <1>1, <1>7 DEF SaveWindow, Submit
  <2>2. pc'[t] = "persist" /\ job'[t] = job[t] /\ Others(t)
    BY <1>2, <2>1 DEF Goto, Others
  <2>3. TrueOK(t)'
    BY <1>1, <1>2, <2>1, <2>2 DEF TrueOK, Landed
  <2> QED
    BY <1>1, <2>2, <2>3, QuietTruth
<1>8. CASE Persist(t)
  <2>1. landed' = landed /\ pc[t] = "persist"
    BY <1>1, <1>8 DEF Persist, Submit
  <2>2. ASSUME job[t].answer = "signed" /\ Finish(t, "skipped")
        PROVE  Others(t) /\ TrueOK(t)'
    BY <1>1, <1>2, <2>1, <2>2, FinishTrue DEF TrueOK
  <2>3. ASSUME \E s \in {"no_task", "waiting", "failed"} : Finish(t, s)
        PROVE  Others(t) /\ TrueOK(t)'
    BY <1>1, <2>1, <2>3, FinishTrue
  <2>4. ASSUME Retry(t)
        PROVE  Others(t) /\ TrueOK(t)'
    BY <2>4, RetryTrue
  <2>5. ASSUME Goto(t, "submit") /\ Let(t, Spent(job[t]))
        PROVE  Others(t) /\ TrueOK(t)'
    BY <1>3, <2>5 DEF Claiming
  <2>6. Others(t) /\ TrueOK(t)'
    BY <1>8, <2>2, <2>3, <2>4, <2>5 DEF Persist
  <2> QED
    BY <1>1, <2>6, QuietTruth
<1>9. CASE Submit(t) \/ Confirm(t)
  <2>1. ASSUME Submit(t) /\ Finish(t, "failed")
        PROVE  Others(t) /\ TrueOK(t)'
    BY <1>1, <2>1, FinishTrue
  <2>2. ASSUME Confirm(t) /\ visible /\ Finish(t, "success")
        PROVE  Others(t) /\ TrueOK(t)'
    <3>1. landed' = landed /\ pc[t] = "confirm"
      BY <1>1, <2>2 DEF Confirm, Submit
    <3>2. Landed(job[t].day)
      BY <1>2, <2>2, <3>1, ShownLanded
    <3> QED
      BY <1>1, <2>2, <3>1, <3>2, FinishTrue
  <2>3. ASSUME \E l \in {"confirm", "defer"} : Goto(t, l) /\ job' = job
        PROVE  Others(t) /\ TrueOK(t)'
    BY <1>3, <2>3 DEF Claiming
  <2>4. Others(t) /\ TrueOK(t)'
    BY <1>9, <2>1, <2>2, <2>3 DEF Submit, Confirm
  <2> QED
    BY <1>1, <2>4, QuietTruth
<1> QED
  BY <1>4, <1>5, <1>6, <1>7, <1>8, <1>9

\* A run enters, and leaves with its outcome deferred or shown.
LEMMA RunTruth ==
  ASSUME HInv, TruthInv, NEW t \in Threads,
         Lock(t) \/ Check(t) \/ Begin(t) \/ Defer(t) \/ Record(t) \/ Settle(t) \/ Update(t)
  PROVE  TruthInv'
<1>1. /\ day' = day /\ visible' = visible /\ landed' = landed /\ (records' = records \/ Record(t))
  BY DEF Lock, Check, Begin, Defer, Record, Settle, Update, Steady, clock, school, db
<1>2. CASE Record(t)
  <2> DEFINE row == Row(job[t].run, job[t].day, job[t].hour, job[t].op, job[t].result)
  <2>1. /\ pc[t] = "record" /\ records' = Append(records, row) /\ row.at = day
        /\ row.status = job[t].result /\ row.day = job[t].day /\ Goto(t, "settle") /\ job' = job
    BY <1>2 DEF Record, Row
  <2> HIDE DEF row
  <2>2. SuccessIsTrue'
    BY <1>1, <2>1, RowsTrue DEF TruthInv, TrueOK
  <2>3. Others(t) /\ TrueOK(t)'
    BY <2>1, GoTrue DEF Claiming
  <2> QED
    BY <1>1, <2>2, <2>3, ThreadTruth
<1>3. CASE ~Record(t)
  <2>1. ASSUME Leave(t) \/ Return(t)
        PROVE  Others(t) /\ TrueOK(t)'
    BY <2>1, EndTrue
  <2>2. ASSUME Fail(t)
        PROVE  Others(t) /\ TrueOK(t)'
    BY <1>1, <2>2, FailTrue
  <2>3. ASSUME NEW l \in {"lock", "disable", "attempt"} \cup {Body(op) : op \in Ops \cup {"none"}},
               Goto(t, l), job' = job \/ \E j : Let(t, j)
        PROVE  Others(t) /\ TrueOK(t)'
    <3>1. l \notin Claiming
      BY DEF Body, Claiming
    <3> QED
      BY <2>3, <3>1, GoTrue
  <2>4. ASSUME Enter(t)
        PROVE  Others(t) /\ TrueOK(t)'
    BY <2>3, <2>4 DEF Enter
  <2>5. ASSUME Lock(t)
        PROVE  Others(t) /\ TrueOK(t)'
    <3>1. job[t].op \in Ops \cup {"none"}
      BY Numbers, JobFields DEF HInv, RInv, AInv
    <3>2. CASE Goto(t, Body(job[t].op)) /\ Let(t, [job[t] EXCEPT !.snap = account])
      BY <2>3, <3>1, <3>2
    <3> QED
      BY <2>1, <2>5, <3>2 DEF Lock
  <2>6. ASSUME Check(t)
        PROVE  Others(t) /\ TrueOK(t)'
    BY <2>1, <2>3, <2>6 DEF Check
  <2>7. ASSUME Update(t)
        PROVE  Others(t) /\ TrueOK(t)'
    BY <2>1, <2>2, <2>3, <2>7 DEF Update, AuthFails
  <2>8. Others(t) /\ TrueOK(t)'
    BY <1>3, <2>1, <2>4, <2>5, <2>6, <2>7 DEF Begin, Defer, Settle
  <2> QED
    BY <1>1, <1>3, <2>8, QuietTruth
<1> QED
  BY <1>2, <1>3

\* A resolution: its verdict is a success only if the query shows the check-in,
\* and its task is of today or, after midnight, of the day before.
LEMMA ResolveTruth ==
  ASSUME HInv, TruthInv, NEW t \in Threads,
         Delete(t) \/ Resolve(t) \/ Review(t) \/ Conclude(t)
  PROVE  TruthInv'
<1>1. day' = day /\ visible' = visible /\ landed' = landed
  BY DEF Delete, Resolve, Review, Conclude, Steady, clock, school
<1>2. /\ pc \in [Threads -> PCs] /\ job \in [Threads -> Jobs] /\ job[t] \in Jobs
      /\ day \in Nat /\ TrueOK(t) /\ ShownOK
  BY Numbers DEF HInv, RInv, AInv, IInv, TypeOK, TruthInv
<1>3. CASE Leave(t) /\ records' = records
  BY <1>1, <1>3, EndTrue, QuietTruth
<1>4. CASE Delete(t)
  <2>1. Leave(t) /\ records' = <<>>
    BY <1>4 DEF Delete
  <2>2. SuccessIsTrue'
    BY <2>1 DEF SuccessIsTrue
  <2> QED
    BY <1>1, <2>1, <2>2, EndTrue, ThreadTruth
<1>5. CASE task # NoTask /\ task.day = day /\ Goto(t, "review")
           /\ Let(t, [job[t] EXCEPT !.task = task]) /\ records' = records
  <2> DEFINE j == [job[t] EXCEPT !.task = task]
  <2>1. j.task = task
    BY <1>2 DEF Jobs
  <2>2. pc'[t] = "review" /\ job'[t] = j /\ Others(t)
    BY <1>2, <1>5 DEF Goto, Let, Others
  <2> HIDE DEF j
  <2>3. TrueOK(t)'
    BY <1>1, <1>2, <1>5, <2>1, <2>2 DEF TrueOK
  <2> QED
    BY <1>1, <1>5, <2>2, <2>3, QuietTruth
<1>6. CASE Review(t)
  <2> PICK v \in {"success", "failed", "again"} :
             (v = "success" => visible) /\ Let(t, [job[t] EXCEPT !.result = v])
    BY <1>6 DEF Review
  <2> DEFINE j == [job[t] EXCEPT !.result = v]
  <2>1. j.task = job[t].task /\ j.result = v
    BY <1>2 DEF Jobs
  <2>2. pc[t] = "review" /\ pc'[t] = "conclude" /\ job'[t] = j /\ Others(t) /\ records' = records
    BY <1>2, <1>6 DEF Review, Goto, Let, Others, db
  <2> HIDE DEF j
  <2>3. job[t].task.day \in Nat /\ job[t].task.day <= day
    BY <1>2, <2>2 DEF TrueOK
  <2>4. v = "success" => Landed(job[t].task.day)
    BY <1>2, <2>3, ShownLanded
  <2>5. TrueOK(t)'
    BY <1>1, <2>1, <2>2, <2>3, <2>4 DEF TrueOK, Landed
  <2> QED
    BY <1>1, <2>2, <2>5, QuietTruth
<1>7. CASE Conclude(t) /\ RecordVerdict(t)
  <2>1. /\ pc[t] = "conclude" /\ Leave(t) /\ records' = Append(records, Verdict(t))
        /\ Verdict(t).at = day /\ Verdict(t).status = job[t].result
        /\ Verdict(t).day = job[t].task.day
    BY <1>7 DEF Conclude, RecordVerdict, Verdict, Row
  <2>2. job[t].result # "skipped"
    BY <2>1 DEF HInv, RInv, AInv, IInv, LocalOK, VerifyOK
  <2>3. SuccessIsTrue'
    BY <1>1, <1>2, <2>1, <2>2, RowsTrue DEF TruthInv, TrueOK
  <2> QED
    BY <1>1, <2>1, <2>3, EndTrue, ThreadTruth
<1> QED
  BY <1>3, <1>4, <1>5, <1>6, <1>7 DEF Resolve, Conclude

\* Jobs that begin, and the world.
LEMMA RestTruth ==
  ASSUME HInv, TruthInv, Tick \/ World \/ \E w \in Web : Call(w) \/ Probe(w)
  PROVE  TruthInv'
<1>1. /\ pc \in [Threads -> PCs] /\ job \in [Threads -> Jobs] /\ day \in Nat
  BY Numbers DEF HInv, RInv, AInv, IInv, TypeOK
<1>2. /\ records' = records /\ landed \subseteq landed' /\ day' \in Nat /\ day' >= day
  BY <1>1 DEF Tick, TickVerify, TickCheckin, TickRefresh, TickOver, World, NextDay, NextHour,
     SignElsewhere, Show, Crash, TaskDue, PurgeTask, Call, Probe, Steady, db, clock, school
<1>3. ShownOK'
  <2>1. CASE NextDay
    BY <2>1 DEF NextDay, ShownOK
  <2>2. CASE Show
    BY <2>2 DEF Show, ShownOK, clock
  <2>3. CASE ~NextDay /\ ~Show
    <3>1. visible' = visible /\ day' = day
      BY <2>3 DEF Tick, TickVerify, TickCheckin, TickRefresh, TickOver, World, NextHour,
         SignElsewhere, Crash, TaskDue, PurgeTask, Call, Probe, Steady, clock, school
    <3> QED
      BY <1>2, <3>1 DEF TruthInv, ShownOK
  <2> QED
    BY <2>1, <2>2, <2>3
<1>4. ASSUME NEW t \in Threads PROVE TrueOK(t)'
  <2>1. \/ pc'[t] = pc[t] /\ job'[t] = job[t]
        \/ pc'[t] \in {"idle", "lock", "check"}
    <3>1. CASE World
      BY <1>1, <3>1 DEF World, NextDay, NextHour, SignElsewhere, Show, Crash, TaskDue, PurgeTask, Steady
    <3>2. CASE Tick
      BY <1>1, <3>2 DEF Tick, TickVerify, TickCheckin, TickRefresh, TickOver, Goto, Let
    <3>3. ASSUME NEW w \in Web, Call(w)
          PROVE  (pc'[t] = pc[t] /\ job'[t] = job[t]) \/ pc'[t] \in {"idle", "lock", "check"}
      BY <1>1, <3>3 DEF Call, Goto, Let
    <3>4. \A w \in Web : ~Probe(w)
      BY DEF Probe, HInv, LastRunOK
    <3> QED
      BY <3>1, <3>2, <3>3, <3>4
  <2>2. CASE pc'[t] = pc[t] /\ job'[t] = job[t]
    BY <1>2, <2>2, TrueStays DEF TruthInv
  <2>3. CASE pc'[t] \in {"idle", "lock", "check"}
    BY <2>3, NoTruthClaim DEF Claiming
  <2> QED
    BY <2>1, <2>2, <2>3
<1> QED
  BY <1>2, <1>3, <1>4, RowsStayTrue DEF TruthInv

\* A run is recorded as a success or skipped only if a check-in of the student
\* reached the school since the day of the run, whatever answers are lost, and
\* whether the school, midnight or a restart comes between query and record.
THEOREM Truth == Spec => []SuccessIsTrue
<1>1. Init => TruthInv
  BY DEF Init, InitRest, TruthInv, ShownOK, SuccessIsTrue, TrueOK
<1>2. HInv /\ TruthInv /\ [Next]_vars => TruthInv'
  <2> SUFFICES ASSUME HInv, TruthInv, [Next]_vars PROVE TruthInv'
    OBVIOUS
  <2>1. ASSUME NEW t \in Threads, ThreadStep(t) PROVE TruthInv'
    <3>1. ~Insert(t) /\ ~Mark(t)
      BY DEF HInv, LastOK, Insert, Mark
    <3> QED
      BY <2>1, <3>1, AttemptTruth, RunTruth, ResolveTruth DEF ThreadStep, RunStep
  <2>2. CASE Tick \/ World \/ \E w \in Web : Call(w) \/ Probe(w)
    BY <2>2, RestTruth
  <2>3. CASE UNCHANGED vars
    <3>1. day \in Nat
      BY Numbers DEF HInv, RInv, AInv
    <3>2. \A t \in Threads : TrueOK(t)'
      BY <2>3, <3>1, TrueStays DEF vars, TruthInv
    <3> QED
      BY <2>3, <3>2, RowsStayTrue DEF vars, TruthInv, ShownOK
  <2> QED
    BY <2>1, <2>2, <2>3 DEF Next
<1>3. TruthInv => SuccessIsTrue
  BY DEF TruthInv
<1> QED
  BY <1>1, <1>2, <1>3, HistoryInvariance, PTL DEF Spec
-----------------------------------------------------------------------------
(* How many scheduled runs a window holds.  CountInv says that the run     *)
(* which the scheduler has picked, and the one whose verification is       *)
(* pending, still have room: nobody else adds a row that counts, and what  *)
(* midnight, an hour or a new window does to the count is seen by all.     *)

\* Day d, hour h has come.
Past(d, h) == d <= day /\ (d = day => h <= hour)

\* One more scheduled run may be recorded at hour h of today.
Room(h) == ~moved /\ Open(h) => Attempts(h) < MaxAttempts

\* A scheduled run has room at the hour it has noted, and at any later one.
PickedOK(t) ==
  pc[t] \in ({"check", "lock", "begin"} \cup Running) \ {"settle"} /\ job[t].op = "schedule" =>
    \A h \in 0..MaxHour : hour <= h \/ (job[t].day = day /\ job[t].hour = h) => Room(h)

\* So has a verdict on a scheduled run, at the hour of the run.
DueOK(t) ==
  Resolving(t) =>
    /\ Past(job[t].task.day, job[t].task.hour)
    /\ job[t].task.trigger = "schedule" /\ job[t].task.day = day =>
         \A h \in 0..MaxHour : job[t].task.hour = h => Room(h)

\* Only the scheduler's thread runs and resolves for the scheduler.
AloneOK(t) ==
  /\ pc[t] # "idle" /\ job[t].op \in {"schedule", "verify"} => t = Sched
  /\ pc[t] \in {"resolve", "review", "conclude"} => job[t].op = "verify"

CountOK(t) ==
  /\ PickedOK(t) /\ DueOK(t) /\ AloneOK(t)
  /\ pc[t] # "idle" => Past(job[t].day, job[t].hour)

TaskCounts ==
  task # NoTask =>
    /\ Past(task.day, task.hour)
    /\ task.trigger = "schedule" /\ task.day = day =>
         \A h \in 0..MaxHour : task.hour = h => Room(h)

RowsPast == \A i \in DOMAIN records : Past(records[i].day, records[i].hour)

CountInv == AttemptsBounded /\ RowsPast /\ TaskCounts /\ \A t \in Threads : CountOK(t)
-----------------------------------------------------------------------------
\* Days and hours are numbers.
LEMMA Hours ==
  ASSUME IInv
  PROVE  /\ day \in Nat /\ hour \in 0..MaxHour /\ hour \in Nat /\ day >= 1
         /\ MaxHour \in Nat /\ MaxAttempts \in Nat \ {0} /\ CheckinStart \in Nat
         /\ \A i \in DOMAIN records : records[i].hour \in 0..MaxHour /\ records[i].day \in Nat
         /\ \A t \in Threads : job[t].hour \in 0..MaxHour /\ job[t].day \in Nat
         /\ task # NoTask => task.hour \in 0..MaxHour /\ task.day \in Nat
         /\ \A t \in Threads : Resolving(t) => /\ job[t].task.hour \in 0..MaxHour
                                               /\ job[t].task.day \in Nat
         /\ account.window # NoWindow => account.window.from \in 0..MaxHour
                                         /\ account.window.to \in 0..MaxHour
<1>1. TypeOK /\ MaxHour \in Nat /\ MaxAttempts \in Nat \ {0} /\ CheckinStart \in Nat
  BY LimitAssumption DEF IInv
<1>2. day \in Nat /\ hour \in 0..MaxHour /\ hour \in Nat /\ day >= 1
  BY <1>1, LimitAssumption DEF TypeOK
<1>3. ASSUME NEW i \in DOMAIN records
      PROVE  records[i].hour \in 0..MaxHour /\ records[i].day \in Nat
  <2>1. records[i] \in Records
    BY <1>1 DEF TypeOK
  <2>2. records[i].hour \in 0..MaxHour /\ records[i].day \in 1..MaxDay
    BY <2>1 DEF Records
  <2> QED
    BY <2>2, LimitAssumption
<1>4. ASSUME NEW t \in Threads
      PROVE  job[t].hour \in 0..MaxHour /\ job[t].day \in Nat
  <2>1. job[t] \in Jobs
    BY <1>1 DEF TypeOK
  <2> QED
    BY <2>1, JobFields, LimitAssumption
<1>5. ASSUME NEW k \in Tasks
      PROVE  k.hour \in 0..MaxHour /\ k.day \in Nat
  <2>1. k.hour \in 0..MaxHour /\ k.day \in 1..MaxDay
    BY DEF Tasks
  <2> QED
    BY <2>1, LimitAssumption
<1>6. task # NoTask => task.hour \in 0..MaxHour /\ task.day \in Nat
  BY <1>1, <1>5 DEF TypeOK
<1>7. \A t \in Threads : Resolving(t) => job[t].task.hour \in 0..MaxHour /\ job[t].task.day \in Nat
  BY <1>5 DEF IInv, LocalOK, VerifyOK, Resolving
<1>8. account.window # NoWindow => account.window.from \in 0..MaxHour
                                   /\ account.window.to \in 0..MaxHour
  <2>1. account.window \in Windows \cup {NoWindow}
    BY <1>1 DEF TypeOK, Accounts
  <2>2. \A w \in Windows : w.from \in 0..MaxHour /\ w.to \in 0..MaxHour
    BY LimitAssumption
  <2> QED
    BY <2>1, <2>2
<1> QED
  BY <1>1, <1>2, <1>3, <1>4, <1>6, <1>7, <1>8

\* The rows that Attempts(h) counts.
Counted(h) == {i \in DOMAIN records : /\ records[i].day = day
                                      /\ Open(records[i].hour) /\ SameWindow(records[i].hour, h)
                                      /\ records[i].trigger = "schedule"
                                      /\ records[i].status # "waiting"}

\* A set of rows is finite.
LEMMA RowsFinite ==
  ASSUME NEW rows \in Seq(Records), NEW C \in SUBSET DOMAIN rows
  PROVE  IsFiniteSet(C) /\ Cardinality(C) \in Nat
<1>1. DOMAIN rows = 1..Len(rows) /\ Len(rows) \in Nat
  OBVIOUS
<1>2. IsFiniteSet(DOMAIN rows)
  BY <1>1, FS_Interval
<1> QED
  BY <1>2, FS_Subset, FS_CardinalityType

LEMMA CountedFinite ==
  ASSUME IInv, NEW h
  PROVE  IsFiniteSet(Counted(h)) /\ Attempts(h) = Cardinality(Counted(h)) /\ Attempts(h) \in Nat
<1>1. Counted(h) \in SUBSET DOMAIN records /\ records \in Seq(Records)
  BY DEF Counted, IInv, TypeOK
<1>2. Attempts(h) = Cardinality(Counted(h))
  BY DEF Attempts, Counted
<1> QED
  BY <1>1, <1>2, RowsFinite

LEMMA CountedNext ==
  ASSUME IInv', NEW h
  PROVE  /\ IsFiniteSet(Counted(h)') /\ Attempts(h)' = Cardinality(Counted(h)')
         /\ Attempts(h)' \in Nat
<1>1. Counted(h)' \in SUBSET DOMAIN records' /\ records' \in Seq(Records)
  BY DEF Counted, IInv, TypeOK
<1>2. Attempts(h)' = Cardinality(Counted(h)')
  BY DEF Attempts, Counted
<1> QED
  BY <1>1, <1>2, RowsFinite

\* A step after which no other rows count leaves as much room.
LEMMA FewerCounted ==
  ASSUME IInv, IInv', NEW h, Counted(h)' \subseteq Counted(h)
  PROVE  Attempts(h)' <= Attempts(h) /\ Attempts(h) \in Nat /\ Attempts(h)' \in Nat
<1>1. IsFiniteSet(Counted(h)) /\ Attempts(h) = Cardinality(Counted(h)) /\ Attempts(h) \in Nat
  BY CountedFinite
<1>2. Attempts(h)' = Cardinality(Counted(h)') /\ Attempts(h)' \in Nat
  BY CountedNext
<1>3. Cardinality(Counted(h)') <= Cardinality(Counted(h))
  BY <1>1, FS_Subset
<1> QED
  BY <1>1, <1>2, <1>3

\* A row counts because of what it is and of the account's window.
LEMMA CountedRow ==
  ASSUME account'.window = account.window, NEW h, NEW i \in Counted(h)'
  PROVE  /\ i \in DOMAIN records' /\ records'[i].day = day' /\ records'[i].trigger = "schedule"
         /\ records'[i].status # "waiting"
         /\ Open(records'[i].hour) /\ SameWindow(records'[i].hour, h)
BY DEF Counted, Open, SameWindow

\* What a step does that adds no row that counts: a new window is noted.
Quietly ==
  /\ day' = day /\ (moved => moved') /\ (account'.window = account.window \/ moved')
  /\ \/ records' \in {records, <<>>}
     \/ \E row : records' = Append(records, row) /\ row.trigger # "schedule"

LEMMA QuietRoom ==
  ASSUME IInv, IInv', Quietly
  PROVE  /\ AttemptsBounded => AttemptsBounded'
         /\ \A h \in 0..MaxHour : Room(h) => Room(h)'
<1>1. CASE moved'
  BY <1>1 DEF AttemptsBounded, Room
<1>2. CASE ~moved'
  <2>1. ~moved /\ account'.window = account.window /\ day' = day /\ TypeOK
    BY <1>2 DEF Quietly, IInv
  <2>2. \A i \in DOMAIN records' :
          \/ i \in DOMAIN records /\ records'[i] = records[i]
          \/ records'[i].trigger # "schedule"
    <3>1. CASE records' \in {records, <<>>}
      BY <3>1
    <3>2. CASE \E row : records' = Append(records, row) /\ row.trigger # "schedule"
      BY <2>1, <3>2, OneMoreRow
    <3> QED
      BY <3>1, <3>2 DEF Quietly
  <2>3. ASSUME NEW h
        PROVE  (Open(h)' <=> Open(h)) /\ Attempts(h)' <= Attempts(h)
               /\ Attempts(h) \in Nat /\ Attempts(h)' \in Nat
    <3>1. \A g : (Open(g)' <=> Open(g)) /\ (SameWindow(g, h)' <=> SameWindow(g, h))
      BY <2>1 DEF Open, SameWindow
    <3>2. ASSUME NEW i \in Counted(h)' PROVE i \in Counted(h)
      <4>1. i \in DOMAIN records /\ records'[i] = records[i]
        BY <2>1, <2>2, <3>2, CountedRow
      <4> QED
        BY <2>1, <3>2, <4>1, CountedRow DEF Counted
    <3> QED
      BY <3>1, <3>2, FewerCounted
  <2>4. MaxAttempts \in Nat
    BY Hours
  <2> QED
    BY <1>2, <2>1, <2>3, <2>4 DEF AttemptsBounded, Room
<1> QED
  BY <1>1, <1>2

\* At midnight every window is empty.
LEMMA FreshRoom ==
  ASSUME IInv, IInv', RowsPast, NextDay
  PROVE  AttemptsBounded' /\ \A h : Room(h)'
<1>1. ASSUME NEW h PROVE Attempts(h)' = 0
  <2>1. Counted(h)' = {}
    BY Hours DEF RowsPast, Past, Counted, NextDay, db
  <2> QED
    BY <2>1, CountedNext, FS_EmptySet
<1> QED
  BY <1>1, Hours DEF AttemptsBounded, Room

\* Hours that lie in one window share its count.
LEMMA SameCount ==
  ASSUME IInv, NEW g, NEW h, SameWindow(g, h)
  PROVE  Attempts(g) = Attempts(h)
BY DEF SameWindow, Attempts

\* A pick has room at every later hour of the day: in the window of now, which
\* Ready has looked at, or in the one that begins later, which has no rows.
LEMMA PickRoom ==
  ASSUME IInv, RowsPast, Ready, NEW h \in 0..MaxHour, hour <= h
  PROVE  Room(h)
<1> SUFFICES ASSUME Open(h) PROVE Attempts(h) < MaxAttempts
  BY DEF Room
<1>1. CASE SameWindow(hour, h)
  BY <1>1, SameCount DEF Ready
<1>2. CASE ~SameWindow(hour, h)
  <2>1. Counted(h) = {}
    <3>1. /\ account.window.from \in Nat /\ hour < account.window.from
          /\ h >= account.window.from /\ account.window # NoWindow
      BY <1>2, Hours DEF SameWindow
    <3> SUFFICES ASSUME NEW i \in Counted(h) PROVE FALSE
      OBVIOUS
    <3>2. records[i].day = day /\ SameWindow(records[i].hour, h) /\ i \in DOMAIN records
      BY DEF Counted
    <3>3. records[i].hour <= hour /\ records[i].hour \in Nat
      BY <3>2, Hours DEF RowsPast, Past
    <3> QED
      BY <3>1, <3>2, <3>3, Hours DEF SameWindow
  <2> QED
    BY <2>1, CountedFinite, FS_EmptySet, Hours
<1> QED
  BY <1>1, <1>2

\* A row more keeps the bound, if it has room or does not count.
LEMMA RowBounded ==
  ASSUME IInv, IInv', AttemptsBounded, NEW row, records' = Append(records, row),
         UNCHANGED <<day, moved>>, account'.window = account.window, row.hour \in 0..MaxHour,
         row.trigger = "schedule" /\ row.day = day => Room(row.hour)
  PROVE  AttemptsBounded'
<1> SUFFICES ASSUME ~moved, NEW h \in 0..MaxHour, Open(h) PROVE Attempts(h)' <= MaxAttempts
  BY DEF AttemptsBounded, Open
<1> DEFINE n == Len(records) + 1
<1>1. \A i \in DOMAIN records' : \/ i \in DOMAIN records /\ records'[i] = records[i]
                                 \/ i = n /\ records'[i] = row
  BY OneMoreRow DEF IInv
<1>2. MaxAttempts \in Nat /\ Attempts(h) <= MaxAttempts
  BY Hours DEF AttemptsBounded
<1>3. \A g : (Open(g)' <=> Open(g)) /\ (SameWindow(g, h)' <=> SameWindow(g, h))
  BY DEF Open, SameWindow
<1> HIDE DEF n
<1>4. Counted(h)' \subseteq Counted(h) \cup {n}
  <2> SUFFICES ASSUME NEW i \in Counted(h)', i # n PROVE i \in Counted(h)
    OBVIOUS
  <2>1. i \in DOMAIN records /\ records'[i] = records[i]
    BY <1>1, CountedRow
  <2> QED
    BY <2>1, CountedRow DEF Counted
<1>5. CASE n \notin Counted(h)'
  <2>1. Counted(h)' \subseteq Counted(h)
    BY <1>4, <1>5
  <2> QED
    BY <1>2, <2>1, FewerCounted
<1>6. CASE n \in Counted(h)' /\ n \notin DOMAIN records
  <2>1. n \in DOMAIN records' /\ records'[n] = row
    BY <1>1, <1>6, CountedRow
  <2>2. Open(row.hour) /\ SameWindow(row.hour, h) /\ row.day = day /\ row.trigger = "schedule"
    BY <1>6, <2>1, CountedRow
  <2>3. Attempts(row.hour) < MaxAttempts /\ Attempts(row.hour) = Attempts(h)
    BY <2>2, SameCount DEF Room
  <2>4. IsFiniteSet(Counted(h)) /\ Attempts(h) = Cardinality(Counted(h)) /\ Attempts(h) \in Nat
    BY CountedFinite
  <2>5. /\ Cardinality(Counted(h)') <= Cardinality(Counted(h) \cup {n})
        /\ Cardinality(Counted(h) \cup {n}) \in {Attempts(h), Attempts(h) + 1}
    BY <1>4, <2>4, FS_AddElement, FS_Subset
  <2>6. Attempts(h)' = Cardinality(Counted(h)') /\ Attempts(h)' \in Nat
    BY CountedNext
  <2> QED
    BY <1>2, <2>3, <2>4, <2>5, <2>6
<1>7. n \notin DOMAIN records
  BY Numbers DEF n
<1> QED
  BY <1>5, <1>6, <1>7
-----------------------------------------------------------------------------
(* The steps. *)

\* What a thread that does not move relies on stays, if rooms do or if it is the
\* scheduler's thread that moves.
LEMMA OthersCount ==
  ASSUME AInv, CountInv, NEW t \in Threads, Moved(t), UNCHANGED clock,
         t = Sched \/ \A h \in 0..MaxHour : Room(h) => Room(h)'
  PROVE  \A u \in Threads \ {t} : CountOK(u)'
<1> SUFFICES ASSUME NEW u \in Threads \ {t} PROVE CountOK(u)'
  OBVIOUS
<1>1. CountOK(u) /\ pc'[u] = pc[u] /\ job'[u] = job[u] /\ day' = day /\ hour' = hour
  BY DEF CountInv, Moved, clock
<1>2. AloneOK(u)' /\ (pc[u] # "idle" => Past(job[u].day, job[u].hour))'
  BY <1>1 DEF CountOK, AloneOK, Past
<1>3. PickedOK(u)' /\ DueOK(u)'
  <2>1. CASE t = Sched
    <3>1. /\ pc[u] # "idle" => job[u].op \notin {"schedule", "verify"}
          /\ ~Resolving(u)
      BY <1>1, <2>1 DEF CountOK, AloneOK, Resolving
    <3> QED
      BY <1>1, <3>1 DEF PickedOK, DueOK, Resolving, Running
  <2>2. CASE \A h \in 0..MaxHour : Room(h) => Room(h)'
    <3>1. PickedOK(u)'
      BY <1>1, <2>2 DEF CountOK, PickedOK
    <3>2. DueOK(u)'
      BY <1>1, <2>2 DEF CountOK, DueOK, Resolving, Past
    <3> QED
      BY <3>1, <3>2
  <2> QED
    BY <2>1, <2>2
<1> QED
  BY <1>2, <1>3 DEF CountOK

LEMMA TaskStays ==
  ASSUME AInv, CountInv, SameTask, UNCHANGED clock, \A h \in 0..MaxHour : Room(h) => Room(h)'
  PROVE  TaskCounts'
BY DEF CountInv, TaskCounts, SameTask, Past, clock

\* A quiet step of one thread, by what the thread relies on after it.
LEMMA QuietCount ==
  ASSUME AInv, CountInv, IInv', NEW t \in Threads, Moved(t), CountOK(t)', UNCHANGED clock,
         moved => moved', account'.window = account.window \/ moved',
         records' \in {records, <<>>}, TaskCounts' \/ SameTask
  PROVE  CountInv'
<1>1. Quietly /\ IInv
  BY DEF Quietly, clock, AInv
<1>2. AttemptsBounded' /\ \A h \in 0..MaxHour : Room(h) => Room(h)'
  BY <1>1, QuietRoom DEF CountInv
<1>3. \A u \in Threads : CountOK(u)'
  BY <1>2, OthersCount
<1>4. TaskCounts'
  BY <1>2, TaskStays
<1>5. RowsPast'
  BY DEF CountInv, RowsPast, Past, clock
<1> QED
  BY <1>2, <1>3, <1>4, <1>5 DEF CountInv

\* A call that ends relies on nothing.
LEMMA IdleCount ==
  ASSUME NEW t \in Threads, pc'[t] = "idle"
  PROVE  CountOK(t)'
BY DEF CountOK, PickedOK, DueOK, AloneOK, Resolving, Running

\* Nor does a call that is not one of the scheduler's.
LEMMA PlainCount ==
  ASSUME NEW t \in Threads, job'[t].op \notin {"schedule", "verify"},
         pc'[t] \notin {"resolve", "review", "conclude"}, Past(job[t].day, job[t].hour)'
  PROVE  CountOK(t)'
BY DEF CountOK, PickedOK, DueOK, AloneOK, Resolving

\* A run that goes on keeps its room: the hour it notes is the one it had or now.
LEMMA GoesOn ==
  ASSUME AInv, CountInv, NEW t \in Threads, UNCHANGED clock,
         \A h \in 0..MaxHour : Room(h) => Room(h)',
         pc[t] \in ({"check", "lock", "begin"} \cup Running) \ {"settle"},
         pc'[t] \in {"lock", "begin"} \cup Running, job'[t].op = job[t].op,
         \/ job'[t].day = job[t].day /\ job'[t].hour = job[t].hour
         \/ job'[t].day = day /\ job'[t].hour = hour
  PROVE  CountOK(t)'
<1>1. CountOK(t) /\ day' = day /\ hour' = hour /\ hour \in Nat /\ day \in Nat
  BY Hours DEF CountInv, AInv, clock
<1>2. /\ pc[t] # "idle" /\ pc'[t] \notin {"resolve", "review", "conclude"}
      /\ pc[t] \notin {"resolve", "review", "conclude"}
  BY DEF Running
<1>3. AloneOK(t)' /\ DueOK(t)'
  BY <1>1, <1>2 DEF CountOK, AloneOK, DueOK, Resolving
<1>4. (pc[t] # "idle" => Past(job[t].day, job[t].hour))'
  BY <1>1, <1>2 DEF CountOK, Past
<1>5. PickedOK(t)'
  <2>1. job'[t].op = "schedule" =>
          \A h \in 0..MaxHour : hour <= h \/ (job[t].day = day /\ job[t].hour = h) => Room(h)
    BY <1>1 DEF CountOK, PickedOK
  <2> SUFFICES ASSUME job'[t].op = "schedule", NEW h \in 0..MaxHour,
                      hour <= h \/ (job'[t].day = day /\ job'[t].hour = h)
               PROVE  Room(h)'
    BY <1>1 DEF PickedOK
  <2>2. hour <= h \/ (job[t].day = day /\ job[t].hour = h)
    BY <1>1
  <2> QED
    BY <2>1, <2>2
<1> QED
  BY <1>3, <1>4, <1>5 DEF CountOK

\* The steps of an attempt.
LEMMA AttemptCount ==
  ASSUME AInv, CountInv, NEW t \in Threads,
         \/ Attempt(t) \/ Login(t) \/ Disable(t) \/ Query(t) \/ SaveWindow(t)
         \/ Persist(t) \/ Submit(t) \/ Confirm(t)
  PROVE  CountInv'
<1>1. IInv /\ account \in Accounts /\ day \in 1..MaxDay
  BY DEF AInv, IInv, TypeOK
<1>2. IInv' /\ Carries(t)
  BY <1>1, AttemptKeeps, LoginKeeps, DisableKeeps, QueryKeeps, SaveWindowKeeps,
     PersistKeeps, SubmitKeeps
<1>3. pc[t] \in Running \ {"record", "settle"}
  BY DEF Attempt, Login, Disable, Query, SaveWindow, Persist, Submit, Confirm, Running
<1>4. UNCHANGED <<task, records, clock>>
  BY DEF Attempt, Login, Disable, Query, SaveWindow, Persist, Submit, Confirm, Steady, clock, db,
     counters
<1>5. (moved => moved') /\ (account'.window = account.window \/ moved')
  <2>1. CASE Attempt(t) \/ Query(t) \/ Submit(t) \/ Confirm(t)
    BY <2>1 DEF Attempt, Query, Submit, Confirm, db, Steady
  <2>2. CASE Login(t) \/ Persist(t) \/ Disable(t)
    <3>1. /\ Persisted.window = account.window
          /\ [account EXCEPT !.enabled = FALSE].window = account.window
          /\ \A x : [account EXCEPT !.auth = x].window = account.window
      BY <1>1 DEF Persisted, Accounts
    <3>2. \/ account' \in {account, Persisted, [account EXCEPT !.enabled = FALSE]}
          \/ \E x : account' = [account EXCEPT !.auth = x]
      BY <2>2 DEF Login, AuthFails, Persist, Disable
    <3>3. moved' = moved
      BY <2>2 DEF Login, Persist, Disable, Steady
    <3> QED
      BY <3>1, <3>2, <3>3
  <2>3. CASE SaveWindow(t)
    BY <1>1, <2>3 DEF SaveWindow, NoteWindow, Accounts
  <2> QED
    BY <2>1, <2>2, <2>3
<1>6. CountOK(t)'
  <2>1. CASE pc'[t] = "idle"
    BY <2>1, IdleCount
  <2>2. CASE pc'[t] # "idle"
    <3>1. Quietly
      BY <1>4, <1>5 DEF Quietly, clock
    <3>2. \A h \in 0..MaxHour : Room(h) => Room(h)'
      BY <1>1, <1>2, <3>1, QuietRoom
    <3>3. /\ pc'[t] \in Running /\ job'[t].op = job[t].op
          /\ \/ job'[t].day = job[t].day /\ job'[t].hour = job[t].hour
             \/ job'[t].day = day /\ job'[t].hour = hour
      BY <1>2, <2>2 DEF Carries
    <3> QED
      BY <1>3, <1>4, <3>2, <3>3, GoesOn
  <2> QED
    BY <2>1, <2>2
<1> QED
  BY <1>2, <1>4, <1>5, <1>6, QuietCount DEF Carries, SameTask

\* A run on its way to its first attempt, and a deferral.
LEMMA EnterCount ==
  ASSUME AInv, CountInv, NEW t \in Threads, Check(t) \/ Lock(t) \/ Begin(t)
  PROVE  CountInv'
<1>1. IInv /\ IInv'
  BY LockKeeps, BeginKeeps DEF AInv
<1>2. /\ UNCHANGED <<db, clock, moved>> /\ pc[t] \in {"check", "lock", "begin"}
      /\ job[t] \in Jobs /\ account \in Accounts /\ CountOK(t)
  BY <1>1 DEF Check, Lock, Begin, Steady, IInv, TypeOK, CountInv
<1>3. Quietly /\ SameTask
  BY <1>2 DEF Quietly, SameTask, db, clock
<1>4. \A h \in 0..MaxHour : Room(h) => Room(h)'
  BY <1>1, <1>3, QuietRoom
<1>5. ASSUME Return(t) \/ Leave(t) PROVE Moved(t) /\ CountOK(t)'
  BY <1>1, <1>5, ReturnMoves, LeaveMoves, IdleCount DEF IInv
<1>6. CASE Check(t)
  <2>1. ASSUME Goto(t, "lock"), job' = job PROVE Moved(t) /\ CountOK(t)'
    <3>1. Moved(t) /\ pc'[t] = "lock" /\ job'[t] = job[t]
      BY <1>1, <2>1, MoveOn DEF PCs, IInv
    <3> QED
      BY <1>2, <1>4, <3>1, GoesOn
  <2> QED
    BY <1>1, <1>2, <1>3, <1>5, <1>6, <2>1, QuietCount DEF Check, db
<1>7. CASE Lock(t)
  <2>1. ASSUME Goto(t, Body(job[t].op)), Let(t, [job[t] EXCEPT !.snap = account])
        PROVE  Moved(t) /\ CountOK(t)'
    <3> DEFINE j == [job[t] EXCEPT !.snap = account]
               l == Body(job[t].op)
    <3>1. j \in Jobs /\ j.op = job[t].op /\ j.day = job[t].day /\ j.hour = job[t].hour
      BY <1>2 DEF Jobs
    <3>2. /\ l \in {"begin", "login", "resolve", "edit"} /\ (l = "resolve" => j.op = "verify")
          /\ j.op = "verify" => l = "resolve"
          /\ j.op = "schedule" => l = "begin"
      <4>1. job[t].op \in Ops \ {"create"}
        BY <1>1, <1>7 DEF IInv, LocalOK, OpOK, Lock
      <4> QED
        BY <3>1, <4>1 DEF Body, Ops, RunOps
    <3>3. Goto(t, l) /\ Let(t, j)
      BY <2>1
    <3> HIDE DEF j, l
    <3>4. Moved(t) /\ pc'[t] = l /\ job'[t] = j
      BY <1>1, <3>1, <3>2, <3>3, Move DEF PCs, IInv
    <3>5. CASE l = "begin"
      BY <1>2, <1>4, <3>1, <3>4, <3>5, GoesOn
    <3>6. CASE l # "begin"
      <4>1. (job'[t].op \in {"schedule", "verify"} => t = Sched) /\ Past(job[t].day, job[t].hour)'
        BY <1>2, <3>1, <3>4 DEF CountOK, AloneOK, Past, clock
      <4> QED
        BY <3>2, <3>4, <3>6, <4>1 DEF CountOK, PickedOK, DueOK, AloneOK, Resolving
    <3> QED
      BY <3>4, <3>5, <3>6
  <2> QED
    BY <1>1, <1>2, <1>3, <1>5, <1>7, <2>1, QuietCount DEF Lock, db
<1>8. CASE Begin(t)
  <2>1. ASSUME Enter(t) PROVE Moved(t) /\ CountOK(t)'
    <3> DEFINE j == [job[t] EXCEPT !.run = runs + 1]
    <3>1. j \in Jobs /\ j.op = job[t].op /\ j.day = job[t].day /\ j.hour = job[t].hour
      <4>1. runs + 1 \in Nat
        BY <1>1, Numbers
      <4> QED
        BY <1>2, <4>1 DEF Jobs
    <3>2. Goto(t, "attempt") /\ Let(t, j)
      BY <2>1 DEF Enter
    <3> HIDE DEF j
    <3>3. Moved(t) /\ pc'[t] = "attempt" /\ job'[t] = j
      BY <1>1, <3>1, <3>2, Move DEF PCs, IInv
    <3> QED
      BY <1>2, <1>4, <3>1, <3>3, GoesOn DEF Running
  <2> QED
    BY <1>1, <1>2, <1>3, <1>5, <1>8, <2>1, QuietCount DEF Begin, db
<1> QED
  BY <1>6, <1>7, <1>8

\* A deferral: the task gets the room of its run.
LEMMA DeferCount ==
  ASSUME AInv, CountInv, NEW t \in Threads, Defer(t)
  PROVE  CountInv'
<1>1. IInv /\ IInv' /\ TypeOK /\ pc[t] = "defer" /\ Leave(t) /\ CountOK(t)
  BY DeferKeeps DEF AInv, IInv, Defer, CountInv
<1>2. /\ UNCHANGED <<account, records, clock, moved>> /\ task'.day = job[t].day
      /\ task'.hour = job[t].hour /\ task'.trigger = job[t].op
  BY DEF Defer, Steady
<1>3. \A h \in 0..MaxHour : Room(h) => Room(h)'
  <2>1. Quietly
    BY <1>2 DEF Quietly, clock
  <2> QED
    BY <1>1, <2>1, QuietRoom
<1>4. TaskCounts'
  <2>1. Past(job[t].day, job[t].hour)
    BY <1>1 DEF CountOK
  <2>2. job[t].op = "schedule" /\ job[t].day = day =>
          \A h \in 0..MaxHour : job[t].hour = h => Room(h)
    BY <1>1 DEF CountOK, PickedOK, Running
  <2> QED
    BY <1>2, <1>3, <2>1, <2>2 DEF TaskCounts, Past, clock
<1>5. Moved(t) /\ CountOK(t)'
  BY <1>1, LeaveMoves, IdleCount
<1> QED
  BY <1>1, <1>2, <1>4, <1>5, QuietCount

\* A run is recorded: a scheduled one is the scheduler's, and has room.
LEMMA RecordCount ==
  ASSUME AInv, CountInv, NEW t \in Threads, Record(t)
  PROVE  CountInv'
<1> DEFINE row == Row(job[t].run, job[t].day, job[t].hour, job[t].op, job[t].result)
<1>1. /\ IInv /\ IInv' /\ TypeOK /\ pc[t] = "record" /\ CountOK(t) /\ job[t].hour \in 0..MaxHour
      /\ UNCHANGED <<account, task, clock, moved>> /\ records' = Append(records, row)
      /\ Goto(t, "settle") /\ job' = job
  BY RecordKeeps, Hours DEF AInv, IInv, Record, CountInv, Steady
<1>2. task' = NoTask /\ job[t].op \in RunOps
  BY <1>1 DEF IInv, LocalOK, RunOK, OpOK, Running
<1>3. row.day = job[t].day /\ row.hour = job[t].hour /\ row.trigger = job[t].op
  BY DEF Row
<1> HIDE DEF row
<1>4. Moved(t) /\ pc'[t] = "settle" /\ job'[t] = job[t]
  BY <1>1, MoveOn DEF PCs
<1>5. CountOK(t)'
  BY <1>1, <1>4 DEF CountOK, PickedOK, DueOK, AloneOK, Resolving, Past, clock
<1>6. AttemptsBounded'
  <2>1. row.trigger = "schedule" /\ row.day = day => Room(row.hour)
    BY <1>1, <1>3 DEF CountOK, PickedOK, Running
  <2> QED
    BY <1>1, <1>3, <2>1, RowBounded DEF CountInv, clock
<1>7. RowsPast'
  <2>1. \A i \in DOMAIN records' : \/ i \in DOMAIN records /\ records'[i] = records[i]
                                   \/ records'[i] = row
    BY <1>1, OneMoreRow
  <2> QED
    BY <1>1, <1>3, <2>1 DEF CountInv, CountOK, RowsPast, Past, clock
<1>8. \A u \in Threads \ {t} : CountOK(u)'
  <2>1. CASE t = Sched
    BY <1>1, <1>4, <2>1, OthersCount
  <2>2. CASE t # Sched
    <3>1. row.trigger # "schedule"
      BY <1>1, <1>3, <2>2 DEF CountOK, AloneOK
    <3>2. Quietly
      BY <1>1, <3>1 DEF Quietly, clock
    <3> QED
      BY <1>1, <1>4, <3>2, QuietRoom, OthersCount
  <2> QED
    BY <2>1, <2>2
<1>9. TaskCounts'
  BY <1>2 DEF TaskCounts
<1> QED
  BY <1>5, <1>6, <1>7, <1>8, <1>9 DEF CountInv

\* The rest of what is done under the lock.
LEMMA LeaveCount ==
  ASSUME AInv, CountInv, NEW t \in Threads,
         Settle(t) \/ Delete(t) \/ Update(t) \/ Resolve(t) \/ Review(t)
         \/ (Conclude(t) /\ job[t].result = "again")
  PROVE  CountInv'
<1>1. /\ IInv /\ IInv' /\ TypeOK /\ CountOK(t) /\ account \in Accounts /\ job[t] \in Jobs
      /\ UNCHANGED clock
  BY RecordKeeps, DeleteKeeps, UpdateKeeps, ResolveKeeps, ReviewKeeps, ConcludeKeeps
  DEF AInv, IInv, TypeOK, Settle, Delete, Update, Resolve, Review, Conclude, CountInv, Steady
<1>2. records' \in {records, <<>>}
  BY DEF Settle, Delete, Update, Resolve, Review, Conclude, db, Bump, RecordVerdict
<1>3. SameTask
  <2>1. CASE Settle(t) \/ Delete(t) \/ Update(t) \/ Resolve(t) \/ Review(t)
    BY <2>1 DEF Settle, Delete, Update, Resolve, Review, db, SameTask
  <2>2. CASE Conclude(t) /\ job[t].result = "again"
    <3> DEFINE k == [task EXCEPT !.rounds = @ + 1, !.due = FALSE]
    <3>1. task' = IF task = NoTask THEN task ELSE k
      BY <2>2 DEF Conclude, Bump
    <3>2. task # NoTask => task \in Tasks
      BY <1>1 DEF TypeOK
    <3>3. task # NoTask => /\ k.run = task.run /\ k.day = task.day
                           /\ k.hour = task.hour /\ k.trigger = task.trigger
      BY <3>2 DEF Tasks
    <3> HIDE DEF k
    <3> QED
      BY <3>1, <3>3 DEF SameTask
  <2> QED
    BY <2>1, <2>2
<1>4. (moved => moved') /\ (account'.window = account.window \/ moved')
  <2>1. CASE Update(t)
    <3>1. \A x : [account EXCEPT !.auth = x].window = account.window
      BY <1>1 DEF Accounts
    <3>2. CASE NoteWindow(account'.window)
      BY <3>2 DEF NoteWindow
    <3>3. CASE AuthFails(t) /\ UNCHANGED moved
      BY <3>1, <3>3 DEF AuthFails
    <3>4. CASE UNCHANGED <<account, moved>>
      BY <3>4
    <3>5. NoteWindow(account'.window) \/ (AuthFails(t) /\ UNCHANGED moved) \/ UNCHANGED <<account, moved>>
      BY <2>1 DEF Update
    <3> QED
      BY <3>2, <3>3, <3>4, <3>5
  <2>2. CASE Resolve(t) \/ Review(t) \/ (Conclude(t) /\ job[t].result = "again")
    BY <2>2 DEF Resolve, Review, Conclude, Steady, db
  <2>3. CASE Settle(t) \/ Delete(t)
    BY <1>1, <2>3 DEF Settle, Delete, Steady, Accounts
  <2> QED
    BY <2>1, <2>2, <2>3
<1>5. \A h \in 0..MaxHour : Room(h) => Room(h)'
  <2>1. Quietly
    BY <1>1, <1>2, <1>4 DEF Quietly, clock
  <2> QED
    BY <1>1, <2>1, QuietRoom
<1>6. ASSUME Leave(t) PROVE Moved(t) /\ CountOK(t)'
  BY <1>1, <1>6, LeaveMoves, IdleCount
<1>7. CASE Resolve(t)
  <2>1. ASSUME task # NoTask, task.day = day, Goto(t, "review"), Let(t, [job[t] EXCEPT !.task = task])
        PROVE  Moved(t) /\ CountOK(t)'
    <3> DEFINE j == [job[t] EXCEPT !.task = task]
    <3>1. /\ j \in Jobs /\ j.op = job[t].op /\ j.day = job[t].day /\ j.hour = job[t].hour
          /\ j.task = task
      BY <1>1 DEF Jobs, TypeOK
    <3> HIDE DEF j
    <3>2. Moved(t) /\ pc'[t] = "review" /\ job'[t] = j
      BY <1>1, <2>1, <3>1, Move DEF PCs, j
    <3>3. TaskCounts /\ pc[t] = "resolve"
      BY <1>7 DEF CountInv, Resolve
    <3> QED
      BY <1>1, <1>5, <2>1, <3>1, <3>2, <3>3
      DEF CountOK, PickedOK, DueOK, AloneOK, Resolving, TaskCounts, Past, clock, Running
  <2> QED
    BY <1>1, <1>2, <1>3, <1>4, <1>6, <1>7, <2>1, QuietCount DEF Resolve
<1>8. CASE Review(t)
  <2>1. PICK v \in {"success", "failed", "again"} : Let(t, [job[t] EXCEPT !.result = v])
    BY <1>8 DEF Review
  <2> DEFINE j == [job[t] EXCEPT !.result = v]
  <2>2. /\ j \in Jobs /\ j.op = job[t].op /\ j.day = job[t].day /\ j.hour = job[t].hour
        /\ j.task = job[t].task
    BY <1>1 DEF Jobs, Results, Statuses
  <2> HIDE DEF j
  <2>3. Moved(t) /\ pc'[t] = "conclude" /\ job'[t] = j /\ pc[t] = "review"
    BY <1>1, <1>8, <2>1, <2>2, Move DEF PCs, j, Review
  <2>4. CountOK(t)'
    BY <1>1, <1>5, <2>2, <2>3
    DEF CountOK, PickedOK, DueOK, AloneOK, Resolving, Past, clock, Running
  <2> QED
    BY <1>1, <1>2, <1>3, <1>4, <2>3, <2>4, QuietCount
<1>9. CASE Update(t)
  <2>1. ASSUME Goto(t, "disable"), job' = job PROVE Moved(t) /\ CountOK(t)'
    <3>1. Moved(t) /\ pc'[t] = "disable" /\ job'[t] = job[t]
      BY <1>1, <2>1, MoveOn DEF PCs
    <3>2. job[t].op = "update" /\ pc[t] = "edit"
      BY <1>9 DEF Update
    <3>3. Past(job[t].day, job[t].hour)'
      BY <1>1, <3>1, <3>2 DEF CountOK, Past, clock
    <3> QED
      BY <3>1, <3>2, <3>3, PlainCount
  <2>2. Leave(t) \/ (Goto(t, "disable") /\ job' = job)
    BY <1>9 DEF Update, AuthFails, Fail, RunOps
  <2> QED
    BY <1>1, <1>2, <1>3, <1>4, <1>6, <2>1, <2>2, QuietCount
<1>10. CASE Settle(t) \/ Delete(t) \/ (Conclude(t) /\ job[t].result = "again")
  BY <1>1, <1>2, <1>3, <1>4, <1>6, <1>10, QuietCount DEF Settle, Delete, Conclude
<1> QED
  BY <1>7, <1>8, <1>9, <1>10

\* A verdict has the room of the run it is about.
LEMMA VerdictCount ==
  ASSUME AInv, CountInv, NEW t \in Threads, Conclude(t), job[t].result # "again"
  PROVE  CountInv'
<1> DEFINE k == job[t].task
           row == Verdict(t)
<1>1. /\ IInv /\ IInv' /\ TypeOK /\ pc[t] = "conclude" /\ CountOK(t) /\ account \in Accounts
      /\ UNCHANGED <<clock, moved>> /\ Leave(t) /\ RecordVerdict(t)
  BY ConcludeKeeps DEF AInv, IInv, TypeOK, Conclude, CountInv, Steady, Bump
<1>2. /\ records' = Append(records, row) /\ account'.window = account.window /\ task' = NoTask
      /\ row.day = k.day /\ row.hour = k.hour /\ row.trigger = k.trigger
  BY <1>1 DEF RecordVerdict, Verdict, Row, Accounts
<1>3. k.hour \in 0..MaxHour /\ Past(k.day, k.hour) /\ t = Sched
      /\ (k.trigger = "schedule" /\ k.day = day => Room(k.hour))
  BY <1>1, Hours DEF Resolving, CountOK, DueOK, AloneOK
<1> HIDE DEF row, k
<1>4. AttemptsBounded'
  BY <1>1, <1>2, <1>3, RowBounded DEF CountInv, clock
<1>5. RowsPast'
  <2>1. \A i \in DOMAIN records' : \/ i \in DOMAIN records /\ records'[i] = records[i]
                                   \/ records'[i] = row
    BY <1>1, <1>2, OneMoreRow
  <2> QED
    BY <1>1, <1>2, <1>3, <2>1 DEF CountInv, RowsPast, Past, clock
<1>6. \A u \in Threads : CountOK(u)'
  BY <1>1, <1>3, LeaveMoves, IdleCount, OthersCount
<1> QED
  BY <1>2, <1>4, <1>5, <1>6 DEF CountInv, TaskCounts

\* The account is added: nothing counts yet.  It is marked: the row is the
\* user's, and does not count.
LEMMA CreateCount ==
  ASSUME AInv, CountInv, NEW t \in Threads, Insert(t) \/ Mark(t)
  PROVE  CountInv'
<1>1. /\ IInv /\ IInv' /\ TypeOK /\ NewOK /\ account \in Accounts /\ job[t] \in Jobs
      /\ UNCHANGED clock /\ task' = task /\ moved' = moved /\ \A u \in Threads : CountOK(u)
  BY CreateKeeps DEF AInv, IInv, TypeOK, CountInv, Insert, Mark, Steady
<1>2. CASE Insert(t)
  <2>1. /\ records' = <<>> /\ task' = NoTask
        /\ \A u \in Threads : pc[u] \in {"idle", "insert"}
    BY <1>1, <1>2 DEF NewOK, Insert
  <2>2. AttemptsBounded'
    <3>1. ASSUME NEW h PROVE Attempts(h)' = 0
      <4>1. Counted(h)' = {}
        BY <2>1 DEF Counted
      <4> QED
        BY <1>1, <4>1, CountedNext, FS_EmptySet
    <3> QED
      BY <1>1, <3>1, Hours DEF AttemptsBounded
  <2>3. Moved(t) /\ CountOK(t)'
    <3>1. CASE Goto(t, "idle") /\ Let(t, NoJob)
      <4>1. Moved(t) /\ pc'[t] = "idle"
        BY <1>1, <3>1, Move, NoJobType DEF PCs
      <4> QED
        BY <4>1, IdleCount
    <3>2. CASE runs' = runs + 1 /\ Goto(t, "mark")
               /\ Let(t, [job[t] EXCEPT !.run = runs + 1, !.day = day, !.hour = hour])
      <4> DEFINE j == [job[t] EXCEPT !.run = runs + 1, !.day = day, !.hour = hour]
      <4>1. runs + 1 \in Nat /\ day \in 0..MaxDay /\ hour \in 0..MaxHour
        BY <1>1, Numbers, LimitAssumption DEF TypeOK
      <4>2. j \in Jobs /\ j.op = job[t].op /\ j.day = day /\ j.hour = hour
        BY <1>1, <4>1 DEF Jobs
      <4>3. Let(t, j)
        BY <3>2
      <4> HIDE DEF j
      <4>4. Moved(t) /\ pc'[t] = "mark" /\ job'[t] = j /\ pc[t] = "insert"
        BY <1>1, <1>2, <3>2, <4>2, <4>3, Move DEF PCs, Insert
      <4>5. Past(job[t].day, job[t].hour)'
        BY <1>1, <4>1, <4>2, <4>4 DEF Past, clock
      <4> QED
        BY <1>1, <4>2, <4>4, <4>5 DEF CountOK, PickedOK, DueOK, AloneOK, Resolving, Running
    <3> QED
      BY <1>2, <3>1, <3>2 DEF Insert
  <2>4. ASSUME NEW u \in Threads \ {t} PROVE CountOK(u)'
    <3>1. pc'[u] = pc[u] /\ job'[u] = job[u] /\ pc[u] \in {"idle", "insert"} /\ CountOK(u)
      BY <1>1, <2>1, <2>3 DEF Moved
    <3> QED
      BY <1>1, <3>1 DEF CountOK, PickedOK, DueOK, AloneOK, Resolving, Running, Past, clock
  <2>5. TaskCounts' /\ RowsPast'
    BY <2>1 DEF TaskCounts, RowsPast
  <2> QED
    BY <2>2, <2>3, <2>4, <2>5 DEF CountInv
<1>3. CASE Mark(t)
  <2> DEFINE row == Row(job[t].run, job[t].day, job[t].hour, "manual", "skipped")
  <2>1. records' = records \/ records' = Append(records, row)
    BY <1>3 DEF Mark
  <2>2. row.day = job[t].day /\ row.hour = job[t].hour /\ row.trigger = "manual"
    BY DEF Row
  <2> HIDE DEF row
  <2>3. Past(job[t].day, job[t].hour) /\ account'.window = account.window
    BY <1>1, <1>3 DEF CountOK, Mark, Accounts
  <2>4. AttemptsBounded' /\ \A h \in 0..MaxHour : Room(h) => Room(h)'
    <3>1. Quietly
      BY <1>1, <2>1, <2>2, <2>3 DEF Quietly, clock
    <3> QED
      BY <1>1, <3>1, QuietRoom DEF CountInv
  <2>5. RowsPast'
    <3>1. \A i \in DOMAIN records' : \/ i \in DOMAIN records /\ records'[i] = records[i]
                                     \/ records'[i] = row
      BY <1>1, <2>1, OneMoreRow
    <3> QED
      BY <1>1, <2>2, <2>3, <3>1 DEF CountInv, RowsPast, Past, clock
  <2>6. TaskCounts'
    BY <1>1, <2>4, TaskStays DEF SameTask
  <2>7. Moved(t) /\ pc'[t] = "idle"
    BY <1>1, <1>3, ReturnMoves DEF Mark
  <2>8. \A u \in Threads : CountOK(u)'
    BY <1>1, <2>4, <2>7, IdleCount, OthersCount
  <2> QED
    BY <2>4, <2>5, <2>6, <2>8 DEF CountInv
<1> QED
  BY <1>2, <1>3

\* What is over stays over.
LEMMA PastStays ==
  ASSUME IInv, IInv', NextDay \/ (day' = day /\ hour' >= hour), NEW d, NEW h, Past(d, h),
         d \in Nat, h \in Nat
  PROVE  Past(d, h)'
<1>1. day \in Nat /\ hour \in Nat /\ (NextDay => day' = day + 1)
  BY Hours DEF NextDay
<1>2. day' \in Nat /\ hour' \in Nat
  BY LimitAssumption DEF IInv, TypeOK
<1> QED
  BY <1>1, <1>2 DEF Past

\* At midnight.
LEMMA MidnightCount ==
  ASSUME AInv, CountInv, NextDay
  PROVE  CountInv'
<1>1. IInv /\ IInv' /\ RowsPast
  BY Keeps DEF AInv, CountInv, Next, World
<1>2. AttemptsBounded' /\ \A h : Room(h)'
  BY <1>1, FreshRoom
<1>3. \A d, h \in Nat : Past(d, h) => Past(d, h)'
  BY <1>1, PastStays
<1>4. records' = records /\ task' = task /\ pc' = pc /\ job' = job
  BY DEF NextDay, db
<1>5. /\ \A n \in 0..MaxHour : n \in Nat
      /\ \A i \in DOMAIN records : records[i].hour \in 0..MaxHour /\ records[i].day \in Nat
      /\ \A t \in Threads : job[t].hour \in 0..MaxHour /\ job[t].day \in Nat
      /\ task # NoTask => task.hour \in 0..MaxHour /\ task.day \in Nat
      /\ \A t \in Threads : Resolving(t) => /\ job[t].task.hour \in 0..MaxHour
                                            /\ job[t].task.day \in Nat
  BY <1>1, Hours
<1>6. RowsPast'
  BY <1>3, <1>4, <1>5 DEF CountInv, RowsPast
<1>7. TaskCounts'
  BY <1>2, <1>3, <1>4, <1>5 DEF CountInv, TaskCounts
<1>8. ASSUME NEW t \in Threads PROVE CountOK(t)'
  <2>1. CountOK(t)
    BY DEF CountInv
  <2>2. PickedOK(t)' /\ AloneOK(t)'
    BY <1>2, <1>4, <2>1 DEF CountOK, PickedOK, AloneOK
  <2>3. Resolving(t)' <=> Resolving(t)
    BY <1>4 DEF Resolving
  <2>4. DueOK(t)'
    BY <1>2, <1>3, <1>4, <1>5, <2>1, <2>3 DEF CountOK, DueOK
  <2>5. (pc[t] # "idle" => Past(job[t].day, job[t].hour))'
    BY <1>3, <1>4, <1>5, <2>1 DEF CountOK
  <2> QED
    BY <2>2, <2>4, <2>5 DEF CountOK
<1> QED
  BY <1>2, <1>6, <1>7, <1>8 DEF CountInv

\* What starts on a thread: a pick with room, or what relies on nothing yet.
Starts(t) ==
  /\ pc'[t] \in {"check", "lock", "insert"} /\ job'[t].day = 0
  /\ job'[t].op \in {"schedule", "verify"} => t = Sched
  /\ job'[t].op = "schedule" => Ready /\ hour' = hour

\* What the tick, the user, the school, an hour or a crash does.
LEMMA RestCount ==
  ASSUME AInv, CountInv, Tick \/ World \/ \E w \in Web : Call(w) \/ Probe(w)
  PROVE  CountInv'
<1>1. /\ IInv /\ IInv' /\ RowsPast /\ TypeOK /\ pc \in [Threads -> PCs]
      /\ job \in [Threads -> Jobs] /\ Sched \in Threads /\ Sched \notin Web /\ Web \subseteq Threads
  BY Keeps, ThreadAssumption DEF AInv, IInv, TypeOK, CountInv, Next, Threads
<1>2. CASE NextDay
  BY <1>2, MidnightCount
<1>3. CASE ~NextDay
  <2>1. UNCHANGED <<account, records, day, moved>>
    BY <1>3 DEF Tick, TickVerify, TickCheckin, TickRefresh, TickOver, World, NextHour,
       SignElsewhere, Show, Crash, TaskDue, PurgeTask, Call, Probe, Steady, db, clock
  <2>2. hour' >= hour /\ hour \in Nat /\ hour' \in Nat
    <3>1. hour \in Nat /\ (hour' = hour \/ hour' = hour + 1)
      BY <1>1, <1>3, Hours DEF Tick, TickVerify, TickCheckin, TickRefresh, TickOver, World,
         NextHour, SignElsewhere, Show, Crash, TaskDue, PurgeTask, Call, Probe, Steady, clock
    <3> QED
      BY <3>1
  <2>3. \A d, h \in Nat : Past(d, h) => Past(d, h)'
    BY <1>1, <2>1, <2>2, PastStays
  <2>4. AttemptsBounded' /\ \A h \in 0..MaxHour : Room(h) => Room(h)'
    BY <1>1, <2>1, QuietRoom DEF Quietly, CountInv
  <2>5. /\ \A n \in 0..MaxHour : n \in Nat
        /\ \A i \in DOMAIN records : records[i].hour \in 0..MaxHour /\ records[i].day \in Nat
        /\ \A t \in Threads : job[t].hour \in 0..MaxHour /\ job[t].day \in Nat
        /\ task # NoTask => task.hour \in 0..MaxHour /\ task.day \in Nat
        /\ \A t \in Threads : Resolving(t) => /\ job[t].task.hour \in 0..MaxHour
                                              /\ job[t].task.day \in Nat
        /\ day \in Nat /\ day >= 1
    BY <1>1, Hours
  <2>6. RowsPast'
    BY <2>1, <2>3, <2>5 DEF CountInv, RowsPast
  <2>7. SameTask
    <3>1. CASE TaskDue
      <4>1. task \in Tasks /\ task' = [task EXCEPT !.due = TRUE]
        BY <1>1, <3>1 DEF TaskDue, TypeOK
      <4> QED
        BY <4>1, <3>1 DEF Tasks, SameTask, TaskDue
    <3>2. CASE PurgeTask
      BY <3>2 DEF PurgeTask, SameTask
    <3>3. CASE ~TaskDue /\ ~PurgeTask
      <4>1. task' = task
        BY <1>3, <3>3 DEF Tick, TickVerify, TickCheckin, TickRefresh, TickOver, World, NextHour,
           SignElsewhere, Show, Crash, Call, Probe, db
      <4> QED
        BY <4>1 DEF SameTask
    <3> QED
      BY <3>1, <3>2, <3>3
  <2>8. TaskCounts'
    BY <2>1, <2>3, <2>4, <2>5, <2>7 DEF CountInv, TaskCounts, SameTask
  <2>9. ASSUME NEW t \in Threads
        PROVE  \/ pc'[t] = pc[t] /\ job'[t] = job[t]
               \/ pc'[t] = "idle"
               \/ Starts(t)
    <3>1. \A op \in Ops : [NoJob EXCEPT !.op = op].op = op /\ [NoJob EXCEPT !.op = op].day = 0
      BY DEF NoJob
    <3>2. CASE World
      BY <1>1, <1>3, <3>2 DEF World, NextHour, SignElsewhere, Show, Crash, TaskDue, PurgeTask, Steady
    <3>3. CASE Tick
      BY <1>1, <3>1, <3>3 DEF Tick, TickVerify, TickCheckin, TickRefresh, TickOver, Goto, Let,
         Starts, Ops, clock
    <3>4. ASSUME NEW w \in Web, Call(w)
          PROVE  (pc'[t] = pc[t] /\ job'[t] = job[t]) \/ Starts(t)
      <4>1. PICK op \in Ops \ {"schedule", "verify"}, l \in {"check", "lock"} :
              /\ pc' = [pc EXCEPT ![w] = l]
              /\ job' = [job EXCEPT ![w] = [NoJob EXCEPT !.op = op]]
        BY <3>4 DEF Call, Goto, Let, Ops
      <4>2. CASE t # w
        BY <1>1, <4>1, <4>2
      <4>3. CASE t = w
        <5>1. pc'[t] = l /\ job'[t].op = op /\ job'[t].day = 0
          BY <1>1, <3>1, <4>1, <4>3
        <5> QED
          BY <4>1, <5>1 DEF Starts
      <4> QED
        BY <4>2, <4>3
    <3>5. ASSUME NEW w \in Web, Probe(w)
          PROVE  (pc'[t] = pc[t] /\ job'[t] = job[t]) \/ Starts(t)
      <4> DEFINE j == [NoJob EXCEPT !.op = "create", !.answer = IF visible THEN "signed" ELSE "open"]
      <4>1. j.op = "create" /\ j.day = 0
        BY DEF NoJob
      <4>2. pc' = [pc EXCEPT ![w] = "insert"] /\ job' = [job EXCEPT ![w] = j]
        BY <3>5 DEF Probe, Goto, Let
      <4> HIDE DEF j
      <4>3. CASE t # w
        BY <1>1, <4>2, <4>3
      <4>4. CASE t = w
        BY <1>1, <4>1, <4>2, <4>4 DEF Starts
      <4> QED
        BY <4>3, <4>4
    <3> QED
      BY <3>2, <3>3, <3>4, <3>5
  <2>10. ASSUME NEW t \in Threads PROVE CountOK(t)'
    <3>1. CASE pc'[t] = pc[t] /\ job'[t] = job[t]
      <4>1. CountOK(t)
        BY DEF CountInv
      <4>2. AloneOK(t)'
        BY <3>1, <4>1 DEF CountOK, AloneOK
      <4>3. PickedOK(t)'
        BY <2>1, <2>2, <2>4, <2>5, <3>1, <4>1 DEF CountOK, PickedOK
      <4>4. Resolving(t)' <=> Resolving(t)
        BY <3>1 DEF Resolving
      <4>5. DueOK(t)'
        BY <2>1, <2>3, <2>4, <2>5, <3>1, <4>1, <4>4 DEF CountOK, DueOK
      <4>6. (pc[t] # "idle" => Past(job[t].day, job[t].hour))'
        BY <2>3, <2>5, <3>1, <4>1 DEF CountOK
      <4> QED
        BY <4>2, <4>3, <4>5, <4>6 DEF CountOK
    <3>2. CASE pc'[t] = "idle"
      BY <3>2, IdleCount
    <3>3. CASE Starts(t)
      <4>1. job'[t].day = 0 /\ day' = day /\ pc'[t] \in {"check", "lock", "insert"}
        BY <2>1, <3>3 DEF Starts
      <4>2. AloneOK(t)' /\ DueOK(t)'
        BY <3>3, <4>1 DEF Starts, AloneOK, DueOK, Resolving
      <4>3. PickedOK(t)'
        <5> SUFFICES ASSUME job'[t].op = "schedule", NEW h \in 0..MaxHour, hour' <= h
                     PROVE  Room(h)'
          BY <2>5, <4>1 DEF PickedOK
        <5>1. Ready /\ hour <= h
          BY <3>3 DEF Starts
        <5> QED
          BY <1>1, <2>4, <5>1, PickRoom
      <4>4. Past(job[t].day, job[t].hour)'
        BY <2>5, <4>1 DEF Past
      <4> QED
        BY <4>2, <4>3, <4>4 DEF CountOK
    <3> QED
      BY <2>9, <3>1, <3>2, <3>3
  <2> QED
    BY <2>4, <2>6, <2>8, <2>10 DEF CountInv
<1> QED
  BY <1>2, <1>3

LEMMA CountStart == Init \/ InitNew => CountInv
<1> SUFFICES ASSUME Init \/ InitNew PROVE CountInv
  OBVIOUS
<1>1. IInv /\ records = <<>> /\ task = NoTask /\ \A t \in Threads : pc[t] = "idle"
  BY Start DEF Init, InitNew, InitRest
<1>2. ASSUME NEW h PROVE Attempts(h) = 0
  <2>1. Counted(h) = {}
    BY <1>1 DEF Counted
  <2> QED
    BY <1>1, <2>1, CountedFinite, FS_EmptySet
<1>3. AttemptsBounded
  BY <1>1, <1>2, Hours DEF AttemptsBounded
<1> QED
  BY <1>1, <1>3 DEF CountInv, RowsPast, TaskCounts, CountOK, PickedOK, DueOK, AloneOK, Resolving,
     Running

LEMMA CountKeeps == AInv /\ CountInv /\ [Next]_vars => CountInv'
<1> SUFFICES ASSUME AInv, CountInv, [Next]_vars PROVE CountInv'
  OBVIOUS
<1>1. ASSUME NEW t \in Threads, ThreadStep(t) PROVE CountInv'
  BY <1>1, AttemptCount, EnterCount, DeferCount, RecordCount, LeaveCount, VerdictCount, CreateCount
  DEF ThreadStep, RunStep
<1>2. CASE Tick \/ World \/ \E w \in Web : Call(w) \/ Probe(w)
  BY <1>2, RestCount
<1>3. CASE UNCHANGED vars
  <2>1. \A t \in Threads : CountOK(t)'
    BY <1>3 DEF vars, CountInv, CountOK, PickedOK, DueOK, AloneOK, Resolving, Past, Room,
       Open, Attempts, SameWindow
  <2> QED
    BY <1>3, <2>1 DEF vars, CountInv, AttemptsBounded, RowsPast, TaskCounts, Past, Room, Open,
       Attempts, SameWindow
<1> QED
  BY <1>1, <1>2, <1>3 DEF Next

\* The scheduler makes no more than MAX_ATTEMPTS_PER_DAY runs in one window,
\* through deferred outcomes, restarts, runs that wait for the lock past an hour
\* or past midnight, and the creation of the account; a window that is moved on
\* the day is not counted.
THEOREM Bounded == (Spec => []AttemptsBounded) /\ (SpecFromCreation => []AttemptsBounded)
<1>1. Init \/ InitNew => AInv /\ CountInv
  BY NewStart, CountStart
<1>2. AInv /\ CountInv /\ [Next]_vars => (AInv /\ CountInv)'
  BY NewKeeps, CountKeeps
<1>3. AInv /\ CountInv => AttemptsBounded
  BY DEF CountInv
<1>4. Spec => []AttemptsBounded
  BY <1>1, <1>2, <1>3, PTL DEF Spec
<1>5. SpecFromCreation => []AttemptsBounded
  BY <1>1, <1>2, <1>3, PTL DEF SpecFromCreation
<1> QED
  BY <1>4, <1>5
=============================================================================
