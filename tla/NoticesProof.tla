---------------------------- MODULE NoticesProof ----------------------------
(***************************************************************************)
(* Proofs about Notices, for any accounts, threads and limits.             *)
(***************************************************************************)
EXTENDS Notices, TLAPS

Holding == {"credRead", "credSend", "credSent", "schedRead", "schedSend", "schedSent"}

\* What an account's rows say of the mails that went out.  The attempts of a
\* row are never fewer than its mails, because they are counted first.
Counted(a) ==
  /\ auth[a] = "fine" => cred[a] = NoRow /\ mails[a] = 0
  /\ auth[a] = "bad_credentials" => cred[a] # NoRow \/ mails[a] > 0
  /\ mails[a] <= MaxAttempts /\ told[a] <= MaxAttempts
  /\ cred[a] # NoRow => mails[a] <= cred[a].attempts
  /\ sched[a] # NoRow => told[a] <= sched[a].attempts

\* A thread inside the lock of its account, and what holds while it sends: one
\* attempt more is counted than mails went out.
Sender(t) ==
  /\ pc[t] \in Holding => lock[at[t]] = t
  /\ pc[t] \in Holding \cup {"credTake", "schedTake"} => at[t] \in Ids
  /\ pc[t] \in {"credSend", "credSent"} => auth[at[t]] = "bad_credentials"
  /\ pc[t] = "credSend" => cred[at[t]] # NoRow /\ mails[at[t]] < cred[at[t]].attempts
  /\ pc[t] = "credSent" => mails[at[t]] > 0
  /\ pc[t] = "schedSend" => sched[at[t]] # NoRow /\ told[at[t]] < sched[at[t]].attempts

NInv == TypeOK /\ (\A a \in Ids : Counted(a)) /\ (\A t \in Threads : Sender(t))

\* The invariant gives the properties.
LEMMA Consequences == NInv => MailsBounded /\ NoMailAfterRecovery /\ FaultReported
BY DEF NInv, Counted, Sender, MailsBounded, NoMailAfterRecovery, FaultReported

\* The rows of the tables.
LEMMA RowFacts ==
  /\ NewRow \in Rows /\ NewRow.attempts = 0
  /\ NoRow \notin Rows
  /\ \A r \in Rows : r.attempts \in 0..MaxAttempts /\ r.due \in (-DueCap)..RetryGap
  /\ \A r \in Rows, g \in 0..RetryGap : r.attempts < MaxAttempts =>
       Tried(r, g) \in Rows /\ Tried(r, g).attempts = r.attempts + 1
  /\ \A r \in Rows : Older(r) \in Rows /\ Older(r).attempts = r.attempts
  /\ Older(NoRow) = NoRow
BY LimitAssumption, DueCapAssumption, NoRowAssumption DEF Rows, NewRow, Tried, Older

\* Two threads never hold the same account.
LEMMA Apart ==
  ASSUME NInv, NEW t \in Threads, NEW u \in Threads, pc[t] \in Holding, pc[u] \in Holding, t # u
  PROVE  at[t] # at[u]
BY DEF NInv, Sender

LEMMA InitNInv == Init => NInv
BY LimitAssumption, NamesAssumption
   DEF Init, NInv, TypeOK, Counted, Sender, PCs, Holding, Threads
-----------------------------------------------------------------------------
\* A rejection touches no account that a thread holds, because it takes its lock.
LEMMA MarkKeeps == ASSUME NInv, NEW t \in Web, NEW a \in Ids, Mark(t, a) PROVE NInv'
<1>1. t \in Threads /\ t # Nobody
  BY NamesAssumption DEF Threads
<1>2. TypeOK'
  BY <1>1, RowFacts, LimitAssumption DEF NInv, TypeOK, Mark, Take, Goto, Let, Write, Change, PCs, history
<1>3. ASSUME NEW b \in Ids PROVE Counted(b)'
  BY RowFacts DEF NInv, TypeOK, Mark, Write, Change, Counted, history
<1>4. ASSUME NEW u \in Threads PROVE Sender(u)'
  <2>1. CASE u = t
    BY <1>1, <2>1 DEF NInv, TypeOK, Mark, Take, Goto, Let, Sender, Holding
  <2>2. CASE u # t
    BY <1>1, <2>2, NamesAssumption
       DEF NInv, TypeOK, Mark, Take, Goto, Let, Write, Change, Sender, Holding, history
  <2> QED
    BY <2>1, <2>2
<1> QED
  BY <1>2, <1>3, <1>4 DEF NInv

\* Changes of a user or of the school need the lock too.
LEMMA ChangesKeep ==
  ASSUME NInv, NEW a \in Ids, Recover(a) \/ Reset(a) \/ Delete(a) PROVE NInv'
<1> USE RowFacts, NamesAssumption DEF Write, history, bounds
<1>1. CASE Recover(a)
  <2>1. TypeOK'
    BY <1>1 DEF NInv, TypeOK, Recover
  <2>2. \A b \in Ids : Counted(b)'
    BY <1>1, LimitAssumption DEF NInv, TypeOK, Recover, Counted
  <2>3. \A u \in Threads : Sender(u)'
    BY <1>1 DEF NInv, TypeOK, Recover, Sender, Holding
  <2> QED
    BY <2>1, <2>2, <2>3 DEF NInv
<1>2. CASE Reset(a)
  <2>1. TypeOK'
    BY <1>2, LimitAssumption DEF NInv, TypeOK, Reset, Change
  <2>2. \A b \in Ids : Counted(b)'
    BY <1>2, LimitAssumption DEF NInv, TypeOK, Reset, Counted
  <2>3. \A u \in Threads : Sender(u)'
    BY <1>2 DEF NInv, TypeOK, Reset, Sender, Holding
  <2> QED
    BY <2>1, <2>2, <2>3 DEF NInv
<1>3. CASE Delete(a)
  <2>1. TypeOK'
    BY <1>3 DEF NInv, TypeOK, Delete
  <2>2. \A b \in Ids : Counted(b)'
    BY <1>3 DEF NInv, TypeOK, Delete, Counted
  <2>3. \A u \in Threads : Sender(u)'
    BY <1>3 DEF NInv, TypeOK, Delete, Sender, Holding
  <2> QED
    BY <2>1, <2>2, <2>3 DEF NInv
<1> QED
  BY <1>1, <1>2, <1>3
-----------------------------------------------------------------------------
\* The tick picks a row without a write.
LEMMA PickKeeps == ASSUME NInv, TickStep PROVE NInv'
<1>1. Sched \in Threads /\ Sched # Nobody
  BY NamesAssumption DEF Threads
<1>2. PICK l \in {"credTake", "schedPick", "schedTake", "idle"}, i \in Ids \cup {NoId} :
        /\ pc[Sched] \in {"idle", "schedPick"} /\ Goto(Sched, l)
        /\ at' = [at EXCEPT ![Sched] = i]
        /\ l \in {"credTake", "schedTake"} => i \in Ids
        /\ ago' \in 0..DueCap
  <2>1. CASE TickCred
    <3>1. CASE Goto(Sched, "schedPick") /\ UNCHANGED at
      BY <1>1, <2>1, <3>1 DEF TickCred, NInv, TypeOK
    <3>2. CASE \E a \in Ids : Goto(Sched, "credTake") /\ Let(Sched, a)
      BY <1>1, <2>1, <3>2 DEF TickCred, NInv, TypeOK, Let
    <3> QED
      BY <2>1, <3>1, <3>2 DEF TickCred
  <2>2. CASE TickSched
    <3>1. CASE Goto(Sched, "idle") /\ UNCHANGED at
      <4>1. pc[Sched] = "schedPick" /\ ago' \in 0..DueCap
        BY <2>2, LimitAssumption DEF TickSched
      <4> QED
        BY <1>1, <3>1, <4>1 DEF NInv, TypeOK
    <3>2. CASE \E a \in Ids : Goto(Sched, "schedTake") /\ Let(Sched, a)
      <4>1. PICK a \in Ids : Goto(Sched, "schedTake") /\ at' = [at EXCEPT ![Sched] = a]
        BY <3>2 DEF Let
      <4>2. pc[Sched] = "schedPick" /\ ago' \in 0..DueCap
        BY <2>2, LimitAssumption DEF TickSched
      <4> QED
        BY <4>1, <4>2
    <3> QED
      BY <2>2, <3>1, <3>2 DEF TickSched
  <2> QED
    BY <2>1, <2>2 DEF TickStep
<1>3. UNCHANGED <<auth, cred, sched, lock, mails, told, crashes, changes>>
  BY DEF TickStep, TickCred, TickSched, tables, history, bounds
<1>4. TypeOK'
  BY <1>1, <1>2, <1>3 DEF NInv, TypeOK, Goto, PCs
<1>5. ASSUME NEW b \in Ids PROVE Counted(b)'
  BY <1>3 DEF NInv, Counted
<1>6. ASSUME NEW u \in Threads PROVE Sender(u)'
  <2>1. CASE u = Sched
    BY <1>1, <1>2, <2>1 DEF NInv, TypeOK, Goto, Sender, Holding
  <2>2. CASE u # Sched
    BY <1>1, <1>2, <1>3, <2>2 DEF NInv, TypeOK, Goto, Sender, Holding
  <2> QED
    BY <2>1, <2>2
<1> QED
  BY <1>4, <1>5, <1>6 DEF NInv

\* It takes the lock of an account that nobody holds.
LEMMA TakeKeeps ==
  ASSUME NInv, NEW t \in Threads, CredTake(t) \/ SchedTake(t) PROVE NInv'
<1>1. t # Nobody /\ at[t] \in Ids
  BY NamesAssumption DEF NInv, Sender, CredTake, SchedTake
<1>2. PICK l \in {"credRead", "schedRead"} : Goto(t, l)
  BY DEF CredTake, SchedTake
<1>3. /\ Take(t, at[t])
      /\ UNCHANGED <<auth, cred, sched, at, ago, mails, told, crashes, changes>>
  BY DEF CredTake, SchedTake, tables, history, bounds
<1>4. TypeOK'
  BY <1>1, <1>2, <1>3 DEF NInv, TypeOK, Take, Goto, PCs
<1>5. ASSUME NEW b \in Ids PROVE Counted(b)'
  BY <1>3 DEF NInv, Counted
<1>6. ASSUME NEW u \in Threads PROVE Sender(u)'
  <2>1. CASE u = t
    BY <1>1, <1>2, <1>3, <2>1 DEF NInv, TypeOK, Take, Goto, Sender, Holding
  <2>2. CASE u # t
    BY <1>1, <1>2, <1>3, <2>2, NamesAssumption DEF NInv, TypeOK, Take, Goto, Sender, Holding
  <2> QED
    BY <2>1, <2>2
<1> QED
  BY <1>4, <1>5, <1>6 DEF NInv

\* What every step of a thread that holds its account does to the other threads.
LEMMA OthersKeep ==
  ASSUME NInv, NEW t \in Threads, pc[t] \in Holding,
         NEW u \in Threads, u # t,
         pc'[u] = pc[u], at'[u] = at[u],
         lock' = lock \/ lock' = [lock EXCEPT ![at[t]] = Nobody],
         \A b \in Ids \ {at[t]} : /\ auth'[b] = auth[b] /\ cred'[b] = cred[b]
                                  /\ sched'[b] = sched[b]
                                  /\ mails'[b] = mails[b] /\ told'[b] = told[b]
  PROVE  Sender(u)'
<1>1. Sender(t) /\ Sender(u)
  BY DEF NInv
<1>2. pc[u] \in Holding => at[u] # at[t] /\ at[u] \in Ids
  BY <1>1, Apart DEF Sender
<1>3. pc[u] \in Holding => at[u] \in Ids \ {at[t]} /\ lock'[at[u]] = lock[at[u]]
  BY <1>2 DEF NInv, TypeOK
<1> QED
  BY <1>1, <1>3 DEF Sender, Holding

\* A step of a thread t on its account keeps the invariant if it does for that
\* account and, when t does not leave, for t.
LEMMA HolderKeeps ==
  ASSUME NInv, NEW t \in Threads, pc[t] \in Holding, TypeOK',
         NEW l, pc' = [pc EXCEPT ![t] = l],
         \/ lock' = lock /\ at' = at /\ Sender(t)'
         \/ /\ l \in {"idle", "schedPick"}
            /\ lock' = [lock EXCEPT ![at[t]] = Nobody] /\ at' = [at EXCEPT ![t] = NoId],
         NEW a \in Ids, a = at[t], Counted(a)',
         \A b \in Ids \ {a} : /\ auth'[b] = auth[b] /\ cred'[b] = cred[b]
                              /\ sched'[b] = sched[b]
                              /\ mails'[b] = mails[b] /\ told'[b] = told[b]
  PROVE  NInv'
<1>1. ASSUME NEW b \in Ids PROVE Counted(b)'
  BY DEF NInv, Counted
<1>2. Sender(t)'
  <2>1. CASE l \in {"idle", "schedPick"}
    BY <2>1 DEF NInv, TypeOK, Sender, Holding
  <2> QED
    BY <2>1
<1>3. ASSUME NEW u \in Threads, u # t PROVE Sender(u)'
  BY <1>3, OthersKeep DEF NInv, TypeOK
<1> QED
  BY <1>1, <1>2, <1>3 DEF NInv

\* The attempt is counted before the mail, or the notice ends with its fault.
LEMMA CredReadKeeps == ASSUME NInv, NEW t \in Threads, CredRead(t) PROVE NInv'
<1> DEFINE a == at[t]
<1>1. pc[t] \in Holding /\ Sender(t) /\ a \in Ids /\ Counted(a)
  BY DEF NInv, CredRead, Sender, Holding
<1>2. UNCHANGED <<auth, sched, ago, mails, told, crashes, changes>>
  BY DEF CredRead, history, bounds
<1>3. CASE CredTry(cred[a]) /\ auth[a] = "bad_credentials"
  <2>1. cred[a] \in Rows /\ cred[a].attempts < MaxAttempts /\ RetryGap \in 0..RetryGap
    BY <1>1, <1>3, LimitAssumption DEF NInv, TypeOK, CredTry
  <2>2. PICK r \in Rows : r.attempts = cred[a].attempts + 1 /\ cred' = [cred EXCEPT ![a] = r]
    BY <1>3, <2>1, RowFacts DEF CredRead, Write
  <2>3. pc' = [pc EXCEPT ![t] = "credSend"] /\ lock' = lock /\ at' = at
    BY <1>3 DEF CredRead, Stay, Goto
  <2>4. TypeOK'
    BY <1>1, <1>2, <2>2, <2>3 DEF NInv, TypeOK, PCs
  <2>5. cred'[a] = r /\ r # NoRow /\ mails[a] \in Nat /\ mails[a] < r.attempts
    BY <1>1, <1>3, <2>1, <2>2, NoRowAssumption, RowFacts DEF NInv, TypeOK, Counted, CredTry
  <2>6. \A b \in Ids : b = a => Counted(b)'
    <3>1. r.attempts \in 0..MaxAttempts /\ auth'[a] = "bad_credentials"
      BY <1>2, <1>3, RowFacts
    <3> QED
      BY <1>1, <1>2, <2>5, <3>1, LimitAssumption DEF Counted
  <2>7. Sender(t)'
    BY <1>1, <1>2, <1>3, <2>3, <2>5 DEF NInv, TypeOK, Sender, Holding
  <2> QED
    BY <1>1, <1>2, <2>2, <2>3, <2>4, <2>6, <2>7, HolderKeeps DEF NInv, TypeOK
<1>4. CASE ~(CredTry(cred[a]) /\ auth[a] = "bad_credentials")
  <2>1. PICK l \in {"idle", "schedPick"} : pc' = [pc EXCEPT ![t] = l]
    BY <1>4 DEF CredRead, Leave, Goto
  <2>2. lock' = [lock EXCEPT ![a] = Nobody] /\ at' = [at EXCEPT ![t] = NoId]
    BY <1>4 DEF CredRead, Leave, Free, Let
  <2>3. \/ cred' = cred
        \/ auth[a] # "bad_credentials" /\ cred' = [cred EXCEPT ![a] = NoRow]
    BY <1>4 DEF CredRead, Write
  <2>4. TypeOK'
    BY <1>1, <1>2, <2>1, <2>2, <2>3 DEF NInv, TypeOK, PCs
  <2>5. \A b \in Ids : b = a => Counted(b)'
    BY <1>1, <1>2, <2>3 DEF NInv, TypeOK, Counted
  <2> QED
    BY <1>1, <1>2, <2>1, <2>2, <2>3, <2>4, <2>5, HolderKeeps DEF NInv, TypeOK
<1> QED
  BY <1>3, <1>4

\* A mail that went out makes up for one attempt.
LEMMA CredSendKeeps == ASSUME NInv, NEW t \in Threads, CredSend(t) PROVE NInv'
<1> DEFINE a == at[t]
<1>1. pc[t] \in Holding /\ Sender(t) /\ a \in Ids /\ Counted(a)
  BY DEF NInv, CredSend, Sender, Holding
<1>2. UNCHANGED <<auth, cred, sched, ago, told, crashes, changes>>
  BY DEF CredSend, tables, bounds
<1>3. /\ auth[a] = "bad_credentials" /\ cred[a] \in Rows /\ mails[a] \in Nat
      /\ cred[a].attempts \in 0..MaxAttempts /\ mails[a] < cred[a].attempts
  BY <1>1, RowFacts DEF NInv, TypeOK, CredSend, Sender
<1>4. mails' \in {mails, [mails EXCEPT ![a] = mails[a] + 1]} /\ mails' \in [Ids -> Nat]
  BY <1>1, <1>3 DEF NInv, TypeOK, CredSend, Write
<1>5. mails'[a] \in Nat /\ mails'[a] <= cred[a].attempts
  BY <1>1, <1>3, <1>4 DEF NInv, TypeOK
<1>6. \A b \in Ids : b = a => Counted(b)'
  BY <1>1, <1>2, <1>3, <1>5, NoRowAssumption, LimitAssumption DEF Counted
<1>7. CASE Stay(t, "credSent") /\ mails' = [mails EXCEPT ![a] = mails[a] + 1]
  <2>1. pc' = [pc EXCEPT ![t] = "credSent"] /\ lock' = lock /\ at' = at
    BY <1>7 DEF Stay, Goto
  <2>2. TypeOK'
    BY <1>1, <1>2, <1>4, <2>1 DEF NInv, TypeOK, PCs
  <2>3. Sender(t)'
    <3>1. mails'[a] > 0
      BY <1>1, <1>3, <1>7 DEF NInv, TypeOK
    <3> QED
      BY <1>1, <1>2, <1>3, <2>1, <3>1 DEF NInv, TypeOK, Sender, Holding
  <2> QED
    BY <1>1, <1>2, <1>4, <1>6, <2>1, <2>2, <2>3, HolderKeeps DEF NInv, TypeOK
<1>8. CASE Leave(t)
  <2>1. PICK l \in {"idle", "schedPick"} : pc' = [pc EXCEPT ![t] = l]
    BY <1>8 DEF Leave, Goto
  <2>2. lock' = [lock EXCEPT ![a] = Nobody] /\ at' = [at EXCEPT ![t] = NoId]
    BY <1>8 DEF Leave, Free, Let
  <2>3. TypeOK'
    BY <1>1, <1>2, <1>4, <2>1, <2>2 DEF NInv, TypeOK, PCs
  <2> QED
    BY <1>1, <1>2, <1>4, <1>6, <2>1, <2>2, <2>3, HolderKeeps DEF NInv, TypeOK
<1>9. \/ Stay(t, "credSent") /\ mails' = [mails EXCEPT ![a] = mails[a] + 1]
      \/ Leave(t)
  BY DEF CredSend, Write
<1> QED
  BY <1>7, <1>8, <1>9

\* The mail went out: the row goes.
LEMMA CredSentKeeps == ASSUME NInv, NEW t \in Threads, CredSent(t) PROVE NInv'
<1> DEFINE a == at[t]
<1>1. pc[t] \in Holding /\ Sender(t) /\ a \in Ids /\ Counted(a)
  BY DEF NInv, CredSent, Sender, Holding
<1>2. UNCHANGED <<auth, sched, ago, mails, told, crashes, changes>>
  BY DEF CredSent, history, bounds
<1>3. PICK l \in {"idle", "schedPick"} : pc' = [pc EXCEPT ![t] = l]
  BY DEF CredSent, Leave, Goto
<1>4. /\ lock' = [lock EXCEPT ![a] = Nobody] /\ at' = [at EXCEPT ![t] = NoId]
      /\ cred' = [cred EXCEPT ![a] = NoRow]
  BY DEF CredSent, Leave, Free, Let, Write
<1>5. TypeOK'
  BY <1>1, <1>2, <1>3, <1>4 DEF NInv, TypeOK, PCs
<1>6. \A b \in Ids : b = a => Counted(b)'
  BY <1>1, <1>2, <1>4 DEF NInv, TypeOK, CredSent, Counted, Sender
<1> QED
  BY <1>1, <1>2, <1>3, <1>4, <1>5, <1>6, HolderKeeps DEF NInv, TypeOK
-----------------------------------------------------------------------------
\* The same for schedule notices, which also end when their attempts are used up.
LEMMA SchedReadKeeps == ASSUME NInv, NEW t \in Threads, SchedRead(t) PROVE NInv'
<1> DEFINE a == at[t]
<1>1. pc[t] \in Holding /\ Sender(t) /\ a \in Ids /\ Counted(a)
  BY DEF NInv, SchedRead, Sender, Holding
<1>2. UNCHANGED <<auth, cred, mails, told, crashes, changes>> /\ ago' \in 0..DueCap
  BY LimitAssumption DEF SchedRead, history, bounds
<1>3. CASE sched[a] # NoRow /\ ~Exhausted(sched[a]) /\ sched[a].due + ago <= 0
  <2>1. sched[a] \in Rows /\ sched[a].attempts < MaxAttempts /\ RetryGap - ago \in 0..RetryGap
    BY <1>1, <1>3, RowFacts, LimitAssumption, DueCapAssumption DEF NInv, TypeOK, Exhausted
  <2>2. PICK r \in Rows : r.attempts = sched[a].attempts + 1 /\ sched' = [sched EXCEPT ![a] = r]
    <3>1. sched' = [sched EXCEPT ![a] = Tried(sched[a], RetryGap - ago)]
      BY <1>1, <1>3, <2>1, RowFacts DEF SchedRead, Write, NInv, TypeOK
    <3> QED
      BY <2>1, <3>1, RowFacts
  <2>3. pc' = [pc EXCEPT ![t] = "schedSend"] /\ lock' = lock /\ at' = at
    BY <1>1, <1>3, <2>1, RowFacts DEF SchedRead, Stay, Goto, NInv, TypeOK
  <2>4. TypeOK'
    BY <1>1, <1>2, <2>2, <2>3 DEF NInv, TypeOK, PCs
  <2>5. sched'[a] = r /\ r # NoRow /\ told[a] \in Nat /\ told[a] < r.attempts
    BY <1>1, <1>3, <2>1, <2>2, NoRowAssumption, RowFacts DEF NInv, TypeOK, Counted
  <2>6. \A b \in Ids : b = a => Counted(b)'
    <3>1. r.attempts \in 0..MaxAttempts
      BY RowFacts
    <3> QED
      BY <1>1, <1>2, <2>5, <3>1, LimitAssumption DEF Counted
  <2>7. Sender(t)'
    BY <1>1, <1>2, <2>3, <2>5 DEF NInv, TypeOK, Sender, Holding
  <2> QED
    BY <1>1, <1>2, <2>2, <2>3, <2>4, <2>6, <2>7, HolderKeeps DEF NInv, TypeOK
<1>4. CASE ~(sched[a] # NoRow /\ ~Exhausted(sched[a]) /\ sched[a].due + ago <= 0)
  <2>1. SchedEnd(t) /\ (sched' = sched \/ sched' = [sched EXCEPT ![a] = NoRow])
    BY <1>4 DEF SchedRead, Write
  <2>2. /\ pc' = [pc EXCEPT ![t] = "idle"]
        /\ lock' = [lock EXCEPT ![a] = Nobody] /\ at' = [at EXCEPT ![t] = NoId]
    BY <2>1 DEF SchedEnd, Goto, Free, Let
  <2>3. TypeOK'
    BY <1>1, <1>2, <2>1, <2>2 DEF NInv, TypeOK, PCs
  <2>4. \A b \in Ids : b = a => Counted(b)'
    BY <1>1, <1>2, <2>1 DEF NInv, TypeOK, Counted
  <2> QED
    BY <1>1, <1>2, <2>1, <2>2, <2>3, <2>4, HolderKeeps DEF NInv, TypeOK
<1> QED
  BY <1>3, <1>4

LEMMA SchedSendKeeps == ASSUME NInv, NEW t \in Threads, SchedSend(t) PROVE NInv'
<1> DEFINE a == at[t]
<1>1. pc[t] \in Holding /\ Sender(t) /\ a \in Ids /\ Counted(a)
  BY DEF NInv, SchedSend, Sender, Holding
<1>2. UNCHANGED <<auth, cred, sched, ago, mails, crashes, changes>>
  BY DEF SchedSend, tables, bounds
<1>3. /\ sched[a] \in Rows /\ told[a] \in Nat
      /\ sched[a].attempts \in 0..MaxAttempts /\ told[a] < sched[a].attempts
  BY <1>1, RowFacts DEF NInv, TypeOK, SchedSend, Sender
<1>4. told' \in {told, [told EXCEPT ![a] = told[a] + 1]} /\ told' \in [Ids -> Nat]
  BY <1>1, <1>3 DEF NInv, TypeOK, SchedSend, Write
<1>5. told'[a] \in Nat /\ told'[a] <= sched[a].attempts
  BY <1>1, <1>3, <1>4 DEF NInv, TypeOK
<1>6. \A b \in Ids : b = a => Counted(b)'
  BY <1>1, <1>2, <1>3, <1>5, NoRowAssumption, LimitAssumption DEF Counted
<1>7. CASE Stay(t, "schedSent")
  <2>1. pc' = [pc EXCEPT ![t] = "schedSent"] /\ lock' = lock /\ at' = at
    BY <1>7 DEF Stay, Goto
  <2>2. TypeOK'
    BY <1>1, <1>2, <1>4, <2>1 DEF NInv, TypeOK, PCs
  <2>3. Sender(t)'
    BY <1>1, <1>2, <2>1 DEF NInv, TypeOK, Sender, Holding
  <2> QED
    BY <1>1, <1>2, <1>4, <1>6, <2>1, <2>2, <2>3, HolderKeeps DEF NInv, TypeOK
<1>8. CASE SchedEnd(t)
  <2>1. /\ pc' = [pc EXCEPT ![t] = "idle"]
        /\ lock' = [lock EXCEPT ![a] = Nobody] /\ at' = [at EXCEPT ![t] = NoId]
    BY <1>8 DEF SchedEnd, Goto, Free, Let
  <2>2. TypeOK'
    BY <1>1, <1>2, <1>4, <2>1 DEF NInv, TypeOK, PCs
  <2> QED
    BY <1>1, <1>2, <1>4, <1>6, <2>1, <2>2, HolderKeeps DEF NInv, TypeOK
<1>9. Stay(t, "schedSent") \/ SchedEnd(t)
  BY DEF SchedSend
<1> QED
  BY <1>7, <1>8, <1>9

LEMMA SchedSentKeeps == ASSUME NInv, NEW t \in Threads, SchedSent(t) PROVE NInv'
<1> DEFINE a == at[t]
<1>1. pc[t] \in Holding /\ Sender(t) /\ a \in Ids /\ Counted(a)
  BY DEF NInv, SchedSent, Sender, Holding
<1>2. UNCHANGED <<auth, cred, ago, mails, told, crashes, changes>>
  BY DEF SchedSent, history, bounds
<1>3. /\ pc' = [pc EXCEPT ![t] = "idle"]
      /\ lock' = [lock EXCEPT ![a] = Nobody] /\ at' = [at EXCEPT ![t] = NoId]
      /\ sched' = [sched EXCEPT ![a] = NoRow]
  BY DEF SchedSent, SchedEnd, Goto, Free, Let, Write
<1>4. TypeOK'
  BY <1>1, <1>2, <1>3 DEF NInv, TypeOK, PCs
<1>5. \A b \in Ids : b = a => Counted(b)'
  BY <1>1, <1>2, <1>3 DEF NInv, TypeOK, Counted
<1> QED
  BY <1>1, <1>2, <1>3, <1>4, <1>5, HolderKeeps DEF NInv, TypeOK
-----------------------------------------------------------------------------
\* Time and restarts.
LEMMA WorldKeeps == ASSUME NInv, Pass \/ Crash \/ UNCHANGED vars PROVE NInv'
<1>1. CASE Pass
  <2>1. /\ \A b \in Ids : cred'[b] = Older(cred[b]) /\ sched'[b] = Older(sched[b])
        /\ UNCHANGED <<auth, lock, pc, at, mails, told, crashes, changes>>
    BY <1>1 DEF Pass, history, bounds
  <2>2. \A r \in Rows \cup {NoRow} :
          /\ Older(r) \in Rows \cup {NoRow} /\ (Older(r) = NoRow <=> r = NoRow)
          /\ r # NoRow => Older(r).attempts = r.attempts
    BY RowFacts
  <2>3. TypeOK'
    <3>1. cred' \in [Ids -> Rows \cup {NoRow}] /\ sched' \in [Ids -> Rows \cup {NoRow}]
      BY <1>1, <2>2 DEF Pass, NInv, TypeOK
    <3>2. ago' \in 0..DueCap
      BY <1>1, LimitAssumption DEF Pass, NInv, TypeOK
    <3> QED
      BY <2>1, <3>1, <3>2 DEF NInv, TypeOK
  <2>4. \A b \in Ids : Counted(b)'
    BY <2>1, <2>2 DEF NInv, TypeOK, Counted
  <2>5. \A u \in Threads : Sender(u)'
    BY <2>1, <2>2 DEF NInv, TypeOK, Sender, Holding
  <2> QED
    BY <2>3, <2>4, <2>5 DEF NInv
<1>2. CASE Crash
  <2>1. TypeOK'
    BY <1>2, LimitAssumption DEF Crash, NInv, TypeOK, PCs, tables, history
  <2>2. \A b \in Ids : Counted(b)'
    BY <1>2 DEF Crash, NInv, Counted, tables, history
  <2>3. \A u \in Threads : Sender(u)'
    BY <1>2 DEF Crash, Sender, Holding
  <2> QED
    BY <2>1, <2>2, <2>3 DEF NInv
<1>3. CASE UNCHANGED vars
  BY <1>3 DEF vars, NInv, TypeOK, Counted, Sender
<1> QED
  BY <1>1, <1>2, <1>3

\* NInv is an invariant of the specification.
THEOREM Invariance == Spec => []NInv
<1>1. NInv /\ [Next]_vars => NInv'
  <2> SUFFICES ASSUME NInv, [Next]_vars PROVE NInv'
    OBVIOUS
  <2>1. Sched \in Threads
    BY DEF Threads
  <2>2. CASE (\E w \in Web, a \in Ids : Mark(w, a)) \/ (\E a \in Ids : Recover(a) \/ Reset(a) \/ Delete(a))
    BY <2>2, MarkKeeps, ChangesKeep
  <2>3. CASE TickStep \/ CredTake(Sched) \/ SchedTake(Sched)
    BY <2>1, <2>3, PickKeeps, TakeKeeps
  <2>4. CASE \E t \in Threads : Sending(t)
    BY <2>4, CredReadKeeps, CredSendKeeps, CredSentKeeps,
       SchedReadKeeps, SchedSendKeeps, SchedSentKeeps DEF Sending
  <2>5. CASE Pass \/ Crash \/ UNCHANGED vars
    BY <2>5, WorldKeeps
  <2> QED
    BY <2>2, <2>3, <2>4, <2>5 DEF Next
<1> QED
  BY InitNInv, <1>1, PTL DEF Spec

\* The tables, the locks and the threads' places always have their types: the
\* attempts of a row never exceed MAX_NOTICE_ATTEMPTS.
THEOREM TypeCorrect == Spec => []TypeOK
<1>1. NInv => TypeOK
  BY DEF NInv
<1> QED
  BY Invariance, <1>1, PTL

\* At most MAX_NOTICE_ATTEMPTS mails tell of one fault or of one cancelled start
\* time, wherever the process ends.
THEOREM Bounded == Spec => []MailsBounded
BY Invariance, Consequences, PTL

\* No credential mail is sent for an account whose fault is over.
THEOREM RecoveredQuiet == Spec => []NoMailAfterRecovery
BY Invariance, Consequences, PTL

\* A fault that lasts is queued or was reported.
THEOREM Reported == Spec => []FaultReported
BY Invariance, Consequences, PTL
=============================================================================
