---------------------------- MODULE AccountsProof ----------------------------
(***************************************************************************)
(* Proofs about Accounts and Windows, for any numbers of users, students   *)
(* and threads, any day and any windows.  The inductive invariant IInv     *)
(* says which keys a thread holds, and what it still knows, at each place  *)
(* of its operation.                                                       *)
(***************************************************************************)
EXTENDS Accounts, FiniteSetTheorems, TLAPS

Mine(u) == {i \in Existing : rows[i].user = u}

\* At a place a thread holds keys of these kinds at most.
Kinds(t, K) == \A k \in LockKeys : owner[k] = t => k[1] \in K
Below(k) == CASE k[1] = "add" -> {} [] k[1] = "account" -> {"add"} [] OTHER -> {"add", "account"}
HeldKinds(t) ==
  /\ pc[t] = "idle" => Kinds(t, {})
  /\ pc[t] = "enter" => Kinds(t, Below(want[t]))
  /\ pc[t] = "look" => Kinds(t, {"add"})
  /\ pc[t] \in {"account", "taken", "insert", "save"} => Kinds(t, {"add", "account"})
  /\ pc[t] = "login" => Kinds(t, {"add", "account", "gate"})

\* With the row read again, and before it.
Working(t) ==
  \/ pc[t] = "save"
  \/ id[t] # 0 /\ (pc[t] = "login" \/ (pc[t] = "enter" /\ want[t][1] \in {"gate", "notice"}))
Creating(t) ==
  \/ pc[t] \in {"taken", "insert"}
  \/ id[t] = 0 /\ (pc[t] = "login" \/ (pc[t] = "enter" /\ want[t][1] \in {"gate", "notice"}))
Begun(t) == pc[t] = "look" \/ (pc[t] = "enter" /\ want[t][1] = "add")

Known(t) ==
  /\ Working(t) \/ pc[t] = "account" => id[t] \in Ids /\ owner[AccountKey(id[t])] = t
  /\ Working(t) => rows[id[t]] # NoRow /\ account[t] # NoRow
  /\ pc[t] = "enter" /\ want[t][1] = "account" => id[t] \in Ids /\ want[t] = AccountKey(id[t])
  /\ pc[t] = "idle" \/ Begun(t) \/ pc[t] \in {"taken", "insert"} => id[t] = 0
  /\ Begun(t) \/ Creating(t) => user[t] \in Users /\ student[t] \in Students
  /\ pc[t] = "enter" /\ want[t][1] = "add" => want[t] = AddKey(user[t])
  /\ pc[t] = "look" \/ Creating(t) => owner[AddKey(user[t])] = t
  /\ Creating(t) => Cardinality(Mine(user[t])) < MaxAccounts
  /\ pc[t] = "insert" => ~NotBeforeError(found[t], NewOwn(t))

Legal(a) == a # NoRow => ~NotBeforeError(a.window, a.own)

IInv ==
  /\ TypeOK /\ OneAccountPerStudent /\ QuotaKept
  /\ \A t \in Threads : HeldKinds(t) /\ Known(t) /\ Legal(account[t])
  /\ \A i \in Ids : Legal(rows[i])
-----------------------------------------------------------------------------
(* Times of day. *)

\* The two ways to count differ in the last minute of a window, and in a window that ends
\* when it begins.
LEMMA AgreeAlways ==
  ASSUME NEW w \in WindowTypes \cup {NoWindow}, NEW start \in Minutes \cup {NoTime}
  PROVE  Agree(w, start)
<1> DEFINE pending(now) == PageState(w, start, Minute(now)) = "inside"
<1> SUFFICES ASSUME NEW now \in Moments
             PROVE  IF w # NoWindow /\ w.from = w.to
                    THEN pending(now) <=> Due(w, start, now) /\ Minute(now) = w.to
                    ELSE Due(w, start, now)
                           <=> pending(now) /\ (w # NoWindow /\ Minute(now) = w.to => now = 2 * w.to)
  BY DEF Agree
<1>1. Minute(now) \in Int /\ 2 * Minute(now) <= now /\ now <= 2 * Minute(now) + 1 /\ now < 2 * Day
  BY DayAssumption DEF Minute, Moments
<1>2. now \in Int /\ 0 <= now /\ Day \in Int /\ CheckinStart \in Int
  BY DayAssumption DEF Moments, Minutes
<1>3. CASE w = NoWindow
  BY <1>1, <1>2, <1>3 DEF Due, PageState, Bounds, DailyBounds, BeforeOwn
<1>4. CASE w \in WindowTypes
  <2>1. w # NoWindow /\ w.from \in Int /\ w.to \in Int /\ 0 <= w.from /\ w.from < Day
        /\ 0 <= w.to /\ w.to < Day
    BY <1>4, NoTimeAssumption, DayAssumption DEF WindowTypes, Minutes
  <2> HIDE DEF Minute
  <2>2. CASE w.from < w.to
    BY <1>1, <1>2, <2>1, <2>2 DEF Due, PageState, Bounds, WindowBounds
  <2>3. CASE w.to < w.from
    BY <1>1, <1>2, <2>1, <2>3 DEF Due, PageState, Bounds, WindowBounds
  <2>4. CASE w.from = w.to
    BY <1>1, <1>2, <2>1, <2>4 DEF Due, PageState, Bounds, WindowBounds
  <2> QED BY <2>1, <2>2, <2>3, <2>4
<1> QED BY <1>3, <1>4

\* A start time that not_before_error accepts leaves a minute: the one it names, or the one
\* in which the window is open anyway, or the first of a window that begins after it.
LEMMA LegalLeavesTime ==
  ASSUME NEW w \in WindowTypes \cup {NoWindow}, NEW start \in Minutes \cup {NoTime},
         ~NotBeforeError(w, start)
  PROVE  LeavesTime(w, start)
<1> SUFFICES ASSUME NEW m \in Minutes, DueThroughout(w, NoTime, m)
             PROVE  IF AtEnd(w, start) THEN \A now \in Moments : Due(w, start, now) <=> now = 2 * w.to
                    ELSE \E n \in Minutes : DueThroughout(w, start, n)
  BY DEF LeavesTime
<1>1. /\ Day \in Int /\ CheckinStart \in Int /\ m \in Int /\ 0 <= m /\ m < Day
      /\ \A n \in Int : Minute(2 * n) = n /\ Minute(2 * n + 1) = n
  BY DayAssumption DEF Minutes, Minute
<1>2. /\ CheckinStart <= m /\ Bounds(w, 2 * m).from <= 2 * m /\ 2 * m + 1 <= Bounds(w, 2 * m + 1).to
      /\ 2 * m <= Bounds(w, 2 * m).to
  <2>1. Due(w, NoTime, 2 * m) /\ Due(w, NoTime, 2 * m + 1)
    BY DEF DueThroughout
  <2> HIDE DEF Minute
  <2> QED BY <1>1, <2>1 DEF Due
<1>3. w \in WindowTypes => /\ w # NoWindow /\ w.from \in Int /\ w.to \in Int /\ 0 <= w.from
                           /\ w.from < Day /\ 0 <= w.to /\ w.to < Day
  BY NoTimeAssumption, DayAssumption DEF WindowTypes, Minutes
<1>4. start \in Minutes => start # NoTime /\ start \in Int /\ 0 <= start /\ start < Day
  BY NoTimeAssumption, DayAssumption DEF Minutes
<1>5. CASE AtEnd(w, start)
  <2>1. w \in WindowTypes /\ start = w.to /\ start \in Minutes /\ w.from < w.to /\ w # NoWindow
    BY <1>3, <1>5, NoTimeAssumption DEF AtEnd, WindowTypes
  <2>2. m < w.to
    BY <1>1, <1>2, <1>3, <2>1 DEF Bounds, WindowBounds
  <2>3. ASSUME NEW now \in Moments PROVE Due(w, start, now) <=> now = 2 * w.to
    <3>1. /\ now \in Int /\ Minute(now) \in Int
          /\ 2 * Minute(now) <= now /\ now <= 2 * Minute(now) + 1
      BY DayAssumption DEF Minute, Moments
    <3>2. Bounds(w, now).from = 2 * w.from /\ Bounds(w, now).to = 2 * w.to
      BY <1>3, <2>1 DEF Bounds, WindowBounds
    <3>3. CASE now = 2 * w.to
      <4>1. Minute(now) = w.to
        BY <1>1, <1>3, <2>1, <3>3
      <4> QED BY <1>1, <1>2, <1>3, <2>1, <2>2, <3>2, <3>3, <4>1 DEF Due, BeforeOwn
    <3>4. CASE Due(w, start, now)
      <4>1. ~(Minute(now) < w.to) /\ now <= 2 * w.to
        BY <1>4, <2>1, <3>2, <3>4 DEF Due, BeforeOwn
      <4>2. w.to \in Int /\ Minute(now) >= w.to
        BY <1>3, <2>1, <3>1, <4>1
      <4> QED BY <3>1, <3>4, <4>1, <4>2
    <3> QED BY <3>3, <3>4
  <2> QED BY <1>5, <2>3
<1>6. CASE ~AtEnd(w, start) /\ (start = NoTime \/ start <= m)
  <2>1. DueThroughout(w, start, m)
    BY <1>1, <1>6 DEF DueThroughout, Due, BeforeOwn
  <2> QED BY <1>6, <2>1
<1>7. CASE ~AtEnd(w, start) /\ start \in Minutes /\ m < start
  <2>1. CASE w = NoWindow
    <3>1. DueThroughout(w, start, start)
      BY <1>1, <1>2, <1>4, <1>7, <2>1 DEF DueThroughout, Due, BeforeOwn, Bounds, DailyBounds
    <3> QED BY <1>7, <3>1
  <2>2. CASE w \in WindowTypes /\ ~(start = w.to /\ w.to < w.from)
    <3>1. DueThroughout(w, start, start)
      <4> HIDE DEF Minute
      <4>1. Bounds(w, 2 * start).from <= 2 * start /\ 2 * start <= Bounds(w, 2 * start).to
        BY <1>1, <1>2, <1>3, <1>4, <1>7, <2>2 DEF Bounds, WindowBounds, NotBeforeError, AtEnd
      <4>2. /\ Bounds(w, 2 * start + 1).from <= 2 * start + 1
            /\ 2 * start + 1 <= Bounds(w, 2 * start + 1).to
        BY <1>1, <1>2, <1>3, <1>4, <1>7, <2>2 DEF Bounds, WindowBounds, NotBeforeError, AtEnd
      <4> QED BY <1>1, <1>2, <1>4, <1>7, <4>1, <4>2 DEF DueThroughout, Due, BeforeOwn
    <3> QED BY <1>7, <3>1
  <2>3. CASE w \in WindowTypes /\ start = w.to /\ w.to < w.from
    <3>1. DueThroughout(w, start, w.from)
      BY <1>1, <1>2, <1>3, <1>4, <1>7, <2>3
      DEF DueThroughout, Due, BeforeOwn, Bounds, WindowBounds
    <3>2. w.from \in Minutes
      BY <2>3 DEF WindowTypes
    <3> QED BY <1>7, <3>1, <3>2
  <2> QED BY <2>1, <2>2, <2>3
<1>8. start = NoTime \/ start <= m \/ (start \in Minutes /\ m < start)
  BY <1>1, <1>4
<1> QED BY <1>5, <1>6, <1>7, <1>8
-----------------------------------------------------------------------------
(* Keys. *)

\* A key tells what it is the key of.
LEMMA KeyFacts ==
  /\ \A u : AddKey(u)[1] = "add"
  /\ \A i : AccountKey(i)[1] = "account"
  /\ \A i : NoticeKey(i)[1] = "notice"
  /\ Gate[1] = "gate"
  /\ \A i, j : AccountKey(i) = AccountKey(j) => i = j
  /\ \A u \in Users : AddKey(u) \in LockKeys
  /\ \A i \in Ids : AccountKey(i) \in LockKeys /\ NoticeKey(i) \in LockKeys
  /\ Gate \in LockKeys
  /\ \A k \in LockKeys : k[1] \in {"add", "account", "notice", "gate"}
  /\ \A k \in LockKeys : k[1] = "gate" => k = Gate
BY DEF AddKey, AccountKey, NoticeKey, Gate, LockKeys

\* A user has finitely many accounts.
LEMMA MineFacts ==
  ASSUME TypeOK
  PROVE  /\ Existing \subseteq Ids
         /\ \A u : IsFiniteSet(Mine(u)) /\ Cardinality(Mine(u)) \in Nat
<1>1. IsFiniteSet(Ids)
  BY AccountAssumption, FS_Interval DEF Ids
<1>2. \A u : Mine(u) \subseteq Ids
  BY DEF Mine, Existing
<1> QED BY <1>1, <1>2, FS_Subset, FS_CardinalityType DEF Existing

\* What the others see of a step of t.
Same(s) ==
  /\ pc'[s] = pc[s] /\ want'[s] = want[s] /\ user'[s] = user[s] /\ student'[s] = student[s]
  /\ id'[s] = id[s] /\ own'[s] = own[s] /\ account'[s] = account[s] /\ found'[s] = found[s]
  /\ \A k \in LockKeys : (owner'[k] = s) <=> (owner[k] = s)

\* A step of t changes nothing that belongs to another thread.
LEMMA OthersSame ==
  ASSUME TypeOK, NEW t \in Threads, Ask1(t) \/ Work(t), NEW s \in Threads, s # t
  PROVE  Same(s)
<1> USE DEF TypeOK, Same, Lock!OwnerOK
<1> NoThread \notin Threads
  BY AccountAssumption
<1>1. ASSUME NEW u \in Users, NEW x \in Students, NEW o \in OwnTimes \cup {NoTime, Kept}, AskCreate(t, u, x, o)
      PROVE  Same(s)
  BY <1>1 DEF AskCreate, Ask, Wait
<1>2. ASSUME NEW i \in Existing, NEW o \in OwnTimes \cup {NoTime, Kept}, AskUpdate(t, i, o)
      PROVE  Same(s)
  BY <1>2 DEF AskUpdate, Ask, Wait
<1>3. ASSUME NEW i \in Existing, NEW o \in {"delete", "run", "notice"}, AskOther(t, i, o)
      PROVE  Same(s)
  BY <1>3 DEF AskOther, Ask, Wait
<1>4. CASE Enter(t)
  BY <1>4 DEF Enter, Lock!Take, payload, local
<1>5. CASE Look(t)
  BY <1>5 DEF Look, Wait, Goto, payload
<1>6. CASE Reread(t)
  BY <1>6 DEF Reread, Wait, Goto, payload
<1>7. CASE Login(t)
  BY <1>7 DEF Login, Wait, Goto, payload, Lock!Give
<1>8. CASE Taken(t)
  BY <1>8 DEF Taken, Goto, payload, local
<1>9. CASE Insert(t)
  BY <1>9 DEF Insert, Goto, payload, local
<1>10. CASE Save(t)
  BY <1>10 DEF Save, Goto, payload, local
<1>11. CASE Mail(t)
  BY <1>11 DEF Mail, Goto, payload, local
<1>12. CASE Leave(t)
  BY <1>12 DEF Leave, payload, local, Lock!Give
<1> QED BY <1>1, <1>2, <1>3, <1>4, <1>5, <1>6, <1>7, <1>8, <1>9, <1>10, <1>11, <1>12
        DEF Ask1, Work

\* The rows whose locks s holds stay, and no user gets one whose add lock it holds.
Untouched(s) ==
  /\ \A i \in Ids : owner[AccountKey(i)] = s /\ rows[i] # NoRow => rows'[i] # NoRow
  /\ \A u \in Users : owner[AddKey(u)] = s =>
        Cardinality(Mine(u)') \in Nat /\ Cardinality(Mine(u)') <= Cardinality(Mine(u))

\* A step of t takes nothing from what another thread knows.
LEMMA OthersKept ==
  ASSUME IInv, NEW t \in Threads, NEW s \in Threads, s # t, Same(s), Untouched(s)
  PROVE  HeldKinds(s)' /\ Known(s)' /\ Legal(account[s])'
<1>1. HeldKinds(s)'
  BY DEF IInv, HeldKinds, Kinds, Below, Same
<1>2. Working(s)' = Working(s) /\ Creating(s)' = Creating(s) /\ Begun(s)' = Begun(s)
  BY DEF Same, Working, Creating, Begun
<1>3. \A u \in Users : Cardinality(Mine(u)) \in Nat
  BY MineFacts DEF IInv
<1>4. Known(s)'
  <2>0. Known(s)
    BY DEF IInv
  <2>1. (Working(s) \/ pc[s] = "account" => id[s] \in Ids /\ owner[AccountKey(id[s])] = s)'
    BY <1>2, <2>0, KeyFacts DEF Known, Same
  <2>2. (Working(s) => rows[id[s]] # NoRow /\ account[s] # NoRow)'
    BY <1>2, <2>0 DEF Known, Same, Untouched
  <2>3. (Creating(s) => Cardinality(Mine(user[s])) < MaxAccounts)'
    <3> SUFFICES ASSUME Creating(s)
                 PROVE  Cardinality(Mine(user[s])') < MaxAccounts
      BY <1>2
    <3>1. PICK u \in Users : u = user[s]
      BY <2>0 DEF Known
    <3>2. owner[AddKey(u)] = s /\ Cardinality(Mine(u)) < MaxAccounts
      BY <2>0, <3>1 DEF Known
    <3>3. Mine(user[s])' = Mine(u)'
      BY <3>1 DEF Same, Mine, Existing
    <3>4. Cardinality(Mine(u)') \in Nat /\ Cardinality(Mine(u)') <= Cardinality(Mine(u))
      BY <3>1, <3>2 DEF Untouched
    <3> QED BY <1>3, <3>1, <3>2, <3>3, <3>4, AccountAssumption
  <2>4. (pc[s] = "look" \/ Creating(s) => owner[AddKey(user[s])] = s)'
    <3> SUFFICES ASSUME pc[s] = "look" \/ Creating(s)
                 PROVE  owner'[AddKey(user'[s])] = s
      BY <1>2 DEF Same
    <3>1. user[s] \in Users /\ owner[AddKey(user[s])] = s
      BY <2>0 DEF Known, Begun
    <3>2. user'[s] = user[s] /\ AddKey(user[s]) \in LockKeys
      BY <3>1, KeyFacts DEF Same
    <3> QED BY <3>1, <3>2 DEF Same
  <2>5. (pc[s] = "insert" => ~NotBeforeError(found[s], NewOwn(s)))'
    BY <2>0 DEF Known, Same, NewOwn
  <2>6. (pc[s] = "enter" /\ want[s][1] = "account" => id[s] \in Ids /\ want[s] = AccountKey(id[s]))'
    BY <2>0 DEF Known, Same
  <2>7. /\ (pc[s] = "idle" \/ Begun(s) \/ pc[s] \in {"taken", "insert"} => id[s] = 0)'
        /\ (Begun(s) \/ Creating(s) => user[s] \in Users /\ student[s] \in Students)'
        /\ (pc[s] = "enter" /\ want[s][1] = "add" => want[s] = AddKey(user[s]))'
    BY <1>2, <2>0 DEF Known, Same
  <2> QED BY <2>1, <2>2, <2>3, <2>4, <2>5, <2>6, <2>7 DEF Known
<1> QED BY <1>1, <1>4 DEF IInv, Legal, Same

TableOK == OneAccountPerStudent /\ QuotaKept /\ \A i \in Ids : Legal(rows[i])
Own(t) == HeldKinds(t) /\ Known(t) /\ Legal(account[t])

\* Most steps leave the table alone.
LEMMA TableSame ==
  ASSUME IInv, rows' = rows
  PROVE  TableOK' /\ \A s \in Threads : Untouched(s)
<1>1. TableOK'
  BY DEF IInv, TableOK, OneAccountPerStudent, QuotaKept, Existing, Legal
<1>2. \A u : Mine(u)' = Mine(u)
  BY DEF Mine, Existing
<1>3. \A u : Cardinality(Mine(u)) \in Nat
  BY MineFacts DEF IInv
<1> QED BY <1>1, <1>2, <1>3 DEF Untouched
-----------------------------------------------------------------------------
(* The steps of t. *)

\* An operation begins with the wait for its first key, by a thread that holds none.
LEMMA AskStep ==
  ASSUME IInv, NEW t \in Threads, Ask1(t)
  PROVE  TypeOK' /\ Own(t)' /\ rows' = rows
<1> USE KeyFacts, AccountAssumption
<1>0. TypeOK /\ HeldKinds(t) /\ Known(t) /\ Legal(account[t]) /\ Existing \subseteq Ids
  BY MineFacts DEF IInv
<1>1. ASSUME NEW u \in Users, NEW x \in Students, NEW o \in OwnTimes \cup {NoTime, Kept},
             AskCreate(t, u, x, o)
      PROVE  TypeOK' /\ Own(t)' /\ rows' = rows
  <2>1. TypeOK'
    BY <1>0, <1>1 DEF AskCreate, Ask, Wait, table, TypeOK, Ops, PCs, Lock!OwnerOK
  <2>2. HeldKinds(t)'
    BY <1>0, <1>1 DEF AskCreate, Ask, Wait, TypeOK, HeldKinds, Kinds, Below
  <2>3. Known(t)'
    BY <1>0, <1>1 DEF AskCreate, Ask, Wait, TypeOK, Known, Working, Creating, Begun
  <2>4. Legal(account[t])'
    BY <1>0, <1>1 DEF AskCreate, Ask, Legal
  <2> QED BY <1>1, <2>1, <2>2, <2>3, <2>4 DEF Own, AskCreate, Ask, table
<1>2. ASSUME NEW i \in Existing, NEW o \in OwnTimes \cup {NoTime, Kept}, AskUpdate(t, i, o)
      PROVE  TypeOK' /\ Own(t)' /\ rows' = rows
  <2>1. TypeOK'
    BY <1>0, <1>2 DEF AskUpdate, Ask, Wait, table, TypeOK, Ops, PCs, Lock!OwnerOK
  <2>2. HeldKinds(t)'
    BY <1>0, <1>2 DEF AskUpdate, Ask, Wait, TypeOK, HeldKinds, Kinds, Below
  <2>3. Known(t)'
    BY <1>0, <1>2 DEF AskUpdate, Ask, Wait, TypeOK, Known, Working, Creating, Begun
  <2>4. Legal(account[t])'
    BY <1>0, <1>2 DEF AskUpdate, Ask, Legal
  <2> QED BY <1>2, <2>1, <2>2, <2>3, <2>4 DEF Own, AskUpdate, Ask, table
<1>3. ASSUME NEW i \in Existing, NEW o \in {"delete", "run", "notice"}, AskOther(t, i, o)
      PROVE  TypeOK' /\ Own(t)' /\ rows' = rows
  <2>1. TypeOK'
    BY <1>0, <1>3 DEF AskOther, Ask, Wait, table, TypeOK, Ops, PCs, Lock!OwnerOK
  <2>2. HeldKinds(t)'
    BY <1>0, <1>3 DEF AskOther, Ask, Wait, TypeOK, HeldKinds, Kinds, Below
  <2>3. Known(t)'
    BY <1>0, <1>3 DEF AskOther, Ask, Wait, TypeOK, Known, Working, Creating, Begun
  <2>4. Legal(account[t])'
    BY <1>0, <1>3 DEF AskOther, Ask, Legal
  <2> QED BY <1>3, <2>1, <2>2, <2>3, <2>4 DEF Own, AskOther, Ask, table
<1> QED BY <1>1, <1>2, <1>3 DEF Ask1

\* The block of a key is entered: it is one more of the kinds that t may hold.
LEMMA EnterStep ==
  ASSUME IInv, NEW t \in Threads, Enter(t)
  PROVE  TypeOK' /\ Own(t)' /\ rows' = rows
<1> USE KeyFacts, AccountAssumption
<1>0. TypeOK /\ HeldKinds(t) /\ Known(t) /\ Legal(account[t])
  BY DEF IInv
<1>1. pc[t] = "enter" /\ want[t] \in LockKeys /\ want[t] # NoKey
  BY <1>0 DEF Enter, TypeOK
<1>2. /\ owner' = [owner EXCEPT ![want[t]] = t] /\ want' = [want EXCEPT ![t] = NoKey]
      /\ rows' = rows /\ next' = next /\ op' = op /\ user' = user /\ student' = student
      /\ own' = own /\ id' = id /\ probing' = probing /\ account' = account /\ found' = found
      /\ asks' = asks
  BY DEF Enter, Lock!Take, table, payload, local
<1>3. /\ pc' = [pc EXCEPT ![t] = pc'[t]]
      /\ \/ want[t][1] = "add" /\ pc'[t] = "look"
         \/ want[t][1] = "account" /\ pc'[t] = "account"
         \/ want[t][1] = "notice" /\ pc'[t] = "mail"
         \/ want[t][1] = "gate" /\ pc'[t] = "login"
  BY <1>0, <1>1 DEF Enter, TypeOK
<1>4. TypeOK'
  <2>1. Lock!OwnerOK'
    BY <1>0, <1>1, <1>2 DEF TypeOK, Lock!OwnerOK
  <2>2. pc' \in [Threads -> PCs]
    BY <1>0, <1>3 DEF TypeOK, PCs
  <2>3. \A x \in Threads : (want'[x] # NoKey) <=> (pc'[x] = "enter")
    BY <1>0, <1>1, <1>2, <1>3 DEF TypeOK
  <2> QED BY <1>0, <1>2, <2>1, <2>2, <2>3 DEF TypeOK
<1>5. \A k \in LockKeys : (owner'[k] = t) <=> (owner[k] = t \/ k = want[t])
  BY <1>0, <1>1, <1>2 DEF TypeOK, Lock!OwnerOK
<1>6. HeldKinds(t)'
  BY <1>0, <1>1, <1>3, <1>5 DEF HeldKinds, Kinds, Below
<1>7. Known(t)'
  <2>1. Mine(user[t])' = Mine(user[t])
    BY <1>2 DEF Mine, Existing
  <2>2. CASE want[t][1] = "add"
    BY <1>0, <1>1, <1>2, <1>3, <1>5, <2>2 DEF Known, Working, Creating, Begun
  <2>3. CASE want[t][1] = "account"
    BY <1>0, <1>1, <1>2, <1>3, <1>5, <2>3 DEF Known, Working, Creating, Begun
  <2>4. CASE want[t][1] = "notice"
    BY <1>3, <2>4 DEF Known, Working, Creating, Begun
  <2>5. CASE want[t][1] = "gate"
    BY <1>0, <1>1, <1>2, <1>3, <1>5, <2>1, <2>5 DEF Known, Working, Creating, Begun
  <2> QED BY <1>1, <2>2, <2>3, <2>4, <2>5
<1> QED BY <1>0, <1>2, <1>4, <1>6, <1>7 DEF Own, Legal

\* A row that is there is locked next, or a place is counted and found free.
LEMMA LookStep ==
  ASSUME IInv, NEW t \in Threads, Look(t)
  PROVE  TypeOK' /\ Own(t)' /\ rows' = rows
<1> USE KeyFacts, AccountAssumption
<1>0. TypeOK /\ HeldKinds(t) /\ Known(t) /\ Legal(account[t]) /\ pc[t] = "look"
  BY DEF IInv, Look
<1>1. Begun(t) /\ id[t] = 0 /\ user[t] \in Users /\ student[t] \in Students
      /\ owner[AddKey(user[t])] = t
  BY <1>0 DEF Known, Begun
<1>2. /\ rows' = rows /\ next' = next /\ owner' = owner /\ asks' = asks /\ account' = account
      /\ found' = found /\ probing' = probing
      /\ op' = op /\ user' = user /\ student' = student /\ own' = own
  BY DEF Look, table, payload
<1>3. \/ \E i \in Ids : id' = [id EXCEPT ![t] = i] /\ Wait(t, AccountKey(i))
      \/ Cardinality(Mine(user[t])) < MaxAccounts /\ Wait(t, Gate) /\ id' = id
      \/ Goto(t, "leave") /\ id' = id
  BY MineFacts, <1>0 DEF Look, Existing, Mine
<1>4. TypeOK'
  BY <1>0, <1>2, <1>3 DEF TypeOK, Wait, Goto, PCs, Lock!OwnerOK
<1>5. HeldKinds(t)'
  BY <1>0, <1>2, <1>3 DEF TypeOK, HeldKinds, Kinds, Below, Wait, Goto
<1>6. Known(t)'
  <2>1. Mine(user[t])' = Mine(user[t])
    BY <1>2 DEF Mine, Existing
  <2> QED BY <1>0, <1>1, <1>2, <1>3, <2>1
          DEF TypeOK, Known, Working, Creating, Begun, Wait, Goto
<1> QED BY <1>0, <1>2, <1>4, <1>5, <1>6 DEF Own, Legal

\* The row that is read is there, and t alone may delete it as long as it has the lock.
LEMMA RereadStep ==
  ASSUME IInv, NEW t \in Threads, Reread(t)
  PROVE  TypeOK' /\ Own(t)'
<1> USE KeyFacts, AccountAssumption
<1>0. TypeOK /\ HeldKinds(t) /\ Known(t) /\ pc[t] = "account" /\ \A i \in Ids : Legal(rows[i])
  BY DEF IInv, Reread
<1>1. id[t] \in Ids /\ owner[AccountKey(id[t])] = t
  BY <1>0 DEF Known
<1>2. /\ next' = next /\ owner' = owner /\ asks' = asks /\ found' = found /\ probing' = probing
      /\ id' = id /\ op' = op /\ user' = user /\ student' = student /\ own' = own
      /\ account' = [account EXCEPT ![t] = rows[id[t]]]
  BY DEF Reread, payload
<1>3. \/ Goto(t, "leave") /\ (rows' = rows \/ rows' = [rows EXCEPT ![id[t]] = NoRow])
      \/ rows[id[t]] # NoRow /\ rows' = rows
         /\ (Wait(t, Gate) \/ Goto(t, "save") \/ Wait(t, NoticeKey(id[t])))
  BY DEF Reread
<1>4. TypeOK'
  BY <1>0, <1>1, <1>2, <1>3 DEF TypeOK, Wait, Goto, PCs, Lock!OwnerOK
<1>5. HeldKinds(t)'
  BY <1>0, <1>1, <1>2, <1>3 DEF TypeOK, HeldKinds, Kinds, Below, Wait, Goto
<1>6. Known(t)'
  <2>1. id[t] # 0 /\ AccountKey(id[t])[1] = "account"
    BY <1>1 DEF Ids
  <2>2. CASE Goto(t, "leave")
    BY <1>0, <1>2, <2>2 DEF TypeOK, Known, Working, Creating, Begun, Goto
  <2>3. CASE rows[id[t]] # NoRow /\ rows' = rows /\ Goto(t, "save")
    BY <1>0, <1>1, <1>2, <2>1, <2>3 DEF TypeOK, Known, Working, Creating, Begun, Goto
  <2>4. CASE rows[id[t]] # NoRow /\ rows' = rows /\ (Wait(t, Gate) \/ Wait(t, NoticeKey(id[t])))
    BY <1>0, <1>1, <1>2, <2>1, <2>4 DEF TypeOK, Known, Working, Creating, Begun, Wait
  <2> QED BY <1>3, <2>2, <2>3, <2>4
<1>7. Legal(account[t])'
  BY <1>0, <1>1, <1>2 DEF TypeOK, Legal
<1> QED BY <1>4, <1>5, <1>6, <1>7 DEF Own

\* The gate is given back; the account's key or the add key is kept.
LEMMA LoginStep ==
  ASSUME IInv, NEW t \in Threads, Login(t)
  PROVE  TypeOK' /\ Own(t)' /\ rows' = rows
<1> USE KeyFacts, AccountAssumption
<1>0. TypeOK /\ HeldKinds(t) /\ Known(t) /\ Legal(account[t]) /\ pc[t] = "login"
  BY DEF IInv, Login
<1>1. /\ rows' = rows /\ next' = next /\ asks' = asks /\ probing' = probing
      /\ id' = id /\ op' = op /\ user' = user /\ student' = student /\ own' = own
      /\ account' = account /\ owner' = [owner EXCEPT ![Gate] = NoThread]
  BY DEF Login, table, payload, Lock!Give
<1>2. found' \in [Threads -> SchoolWindows \cup {NoWindow}]
  BY <1>0 DEF Login, TypeOK
<1>3. \/ id[t] = 0 /\ Goto(t, "taken")
      \/ id[t] # 0 /\ Goto(t, "save")
      \/ Goto(t, "leave")
      \/ id[t] # 0 /\ Wait(t, NoticeKey(id[t]))
  BY DEF Login
<1>4. \A k \in LockKeys : k # Gate => owner'[k] = owner[k]
  BY <1>0, <1>1 DEF TypeOK, Lock!OwnerOK
<1>5. owner'[Gate] # t
  BY <1>0, <1>1 DEF TypeOK, Lock!OwnerOK
<1>6. id[t] # 0 => id[t] \in Ids /\ owner[AccountKey(id[t])] = t /\ rows[id[t]] # NoRow
                   /\ account[t] # NoRow
  BY <1>0 DEF Known, Working
<1>7. id[t] = 0 => user[t] \in Users /\ student[t] \in Students /\ owner[AddKey(user[t])] = t
                   /\ Cardinality(Mine(user[t])) < MaxAccounts
  BY <1>0 DEF Known, Creating
<1>8. TypeOK'
  <2>1. Lock!OwnerOK'
    BY <1>0, <1>1 DEF TypeOK, Lock!OwnerOK
  <2> QED BY <1>0, <1>1, <1>2, <1>3, <1>6, <2>1 DEF TypeOK, Wait, Goto, PCs
<1>9. HeldKinds(t)'
  BY <1>0, <1>3, <1>4, <1>5, <1>6 DEF TypeOK, HeldKinds, Kinds, Below, Wait, Goto
<1>10. Known(t)'
  <2>1. Mine(user[t])' = Mine(user[t])
    BY <1>1 DEF Mine, Existing
  <2>2. AccountKey(id[t]) # Gate /\ AddKey(user[t]) # Gate
    OBVIOUS
  <2>3. id[t] # 0 => owner'[AccountKey(id[t])] = t
    BY <1>4, <1>6, <2>2
  <2>4. id[t] = 0 => owner'[AddKey(user[t])] = t
    BY <1>4, <1>7, <2>2
  <2> QED BY <1>0, <1>1, <1>3, <1>6, <1>7, <2>1, <2>3, <2>4
          DEF TypeOK, Known, Working, Creating, Begun, Wait, Goto
<1> QED BY <1>0, <1>1, <1>8, <1>9, <1>10 DEF Own, Legal

\* What is inserted has a start time that goes with the window the login brought.
LEMMA TakenStep ==
  ASSUME IInv, NEW t \in Threads, Taken(t)
  PROVE  TypeOK' /\ Own(t)' /\ rows' = rows
<1> USE KeyFacts, AccountAssumption
<1>0. TypeOK /\ HeldKinds(t) /\ Known(t) /\ Legal(account[t]) /\ pc[t] = "taken"
  BY DEF IInv, Taken
<1>1. /\ rows' = rows /\ next' = next /\ owner' = owner /\ asks' = asks /\ want' = want
      /\ op' = op /\ user' = user /\ student' = student /\ own' = own
      /\ id' = id /\ probing' = probing /\ account' = account /\ found' = found
  BY DEF Taken, Goto, table, payload, local
<1>2. \/ pc' = [pc EXCEPT ![t] = "leave"]
      \/ pc' = [pc EXCEPT ![t] = "insert"] /\ ~NotBeforeError(found[t], NewOwn(t))
  BY DEF Taken, Goto
<1>3. TypeOK'
  BY <1>0, <1>1, <1>2 DEF TypeOK, PCs, Lock!OwnerOK
<1>4. HeldKinds(t)'
  BY <1>0, <1>1, <1>2 DEF TypeOK, HeldKinds, Kinds
<1>5. Known(t)'
  <2>1. Mine(user[t])' = Mine(user[t])
    BY <1>1 DEF Mine, Existing
  <2>2. NewOwn(t)' = NewOwn(t)
    BY <1>1 DEF NewOwn
  <2> QED BY <1>0, <1>1, <1>2, <2>1, <2>2 DEF TypeOK, Known, Working, Creating, Begun
<1> QED BY <1>0, <1>1, <1>3, <1>4, <1>5 DEF Own, Legal

\* A notice changes neither rows nor keys.
LEMMA MailStep ==
  ASSUME IInv, NEW t \in Threads, Mail(t)
  PROVE  TypeOK' /\ Own(t)' /\ rows' = rows
<1>0. TypeOK /\ Legal(account[t]) /\ pc[t] = "mail"
  BY DEF IInv, Mail
<1>1. /\ rows' = rows /\ next' = next /\ owner' = owner /\ asks' = asks /\ want' = want
      /\ op' = op /\ user' = user /\ student' = student /\ own' = own
      /\ id' = id /\ probing' = probing /\ account' = account /\ found' = found
      /\ pc' = [pc EXCEPT ![t] = "leave"]
  BY DEF Mail, Goto, table, payload, local
<1>2. TypeOK'
  BY <1>0, <1>1 DEF TypeOK, PCs, Lock!OwnerOK
<1>3. HeldKinds(t)' /\ Known(t)'
  BY <1>0, <1>1 DEF TypeOK, HeldKinds, Known, Working, Creating, Begun
<1> QED BY <1>0, <1>1, <1>2, <1>3 DEF Own, Legal
-----------------------------------------------------------------------------
(* The steps that change the table. *)

\* Rows that go, or keep their user and student, leave every user with fewer.
LEMMA Fewer ==
  ASSUME IInv, Existing' \subseteq Existing,
         \A i \in Existing' : rows'[i].user = rows[i].user /\ rows'[i].student = rows[i].student
  PROVE  /\ OneAccountPerStudent' /\ QuotaKept'
         /\ \A u : Cardinality(Mine(u)') \in Nat /\ Cardinality(Mine(u)') <= Cardinality(Mine(u))
<1>1. \A u : Mine(u)' \subseteq Mine(u)
  BY DEF Mine
<1>2. \A u : Cardinality(Mine(u)) \in Nat /\ Cardinality(Mine(u)') \in Nat
             /\ Cardinality(Mine(u)') <= Cardinality(Mine(u))
  BY <1>1, MineFacts, FS_Subset, FS_CardinalityType DEF IInv
<1>3. OneAccountPerStudent'
  BY DEF IInv, OneAccountPerStudent
<1>4. QuotaKept'
  <2>1. \A u \in Users : Cardinality(Mine(u)) <= MaxAccounts
    BY DEF IInv, QuotaKept, Mine
  <2>2. \A u \in Users : Cardinality(Mine(u)') <= MaxAccounts
    BY <1>2, <2>1, AccountAssumption
  <2> QED BY <2>2 DEF QuotaKept, Mine
<1> QED BY <1>2, <1>3, <1>4

\* A row is deleted by the thread that holds its lock, and leaves its user a place more.
LEMMA RereadTable ==
  ASSUME IInv, NEW t \in Threads, Reread(t)
  PROVE  TableOK' /\ \A s \in Threads : s # t => Untouched(s)
<1>0. TypeOK /\ Known(t) /\ pc[t] = "account" /\ \A i \in Ids : Legal(rows[i])
  BY DEF IInv, Reread
<1>1. id[t] \in Ids /\ owner[AccountKey(id[t])] = t
  BY <1>0 DEF Known
<1>2. CASE rows' = rows
  BY <1>2, TableSame
<1>3. CASE rows' = [rows EXCEPT ![id[t]] = NoRow]
  <2>1. /\ Existing' \subseteq Existing
        /\ \A i \in Existing' : rows'[i].user = rows[i].user /\ rows'[i].student = rows[i].student
    BY <1>0, <1>1, <1>3 DEF TypeOK, Existing
  <2>2. /\ OneAccountPerStudent' /\ QuotaKept'
        /\ \A u : Cardinality(Mine(u)') \in Nat /\ Cardinality(Mine(u)') <= Cardinality(Mine(u))
    BY <2>1, Fewer
  <2>3. \A i \in Ids : Legal(rows[i])'
    BY <1>0, <1>1, <1>3 DEF TypeOK, Legal
  <2>4. \A i \in Ids : i # id[t] => rows'[i] = rows[i]
    BY <1>0, <1>1, <1>3 DEF TypeOK
  <2>5. \A s \in Threads : s # t => Untouched(s)
    BY <1>1, <2>2, <2>4 DEF Untouched
  <2> QED BY <2>2, <2>3, <2>5 DEF TableOK
<1> QED BY <1>2, <1>3 DEF Reread

\* A row keeps its user and its student; a start time that does not go with the window
\* is refused or reset.
LEMMA SaveStep ==
  ASSUME IInv, NEW t \in Threads, Save(t)
  PROVE  TypeOK' /\ Own(t)' /\ TableOK' /\ \A s \in Threads : s # t => Untouched(s)
<1> USE AccountAssumption
<1>0. TypeOK /\ HeldKinds(t) /\ Known(t) /\ Legal(account[t]) /\ pc[t] = "save"
      /\ \A i \in Ids : Legal(rows[i])
  BY DEF IInv, Save
<1>1. id[t] \in Ids /\ owner[AccountKey(id[t])] = t /\ rows[id[t]] # NoRow /\ account[t] # NoRow
  BY <1>0 DEF Known, Working
<1>2. /\ next' = next /\ owner' = owner /\ asks' = asks /\ want' = want
      /\ op' = op /\ user' = user /\ student' = student /\ own' = own
      /\ id' = id /\ probing' = probing /\ account' = account /\ found' = found
      /\ pc' = [pc EXCEPT ![t] = "leave"]
  BY DEF Save, Goto, payload, local
<1>3. \A w, o : Timed(id[t], w, o) = [rows EXCEPT ![id[t]] = [rows[id[t]] EXCEPT !.window = w, !.own = o]]
  BY <1>0, <1>1 DEF Timed, TypeOK
<1>a. account[t] \in Rows /\ rows[id[t]] \in Rows /\ account[t].window \in SchoolWindows \cup {NoWindow}
      /\ account[t].own \in OwnTimes \cup {NoTime} /\ ~NotBeforeError(account[t].window, account[t].own)
  <2>1. account[t] \in Rows /\ rows[id[t]] \in Rows
    BY <1>0, <1>1 DEF TypeOK
  <2> QED BY <1>0, <1>1, <2>1 DEF Rows, Legal
<1>b. \A w : ~NotBeforeError(w, Reset(account[t], w)) /\ Reset(account[t], w) \in OwnTimes \cup {NoTime}
  BY <1>a DEF Reset, NotBeforeError
<1>4. \/ rows' = rows
      \/ \E w \in SchoolWindows \cup {NoWindow}, o \in OwnTimes \cup {NoTime} :
           ~NotBeforeError(w, o) /\ rows' = Timed(id[t], w, o)
  <2>1. CASE op[t] = "run"
    BY <1>b, <2>1 DEF Save, SaveRun
  <2>2. CASE op[t] # "run"
    <3> DEFINE w == IF found[t] = NoWindow THEN account[t].window ELSE found[t]
    <3>1. w \in SchoolWindows \cup {NoWindow} /\ own[t] \in OwnTimes \cup {NoTime, Kept}
      BY <1>0, <1>a DEF TypeOK
    <3>2. \/ rows' = rows
          \/ own[t] # Kept /\ ~NotBeforeError(w, own[t]) /\ rows' = Timed(id[t], w, own[t])
          \/ rows' = Timed(id[t], w, Reset(account[t], w))
      BY <2>2 DEF Save, SaveUpdate
    <3> HIDE DEF w
    <3> QED BY <1>b, <3>1, <3>2
  <2> QED BY <2>1, <2>2
<1>5. TypeOK' /\ TableOK' /\ \A s \in Threads : Untouched(s)
  <2>1. CASE rows' = rows
    <3>1. TypeOK'
      BY <1>0, <1>2, <2>1 DEF TypeOK, PCs, Lock!OwnerOK
    <3> QED BY <2>1, <3>1, TableSame
  <2>2. ASSUME NEW w \in SchoolWindows \cup {NoWindow}, NEW o \in OwnTimes \cup {NoTime},
               ~NotBeforeError(w, o), rows' = Timed(id[t], w, o)
        PROVE  TypeOK' /\ TableOK' /\ \A s \in Threads : Untouched(s)
    <3> DEFINE r == [rows[id[t]] EXCEPT !.window = w, !.own = o]
    <3>1. /\ r \in Rows
          /\ r.user = rows[id[t]].user /\ r.student = rows[id[t]].student
          /\ r.window = w /\ r.own = o
      BY <1>a DEF Rows
    <3>2. rows' = [rows EXCEPT ![id[t]] = r] /\ r # NoRow
      BY <1>3, <2>2, <3>1
    <3> HIDE DEF r
    <3>3. rows' \in [Ids -> Rows \cup {NoRow}] /\ \A i \in Ids : rows'[i] = IF i = id[t] THEN r ELSE rows[i]
      BY <1>0, <1>1, <3>1, <3>2 DEF TypeOK
    <3>4. TypeOK'
      BY <1>0, <1>1, <1>2, <3>3 DEF TypeOK, PCs, Lock!OwnerOK
    <3>5. Existing' \subseteq Existing
      BY <1>1, <3>1, <3>2, <3>3 DEF Existing
    <3>6. \A i \in Existing' : rows'[i].user = rows[i].user /\ rows'[i].student = rows[i].student
      BY <3>1, <3>2, <3>3 DEF Existing
    <3>7. /\ OneAccountPerStudent' /\ QuotaKept'
          /\ \A u : Cardinality(Mine(u)') \in Nat /\ Cardinality(Mine(u)') <= Cardinality(Mine(u))
      BY <3>5, <3>6, Fewer
    <3>8. \A i \in Ids : Legal(rows[i])'
      BY <1>0, <2>2, <3>1, <3>2, <3>3 DEF Legal
    <3>9. \A i \in Ids : rows[i] # NoRow => rows'[i] # NoRow
      BY <3>1, <3>2, <3>3
    <3> QED BY <3>4, <3>7, <3>8, <3>9 DEF TableOK, Untouched
  <2> QED BY <1>4, <2>1, <2>2
<1>6. HeldKinds(t)' /\ Known(t)' /\ Legal(account[t])'
  BY <1>0, <1>2 DEF TypeOK, HeldKinds, Known, Working, Creating, Begun, Legal
<1> QED BY <1>5, <1>6 DEF Own

\* The place that was counted is still free, because nobody else adds for this user
\* without its add lock; the trigger keeps the student's row the only one.
LEMMA InsertStep ==
  ASSUME IInv, NEW t \in Threads, Insert(t)
  PROVE  TypeOK' /\ Own(t)' /\ TableOK' /\ \A s \in Threads : s # t => Untouched(s)
<1> USE AccountAssumption
<1>0. TypeOK /\ HeldKinds(t) /\ Known(t) /\ Legal(account[t]) /\ pc[t] = "insert"
      /\ \A i \in Ids : Legal(rows[i])
  BY DEF IInv, Insert
<1>1. user[t] \in Users /\ student[t] \in Students /\ owner[AddKey(user[t])] = t
      /\ Cardinality(Mine(user[t])) < MaxAccounts /\ ~NotBeforeError(found[t], NewOwn(t))
  BY <1>0 DEF Known, Creating
<1>2. /\ owner' = owner /\ asks' = asks /\ want' = want
      /\ op' = op /\ user' = user /\ student' = student /\ own' = own
      /\ id' = id /\ probing' = probing /\ account' = account /\ found' = found
      /\ pc' = [pc EXCEPT ![t] = "leave"]
  BY DEF Insert, Goto, payload, local
<1>3. HeldKinds(t)' /\ Known(t)' /\ Legal(account[t])'
  BY <1>0, <1>2 DEF TypeOK, HeldKinds, Known, Working, Creating, Begun, Legal
<1>4. CASE UNCHANGED table
  <2>1. TypeOK'
    BY <1>0, <1>2, <1>4 DEF TypeOK, PCs, Lock!OwnerOK, table
  <2>2. rows' = rows
    BY <1>4 DEF table
  <2> QED BY <1>3, <2>1, <2>2, TableSame DEF Own
<1>5. CASE /\ \A i \in Existing : rows[i].student # student[t]
           /\ next \in Ids
           /\ rows' = [rows EXCEPT ![next] = NewRow(t)] /\ next' = Later(next)
  <2>1. NewRow(t) \in Rows /\ NewRow(t) # NoRow /\ Legal(NewRow(t))
        /\ NewRow(t).user = user[t] /\ NewRow(t).student = student[t]
    BY <1>0, <1>1 DEF TypeOK, NewRow, NewOwn, Rows, Legal
  <2>2. \A i \in Ids : rows'[i] = IF i = next THEN NewRow(t) ELSE rows[i]
    BY <1>0, <1>5 DEF TypeOK
  <2>3. next \in Int /\ next' = next + 1 /\ rows[next] = NoRow /\ MaxIds \in Int /\ 1 <= next
        /\ next <= MaxIds
    BY <1>0, <1>5 DEF TypeOK, Later, Ids
  <2>4. rows' \in [Ids -> Rows \cup {NoRow}]
    BY <1>0, <1>5, <2>1 DEF TypeOK
  <2>5. TypeOK'
    <3>1. next' \in 1..(MaxIds + 1)
      BY <2>3
    <3>2. \A i \in Ids : i >= next' => rows'[i] = NoRow
      BY <1>0, <2>2, <2>3 DEF TypeOK, Ids
    <3>3. pc' \in [Threads -> PCs]
      BY <1>0, <1>2 DEF TypeOK, PCs
    <3>4. \A x \in Threads : (want'[x] # NoKey) <=> (pc'[x] = "enter")
      BY <1>0, <1>2 DEF TypeOK
    <3> QED BY <1>0, <1>2, <2>4, <3>1, <3>2, <3>3, <3>4 DEF TypeOK, Lock!OwnerOK
  <2>6. Existing' = Existing \cup {next} /\ next \notin Existing
    BY <1>5, <2>1, <2>2, <2>3 DEF Existing
  <2>7. OneAccountPerStudent'
    BY <1>5, <2>1, <2>2, <2>6 DEF IInv, OneAccountPerStudent, Existing
  <2>8. \A u : u # user[t] => Mine(u)' = Mine(u)
    BY <2>1, <2>2, <2>6 DEF Mine, Existing
  <2>9. PICK me \in Users : me = user[t]
    BY <1>1
  <2>10. Mine(me)' = Mine(me) \cup {next} /\ next \notin Mine(me)
    BY <2>1, <2>2, <2>6, <2>9, <1>5 DEF Mine, Existing
  <2>11. Cardinality(Mine(me)') = Cardinality(Mine(me)) + 1
    BY <2>10, MineFacts, FS_AddElement, <1>0
  <2>12. \A u \in Users : Cardinality(Mine(u)) \in Nat /\ Cardinality(Mine(u)) <= MaxAccounts
    BY MineFacts DEF IInv, QuotaKept, Mine
  <2>13. QuotaKept'
    <3>1. \A u \in Users : Cardinality(Mine(u)') <= MaxAccounts
      BY <1>1, <2>8, <2>9, <2>11, <2>12
    <3> QED BY <3>1 DEF QuotaKept, Mine
  <2>14. \A i \in Ids : Legal(rows[i])'
    BY <1>0, <2>1, <2>2 DEF Legal
  <2>15. \A s \in Threads : s # t => Untouched(s)
    <3> TAKE s \in Threads
    <3> HAVE s # t
    <3>1. \A i \in Ids : rows[i] # NoRow => rows'[i] # NoRow
      BY <2>1, <2>2
    <3>2. \A u \in Users : owner[AddKey(u)] = s => u # user[t]
      BY <1>1
    <3> QED BY <2>8, <2>12, <3>1, <3>2 DEF Untouched
  <2> QED BY <1>3, <2>5, <2>7, <2>13, <2>14, <2>15 DEF Own, TableOK
<1> QED BY <1>4, <1>5 DEF Insert

\* The keys are given back; when the thread holds none of them, it is done.
LEMMA LeaveStep ==
  ASSUME IInv, NEW t \in Threads, Leave(t)
  PROVE  TypeOK' /\ Own(t)' /\ rows' = rows
<1> USE AccountAssumption
<1>0. TypeOK /\ Legal(account[t]) /\ pc[t] = "leave"
  BY DEF IInv, Leave
<1>1. rows' = rows /\ next' = next /\ want' = want /\ asks' = asks
  BY DEF Leave, table
<1>2. CASE /\ \E k \in Inner(t) : Lock!Give(t, k)
           /\ UNCHANGED <<pc, payload, local>>
  <2>1. Lock!OwnerOK'
    BY <1>0, <1>2 DEF TypeOK, Lock!OwnerOK, Lock!Give
  <2>2. TypeOK'
    BY <1>0, <1>1, <1>2, <2>1 DEF TypeOK, payload, local
  <2>3. HeldKinds(t)' /\ Known(t)' /\ Legal(account[t])'
    BY <1>0, <1>1, <1>2 DEF HeldKinds, Known, Working, Creating, Begun, Legal, payload, local
  <2> QED BY <1>1, <2>2, <2>3 DEF Own
<1>3. CASE /\ Inner(t) = {} /\ UNCHANGED owner
           /\ pc' = [pc EXCEPT ![t] = "idle"]
           /\ op' = [op EXCEPT ![t] = "none"] /\ id' = [id EXCEPT ![t] = 0]
           /\ user' = [user EXCEPT ![t] = NoUser] /\ student' = [student EXCEPT ![t] = NoStudent]
           /\ own' = [own EXCEPT ![t] = Kept] /\ probing' = [probing EXCEPT ![t] = FALSE]
           /\ account' = [account EXCEPT ![t] = NoRow] /\ found' = [found EXCEPT ![t] = NoWindow]
  <2>1. Held(t) = {}
    <3>1. \A k \in Held(t) : Rank(k) \in {1, 2, 3}
      BY DEF Rank
    <3>2. \A k \in Held(t) : Rank(k) # 3
      BY <1>3, <3>1 DEF Inner
    <3>3. \A k \in Held(t) : Rank(k) # 2
      BY <1>3, <3>1, <3>2 DEF Inner
    <3>4. \A k \in Held(t) : Rank(k) # 1
      BY <1>3, <3>1, <3>2, <3>3 DEF Inner
    <3> QED BY <3>1, <3>2, <3>3, <3>4
  <2>2. TypeOK'
    BY <1>0, <1>1, <1>3 DEF TypeOK, PCs, Ops, Lock!OwnerOK
  <2>3. HeldKinds(t)'
    BY <1>0, <1>1, <1>3, <2>1 DEF TypeOK, HeldKinds, Kinds, Held
  <2>4. Known(t)'
    BY <1>0, <1>1, <1>3 DEF TypeOK, Known, Working, Creating, Begun
  <2>5. Legal(account[t])'
    BY <1>0, <1>3 DEF TypeOK, Legal
  <2> QED BY <1>1, <2>2, <2>3, <2>4, <2>5 DEF Own
<1> QED BY <1>2, <1>3 DEF Leave
-----------------------------------------------------------------------------
(* The invariant. *)

\* There are no rows and no keys are held.
LEMMA Initial == Init => IInv
<1> SUFFICES ASSUME Init
             PROVE  IInv
  OBVIOUS
<1> USE AccountAssumption
<1>1. TypeOK
  BY DEF Init, TypeOK, PCs, Ops, Ids, Lock!OwnerOK, Lock!Init
<1>2. Existing = {}
  BY DEF Init, Existing
<1>3. OneAccountPerStudent
  BY <1>2 DEF OneAccountPerStudent
<1>4. QuotaKept
  <2>1. \A u : {i \in Existing : rows[i].user = u} = {}
    BY <1>2
  <2>2. Cardinality({}) = 0
    BY FS_EmptySet
  <2>3. \A u : Cardinality({i \in Existing : rows[i].user = u}) = 0
    BY <2>1, <2>2
  <2> QED BY <2>3 DEF QuotaKept
<1>5. \A t \in Threads : HeldKinds(t) /\ Known(t) /\ Legal(account[t])
  BY DEF Init, Lock!Init, HeldKinds, Kinds, Known, Working, Creating, Begun, Legal
<1>6. \A i \in Ids : Legal(rows[i])
  BY DEF Init, Legal
<1> QED BY <1>1, <1>3, <1>4, <1>5, <1>6 DEF IInv

\* A step of one thread keeps what it needs itself and what the others hold on to.
LEMMA Step == IInv /\ [Next]_vars => IInv'
<1> SUFFICES ASSUME IInv, [Next]_vars
             PROVE  IInv'
  OBVIOUS
<1>1. ASSUME NEW t \in Threads, Ask1(t) \/ Work(t)
      PROVE  IInv'
  <2>1. TypeOK' /\ Own(t)' /\ TableOK' /\ \A s \in Threads : s # t => Untouched(s)
    <3>1. CASE Ask1(t)
      BY <3>1, AskStep, TableSame
    <3>2. CASE Enter(t)
      BY <3>2, EnterStep, TableSame
    <3>3. CASE Look(t)
      BY <3>3, LookStep, TableSame
    <3>4. CASE Reread(t)
      BY <3>4, RereadStep, RereadTable
    <3>5. CASE Login(t)
      BY <3>5, LoginStep, TableSame
    <3>6. CASE Taken(t)
      BY <3>6, TakenStep, TableSame
    <3>7. CASE Insert(t)
      BY <3>7, InsertStep
    <3>8. CASE Save(t)
      BY <3>8, SaveStep
    <3>9. CASE Mail(t)
      BY <3>9, MailStep, TableSame
    <3>10. CASE Leave(t)
      BY <3>10, LeaveStep, TableSame
    <3> QED BY <1>1, <3>1, <3>2, <3>3, <3>4, <3>5, <3>6, <3>7, <3>8, <3>9, <3>10 DEF Work
  <2>2. \A s \in Threads : s # t => HeldKinds(s)' /\ Known(s)' /\ Legal(account[s])'
    <3> TAKE s \in Threads
    <3> HAVE s # t
    <3>1. Same(s)
      BY <1>1, OthersSame DEF IInv
    <3> QED BY <2>1, <3>1, OthersKept
  <2> QED BY <2>1, <2>2 DEF IInv, Own, TableOK
<1>2. CASE UNCHANGED vars
  <2>1. TypeOK'
    BY <1>2 DEF IInv, TypeOK, Lock!OwnerOK, vars
  <2>2. TableOK'
    BY <1>2, TableSame DEF vars
  <2>3. \A t \in Threads : HeldKinds(t)' /\ Known(t)' /\ Legal(account[t])'
    <3> TAKE t \in Threads
    <3>1. HeldKinds(t)'
      BY <1>2 DEF IInv, HeldKinds, Kinds, Below, vars
    <3>2. \A u : Mine(u)' = Mine(u)
      BY <1>2 DEF Mine, Existing, vars
    <3>3. NewOwn(t)' = NewOwn(t) /\ Mine(user[t])' = Mine(user[t])
      BY <1>2 DEF NewOwn, Mine, Existing, vars
    <3>4. Known(t)'
      BY <1>2, <3>3 DEF IInv, Known, Working, Creating, Begun, vars
    <3> QED BY <1>2, <3>1, <3>4 DEF IInv, Legal, vars
  <2> QED BY <2>1, <2>2, <2>3 DEF IInv, TableOK
<1> QED BY <1>1, <1>2 DEF Next

\* The inductive invariant holds for any numbers of users, students and threads.
THEOREM Invariant == Spec => []IInv
BY Initial, Step, PTL DEF Spec

\* Every variable has its type, and a thread waits for a key exactly when it is at the
\* entrance of a block.
THEOREM TypeCorrect == Spec => []TypeOK
<1>1. IInv => TypeOK
  BY DEF IInv
<1> QED BY <1>1, Invariant, PTL

\* A student has one account, whoever adds it.
THEOREM OneAccount == Spec => []OneAccountPerStudent
<1>1. IInv => OneAccountPerStudent
  BY DEF IInv
<1> QED BY <1>1, Invariant, PTL

\* A user never has more accounts than max_accounts_per_user.
THEOREM Quota == Spec => []QuotaKept
<1>1. IInv => QuotaKept
  BY DEF IInv
<1> QED BY <1>1, Invariant, PTL

\* What a row keeps of times is typed.
LEMMA RowTimes ==
  ASSUME TypeOK, NEW i \in Existing
  PROVE  /\ i \in Ids /\ rows[i] # NoRow
         /\ rows[i].window \in WindowTypes \cup {NoWindow}
         /\ rows[i].own \in Minutes \cup {NoTime}
<1>1. i \in Ids /\ rows[i] \in Rows /\ rows[i] # NoRow
  BY DEF TypeOK, Existing
<1> QED BY <1>1, AccountAssumption DEF Rows

\* Neither the user's start time nor a change of the school's window leaves an account
\* without a minute in which it may be checked in, but for a start time at the minute where
\* the window ends: it leaves the first moment of that minute and no other.
THEOREM Admitted == Spec => []TimeLeft
<1>1. IInv => TimeLeft
  <2> SUFFICES ASSUME IInv, NEW i \in Existing
               PROVE  LeavesTime(rows[i].window, rows[i].own)
    BY DEF TimeLeft
  <2>1. ~NotBeforeError(rows[i].window, rows[i].own)
    BY RowTimes DEF IInv, Legal
  <2> QED BY <2>1, RowTimes, LegalLeavesTime DEF IInv
<1> QED BY <1>1, Invariant, PTL

\* For any windows that the school may give, the scheduler and the pages agree about every
\* account but after the first moment of its window's last minute, and but for windows that
\* end at the minute where they begin.
THEOREM SameTimes == Spec => []WindowsAgree
<1>1. IInv => WindowsAgree
  BY RowTimes, AgreeAlways DEF IInv, WindowsAgree
<1> QED BY <1>1, Invariant, PTL

\* Who waits for a key is waited for by nobody, or for a key of a lower rank: the one of
\* a set that waits for the highest rank waits for none of the set.
THEOREM NoDeadlock == Spec => []NoCircularWait
<1>1. IInv => NoCircularWait
  <2> SUFFICES ASSUME IInv, NEW S \in SUBSET Threads, S # {},
                      \A t \in S : want[t] # NoKey /\ owner[want[t]] \in S
               PROVE  FALSE
    BY DEF NoCircularWait
  <2>1. \A t \in S : /\ pc[t] = "enter" /\ want[t] \in LockKeys
                     /\ owner[want[t]] \in S /\ pc[owner[want[t]]] = "enter"
    BY DEF IInv, TypeOK
  <2>2. \A t \in S : Kinds(t, Below(want[t]))
    BY <2>1 DEF IInv, HeldKinds
  <2>3. \A t \in S : want[t][1] \in Below(want[owner[want[t]]])
    BY <2>1, <2>2 DEF Kinds
  <2>4. \A t \in S : want[t][1] \in {"add", "account"}
    BY <2>3 DEF Below
  <2>5. \A t \in S : want[t][1] = "add"
    BY <2>1, <2>3, <2>4 DEF Below
  <2> QED BY <2>1, <2>3, <2>5 DEF Below
<1> QED BY <1>1, Invariant, PTL
=============================================================================
