------------------------------ MODULE Accounts ------------------------------
(***************************************************************************)
(* app/accounts.py with the locks it nests: creating, changing and         *)
(* deleting hosted accounts, next to the runs and the notices that work on *)
(* the same rows.  A login to the school takes seconds, so what was read   *)
(* from the database before it may have changed after it.                  *)
(*                                                                         *)
(* Keys are locked as KeyedLock says.  cas_concurrency is 1 here, so that  *)
(* the gate of the logins is one more key.  Only the columns are kept that *)
(* these operations decide on; enabled and auth_error belong to Checkin    *)
(* and Notices.                                                            *)
(***************************************************************************)
EXTENDS Windows, FiniteSets

CONSTANTS
  Threads, Users,
  Students,     \* csu_username
  SchoolWindows,  \* the windows that the school may tell
  OwnTimes,     \* the start times that users may set
  MaxAccounts,  \* cfg.config.max_accounts_per_user
  MaxIds,       \* bound: rows ever made
  MaxAsks,      \* bound: operations begun
  NoRow, NoThread, NoKey, NoUser, NoStudent,
  Kept          \* the payload has no notBefore

Ids == 1..MaxIds
Rows == [user : Users, student : Students, window : SchoolWindows \cup {NoWindow},
         own : OwnTimes \cup {NoTime}]

AddKey(u) == <<"add", u>>
AccountKey(i) == <<"account", i>>
\* Mutant: a notice is sent under the account's own key.
SameKey(i) == <<"account", i>>
NoticeKey(i) == <<"notice", i>>
Gate == <<"gate", 0>>
LockKeys == {AddKey(u) : u \in Users} \cup {Gate}
            \cup {AccountKey(i) : i \in Ids} \cup {NoticeKey(i) : i \in Ids}

ASSUME AccountAssumption ==
  /\ SchoolWindows \subseteq WindowTypes /\ OwnTimes \subseteq Minutes
  /\ MaxAccounts \in Nat \ {0} /\ MaxIds \in Nat \ {0} /\ MaxAsks \in Nat
  /\ NoRow \notin Rows /\ NoThread \notin Threads /\ NoKey \notin LockKeys
  /\ NoUser \notin Users /\ NoStudent \notin Students
  /\ Kept \notin OwnTimes \cup {NoTime}

VARIABLES
  rows,      \* the table accounts
  next,      \* the id of the next row, which AUTOINCREMENT does not use again
  owner,     \* who holds a key
  pc,
  want,      \* the key that a thread waits for
  op,        \* what it does
  user, student, id,  \* for whom, and to which row
  own,       \* notBefore of the payload, as not_before is to become
  probing,   \* whether it logs in to the school
  account,   \* the row as it has read it
  found,     \* the window that the login has brought
  asks       \* how many operations there have been

vars == <<rows, next, owner, pc, want, op, user, student, id, own, probing, account, found, asks>>
table == <<rows, next>>
payload == <<op, user, student, own>>
local == <<id, probing, account, found>>

Lock == INSTANCE KeyedLock WITH Clients <- Threads, Keys <- LockKeys, NoClient <- NoThread

Ops == {"none", "create", "update", "delete", "run", "notice"}
PCs == {"idle", "enter", "look", "account", "login", "taken", "insert", "save", "mail", "leave"}

TypeOK ==
  /\ rows \in [Ids -> Rows \cup {NoRow}] /\ next \in 1..(MaxIds + 1)
  /\ \A i \in Ids : i >= next => rows[i] = NoRow
  /\ Lock!OwnerOK
  /\ pc \in [Threads -> PCs] /\ want \in [Threads -> LockKeys \cup {NoKey}]
  /\ op \in [Threads -> Ops] /\ id \in [Threads -> Ids \cup {0}]
  /\ user \in [Threads -> Users \cup {NoUser}] /\ student \in [Threads -> Students \cup {NoStudent}]
  /\ own \in [Threads -> OwnTimes \cup {NoTime, Kept}] /\ probing \in [Threads -> BOOLEAN]
  /\ account \in [Threads -> Rows \cup {NoRow}]
  /\ found \in [Threads -> SchoolWindows \cup {NoWindow}]
  /\ asks \in 0..MaxAsks
  /\ \A t \in Threads : (want[t] # NoKey) <=> (pc[t] = "enter")

Init ==
  /\ rows = [i \in Ids |-> NoRow] /\ next = 1 /\ asks = 0
  /\ Lock!Init
  /\ pc = [t \in Threads |-> "idle"] /\ want = [t \in Threads |-> NoKey]
  /\ op = [t \in Threads |-> "none"] /\ id = [t \in Threads |-> 0]
  /\ user = [t \in Threads |-> NoUser] /\ student = [t \in Threads |-> NoStudent]
  /\ own = [t \in Threads |-> Kept] /\ probing = [t \in Threads |-> FALSE]
  /\ account = [t \in Threads |-> NoRow] /\ found = [t \in Threads |-> NoWindow]

Goto(t, l) == pc' = [pc EXCEPT ![t] = l] /\ UNCHANGED want
Wait(t, k) == pc' = [pc EXCEPT ![t] = "enter"] /\ want' = [want EXCEPT ![t] = k]
Existing == {i \in Ids : rows[i] # NoRow}
-----------------------------------------------------------------------------
(* Operations. *)

Ask(t) ==
  /\ pc[t] = "idle" /\ asks < MaxAsks /\ asks' = asks + 1
  /\ UNCHANGED <<table, owner, account, found>>

\* create_or_update
\* Mutant: the user is not locked.
AskCreateUnlocked(t, u, s, o) ==
  /\ Ask(t) /\ Goto(t, "look")
  /\ op' = [op EXCEPT ![t] = "create"] /\ user' = [user EXCEPT ![t] = u]
  /\ student' = [student EXCEPT ![t] = s] /\ own' = [own EXCEPT ![t] = o]
  /\ probing' = [probing EXCEPT ![t] = TRUE] /\ UNCHANGED id
AskCreate(t, u, s, o) ==
  /\ Ask(t) /\ Wait(t, AddKey(u))
  /\ op' = [op EXCEPT ![t] = "create"] /\ user' = [user EXCEPT ![t] = u]
  /\ student' = [student EXCEPT ![t] = s] /\ own' = [own EXCEPT ![t] = o]
  /\ probing' = [probing EXCEPT ![t] = TRUE] /\ UNCHANGED id

\* update: with a password it logs in, without one it does not.
AskUpdate(t, i, o) ==
  /\ Ask(t) /\ Wait(t, AccountKey(i))
  /\ op' = [op EXCEPT ![t] = "update"] /\ id' = [id EXCEPT ![t] = i]
  /\ own' = [own EXCEPT ![t] = o] /\ \E b \in BOOLEAN : probing' = [probing EXCEPT ![t] = b]
  /\ UNCHANGED <<user, student>>

\* delete, run_checkin and retry_credential_notices
AskOther(t, i, o) ==
  /\ Ask(t) /\ Wait(t, AccountKey(i))
  /\ op' = [op EXCEPT ![t] = o] /\ id' = [id EXCEPT ![t] = i]
  /\ UNCHANGED <<user, student, own, probing>>

\* A key is free.
Enter(t) ==
  /\ pc[t] = "enter" /\ Lock!Take(t, want[t])
  /\ pc' = [pc EXCEPT ![t] = CASE want[t][1] = "add" -> "look" [] want[t][1] = "account" -> "account"
                                [] want[t][1] = "notice" -> "mail" [] OTHER -> "login"]
  /\ want' = [want EXCEPT ![t] = NoKey]
  /\ UNCHANGED <<table, payload, local, asks>>

\* _create_or_update_locked: a row that is there is updated, under its own lock too; a
\* new one needs a place.
Look(t) ==
  /\ pc[t] = "look"
  /\ LET mine == {i \in Existing : rows[i].user = user[t]}
         same == {i \in mine : rows[i].student = student[t]}
     IN  \/ \E i \in same : id' = [id EXCEPT ![t] = i] /\ Wait(t, AccountKey(i))
         \/ /\ same = {} /\ Cardinality(mine) < MaxAccounts
            /\ Wait(t, Gate) /\ UNCHANGED id
         \/ same = {} /\ Cardinality(mine) >= MaxAccounts /\ Goto(t, "leave") /\ UNCHANGED id
  /\ UNCHANGED <<table, owner, payload, probing, account, found, asks>>

\* With the account's lock: the row is read again.
Reread(t) ==
  /\ pc[t] = "account"
  /\ account' = [account EXCEPT ![t] = rows[id[t]]]
  /\ \/ rows[id[t]] = NoRow /\ Goto(t, "leave") /\ UNCHANGED rows
     \/ /\ rows[id[t]] # NoRow /\ op[t] \in {"create", "update"}
        /\ IF probing[t] THEN Wait(t, Gate) ELSE Goto(t, "save")
        /\ UNCHANGED rows
     \/ rows[id[t]] # NoRow /\ op[t] = "run" /\ (Wait(t, Gate) \/ Goto(t, "save")) /\ UNCHANGED rows
     \/ /\ op[t] = "delete" /\ Goto(t, "leave")
        /\ rows[id[t]] # NoRow /\ rows' = [rows EXCEPT ![id[t]] = NoRow]
     \/ rows[id[t]] # NoRow /\ op[t] = "notice" /\ Wait(t, NoticeKey(id[t])) /\ UNCHANGED rows
  /\ UNCHANGED <<next, owner, payload, id, probing, found, asks>>

\* verify_login or _login, which gives back the gate.  A password that the account had
\* and that the school refuses is marked, and a notice is sent.
Login(t) ==
  /\ pc[t] = "login" /\ Lock!Give(t, Gate)
  /\ \/ \E w \in SchoolWindows \cup {NoWindow} :
          /\ found' = [found EXCEPT ![t] = IF op[t] = "run" THEN NoWindow ELSE w]
          /\ Goto(t, IF id[t] = 0 THEN "taken" ELSE "save")
     \/ UNCHANGED found /\ Goto(t, "leave")
     \/ id[t] # 0 /\ UNCHANGED found /\ Wait(t, NoticeKey(id[t]))
  /\ UNCHANGED <<table, payload, id, probing, account, asks>>

\* account_username_taken and not_before_error
NewOwn(t) == IF own[t] = Kept THEN NoTime ELSE own[t]
Taken(t) ==
  /\ pc[t] = "taken"
  /\ Goto(t, IF \/ \E i \in Existing : rows[i].student = student[t]
                \/ NotBeforeError(found[t], NewOwn(t))
             THEN "leave" ELSE "insert")
  /\ UNCHANGED <<table, owner, payload, local, asks>>

\* AUTOINCREMENT: an id is not used again.
\* Mutant: it is.
Again(i) == i
Later(i) == i + 1

\* insert_account, which the trigger on the table may refuse
NewRow(t) == [user |-> user[t], student |-> student[t], window |-> found[t], own |-> NewOwn(t)]
\* Mutant: without the trigger, UNIQUE only keeps a user from adding a student twice.
InsertUniquely(t) ==
  /\ pc[t] = "insert" /\ Goto(t, "leave")
  /\ \/ /\ \A i \in Existing : rows[i].student # student[t] \/ rows[i].user # user[t]
        /\ next \in Ids
        /\ rows' = [rows EXCEPT ![next] = NewRow(t)] /\ next' = Later(next)
     \/ /\ \E i \in Existing : rows[i].student = student[t] /\ rows[i].user = user[t]
        /\ UNCHANGED table
  /\ UNCHANGED <<owner, payload, local, asks>>
Insert(t) ==
  /\ pc[t] = "insert" /\ Goto(t, "leave")
  /\ \/ /\ \A i \in Existing : rows[i].student # student[t]
        /\ next \in Ids
        /\ rows' = [rows EXCEPT ![next] = NewRow(t)] /\ next' = Later(next)
     \/ /\ \E i \in Existing : rows[i].student = student[t]
        /\ UNCHANGED table
  /\ UNCHANGED <<owner, payload, local, asks>>

\* reset_not_before: a window that is new, or another, takes away a start time that
\* does not go with it.
\* Mutant: the start time stays.
Stays(a, w) == a.own
Reset(a, w) == IF w # a.window /\ NotBeforeError(w, a.own) THEN NoTime ELSE a.own

Timed(i, w, o) == [rows EXCEPT ![i] = [@ EXCEPT !.window = w, !.own = o]]

\* The rest of _update_locked, and _save_changes
SaveUpdate(t) ==
  LET a == account[t]
      w == IF found[t] = NoWindow THEN a.window ELSE found[t]
  IN  \/ own[t] # Kept /\ NotBeforeError(w, own[t]) /\ UNCHANGED rows
      \/ /\ own[t] # Kept /\ ~NotBeforeError(w, own[t])
         /\ rows' = Timed(id[t], w, own[t])
      \/ /\ own[t] = Kept
         /\ rows' = Timed(id[t], w, Reset(a, w))

\* _save_checkin_window: a window that is known is only replaced by one that the school
\* gives with its refusal.
SaveRun(t) ==
  LET a == account[t]
  IN  \E w \in SchoolWindows \cup {NoWindow}, outside \in BOOLEAN :
        IF (a.window = NoWindow \/ outside) /\ w # NoWindow
        THEN rows' = Timed(id[t], w, Reset(a, w))
        ELSE UNCHANGED rows

Save(t) ==
  /\ pc[t] = "save" /\ Goto(t, "leave")
  /\ IF op[t] = "run" THEN SaveRun(t) ELSE SaveUpdate(t)
  /\ UNCHANGED <<next, owner, payload, local, asks>>

\* send_credential_notice
Mail(t) ==
  /\ pc[t] = "mail" /\ Goto(t, "leave")
  /\ UNCHANGED <<table, owner, payload, local, asks>>

\* The blocks are left, the inner ones first.
Rank(k) == CASE k[1] = "add" -> 1 [] k[1] = "account" -> 2 [] OTHER -> 3
Held(t) == {k \in LockKeys : owner[k] = t}
Inner(t) == {k \in Held(t) : \A j \in Held(t) : Rank(j) <= Rank(k)}
Leave(t) ==
  /\ pc[t] = "leave"
  /\ \/ /\ \E k \in Inner(t) : Lock!Give(t, k)
        /\ UNCHANGED <<pc, payload, local>>
     \/ /\ Inner(t) = {} /\ UNCHANGED owner
        /\ pc' = [pc EXCEPT ![t] = "idle"]
        /\ op' = [op EXCEPT ![t] = "none"] /\ id' = [id EXCEPT ![t] = 0]
        /\ user' = [user EXCEPT ![t] = NoUser] /\ student' = [student EXCEPT ![t] = NoStudent]
        /\ own' = [own EXCEPT ![t] = Kept] /\ probing' = [probing EXCEPT ![t] = FALSE]
        /\ account' = [account EXCEPT ![t] = NoRow] /\ found' = [found EXCEPT ![t] = NoWindow]
  /\ UNCHANGED <<table, want, asks>>

Ask1(t) ==
  \/ \E u \in Users, s \in Students, o \in OwnTimes \cup {NoTime, Kept} : AskCreate(t, u, s, o)
  \/ \E i \in Existing, o \in OwnTimes \cup {NoTime, Kept} : AskUpdate(t, i, o)
  \/ \E i \in Existing, o \in {"delete", "run", "notice"} : AskOther(t, i, o)
Work(t) ==
  \/ Enter(t) \/ Look(t) \/ Reread(t) \/ Login(t) \/ Taken(t) \/ Insert(t) \/ Save(t)
  \/ Mail(t) \/ Leave(t)

Next == \E t \in Threads : Ask1(t) \/ Work(t)
Spec == Init /\ [][Next]_vars
-----------------------------------------------------------------------------
(* Properties. *)

\* However many users add a student at once, one of them has it: the trigger decides,
\* not the look at the table before it.
OneAccountPerStudent ==
  \A i, j \in Existing : rows[i].student = rows[j].student => i = j

\* A user's places are counted long before the row is written; the add lock keeps two
\* creations from counting the same place.
QuotaKept == \A u \in Users : Cardinality({i \in Existing : rows[i].user = u}) <= MaxAccounts

\* Whatever the user and the school change, in whatever order, the start time leaves the
\* scheduler a minute of the day for the account.  One start time does not, and is accepted
\* all the same: at the minute where the window ends it leaves a second, which the tick
\* meets by chance.
TimeLeft == \A i \in Existing : LeavesTime(rows[i].window, rows[i].own)

\* For no row do the pages and the scheduler differ about the time but in the last minute
\* of its window, and all day if the window ends at the minute where it begins.
WindowsAgree == \A i \in Existing : Agree(rows[i].window, rows[i].own)

\* Nobody waits in a circle: in every set of threads, one does not wait for another or
\* for itself.
NoCircularWait ==
  \A S \in SUBSET Threads : S # {} =>
    \E t \in S : want[t] = NoKey \/ owner[want[t]] \notin S
=============================================================================
