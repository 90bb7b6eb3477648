----------------------------- MODULE LoginCodes -----------------------------
(***************************************************************************)
(* app/auth.py for one email address: codes are requested, mailed, guessed *)
(* and consumed by requests that run at the same time, and a consumed code *)
(* opens a session.  The limits per address of the client and what is in a *)
(* code are left out: a guess is right or wrong.                           *)
(*                                                                         *)
(* now is a clock that stops at MaxTime.  A clock that is read twice in    *)
(* one action is read once.                                                *)
(***************************************************************************)
EXTENDS Integers, FiniteSets, FiniteSetsExt

CONSTANTS
  Threads,      \* requests at work
  NoCode,
  Cooldown,     \* code_cooldown_seconds
  Day,          \* the day of login_code_daily_max and of purge_codes_older_than
  DailyMax,     \* login_code_daily_max
  CodeLife,     \* code_minutes
  MaxAttempts,  \* MAX_CODE_ATTEMPTS
  MaxSessions,  \* max_sessions_per_user
  SessionLife,  \* session_days
  MaxCodes, MaxTime  \* bounds of the model

ASSUME ThreadAssumption == IsFiniteSet(Threads)

ASSUME LimitAssumption ==
  /\ Cooldown \in Nat \ {0} /\ Day \in Nat \ {0} /\ Cooldown <= Day
  /\ DailyMax \in Nat \ {0} /\ CodeLife \in 1..Day
  /\ MaxAttempts \in Nat \ {0} /\ MaxSessions \in Nat \ {0} /\ SessionLife \in Nat \ {0}
  /\ MaxCodes \in Nat /\ MaxTime \in Nat

Ids == 1..MaxCodes
Times == 0..MaxTime

VARIABLES
  now,
  lastId,    \* the sequence of login_codes.id, which never gives an id twice
  codes,     \* login_codes
  sessions,  \* sessions, each with the number of its login instead of a token
  job,       \* what each request is about to do
  issued,    \* history: when each code was made,
  revoked,   \* which were withdrawn,
  opened,    \* the code of each login,
  ended      \* and the logins that were logged out or expired

vars == <<now, lastId, codes, sessions, job, issued, revoked, opened, ended>>
history == <<issued, revoked, opened, ended>>

Codes == [made : Times, used : BOOLEAN, attempts : Nat]
ASSUME NoCodeAssumption == NoCode \notin Codes

Idle == [op |-> "idle"]
Jobs == {Idle} \cup [op : {"mail", "bump"}, code : Ids]
               \cup [op : {"consume"}, code : Ids, at : Times]
Sessions == [nth : Nat \ {0}, until : Nat]

TypeOK ==
  /\ now \in Times /\ lastId \in 0..MaxCodes
  /\ codes \in [Ids -> Codes \cup {NoCode}]
  /\ sessions \subseteq Sessions
  /\ job \in [Threads -> Jobs]
  /\ issued \in [1..lastId -> Times] /\ revoked \subseteq 1..lastId
  /\ DOMAIN opened \subseteq Nat /\ \A n \in DOMAIN opened : opened[n] \in 1..lastId
  /\ ended \subseteq DOMAIN opened /\ {s.nth : s \in sessions} \subseteq DOMAIN opened
  /\ \A i \in Ids : codes[i] # NoCode => i \in 1..lastId \ revoked /\ codes[i].made = issued[i]

Init ==
  /\ now = 0 /\ lastId = 0 /\ codes = [i \in Ids |-> NoCode]
  /\ sessions = {} /\ job = [t \in Threads |-> Idle]
  /\ issued = [i \in {} |-> 0] /\ revoked = {} /\ opened = [n \in {} |-> 0] /\ ended = {}

Kept == {i \in Ids : codes[i] # NoCode}
Do(t, j) == job' = [job EXCEPT ![t] = j]
-----------------------------------------------------------------------------
(* request_login_code. *)

\* Mutant: only codes that were not used count.
AllowedUnused ==
  LET rows == {i \in Kept : ~codes[i].used}
  IN  /\ rows # {} => now - codes[Max(rows)].made >= Cooldown
      /\ Cardinality({i \in rows : codes[i].made >= now - Day}) < DailyMax

\* The latest request is a Cooldown ago, and the day's quota is not used up.
Allowed ==
  /\ Kept # {} => now - codes[Max(Kept)].made >= Cooldown
  /\ Cardinality({i \in Kept : codes[i].made >= now - Day}) < DailyMax

\* The limits and the insert are one transaction, so that requests see each other.
Request(t) ==
  /\ job[t] = Idle /\ lastId < MaxCodes /\ Allowed
  /\ lastId' = lastId + 1
  /\ codes' = [codes EXCEPT ![lastId'] = [made |-> now, used |-> FALSE, attempts |-> 0]]
  /\ issued' = [i \in 1..lastId' |-> IF i = lastId' THEN now ELSE issued[i]]
  /\ Do(t, [op |-> "mail", code |-> lastId'])
  /\ UNCHANGED <<now, sessions, revoked, opened, ended>>

\* The mail is sent, or the code is withdrawn.
Mail(t) ==
  /\ job[t].op = "mail"
  /\ \/ UNCHANGED <<codes, revoked>>
     \/ /\ codes' = [codes EXCEPT ![job[t].code] = NoCode]
        /\ revoked' = revoked \cup {job[t].code}
  /\ Do(t, Idle)
  /\ UNCHANGED <<now, lastId, sessions, issued, opened, ended>>
-----------------------------------------------------------------------------
(* verify_login_code. *)

Unused == {i \in Kept : ~codes[i].used}

\* Mutant: the attempts are not looked at.
GuessEver(t) ==
  /\ job[t] = Idle /\ Unused # {}
  /\ LET i == Max(Unused)
     IN  /\ now <= codes[i].made + CodeLife
         /\ \/ Do(t, [op |-> "bump", code |-> i])
            \/ Do(t, [op |-> "consume", code |-> i, at |-> now])
  /\ UNCHANGED <<now, lastId, codes, sessions, history>>

\* The latest unused code is read; it has not expired and has attempts left.
\* The guess is wrong or right.
Guess(t) ==
  /\ job[t] = Idle /\ Unused # {}
  /\ LET i == Max(Unused)
     IN  /\ now <= codes[i].made + CodeLife /\ codes[i].attempts < MaxAttempts
         /\ \/ Do(t, [op |-> "bump", code |-> i])
            \/ Do(t, [op |-> "consume", code |-> i, at |-> now])
  /\ UNCHANGED <<now, lastId, codes, sessions, history>>

\* Mutant: the row is written back, there or not.
BumpStale(t) ==
  /\ job[t].op = "bump"
  /\ codes' = [codes EXCEPT ![job[t].code] =
                 IF @ = NoCode THEN [made |-> issued[job[t].code], used |-> FALSE, attempts |-> 1]
                               ELSE [@ EXCEPT !.attempts = @ + 1]]
  /\ Do(t, Idle)
  /\ UNCHANGED <<now, lastId, sessions, history>>

\* A wrong guess counts, whatever became of the code.
Bump(t) ==
  /\ job[t].op = "bump"
  /\ LET i == job[t].code
     IN  \/ i \in Kept /\ codes' = [codes EXCEPT ![i].attempts = @ + 1]
         \/ i \notin Kept /\ UNCHANGED codes
  /\ Do(t, Idle)
  /\ UNCHANGED <<now, lastId, sessions, history>>

\* Mutant: the oldest sessions are kept.
TrimNewest(rows) == {s \in rows : Cardinality({r \in rows : r.nth < s.nth}) < MaxSessions}

\* trim_sessions: the newest rows are kept.
Trim(rows) == {s \in rows : Cardinality({r \in rows : r.nth > s.nth}) < MaxSessions}

\* Mutant: whether the code is used was looked at before the transaction.
ConsumableStale(c) == c # NoCode /\ c.attempts < MaxAttempts

\* The WHERE of consume_login_code.
Consumable(c) == c # NoCode /\ ~c.used /\ c.attempts < MaxAttempts

Logins == Cardinality(DOMAIN opened)

\* A right guess: the code is consumed and opens a session in one transaction,
\* unless another request was faster.
Consume(t) ==
  /\ job[t].op = "consume"
  /\ LET i == job[t].code
         n == Logins + 1
     IN  \/ /\ Consumable(codes[i])
            /\ codes' = [codes EXCEPT ![i].used = TRUE]
            /\ sessions' = Trim(sessions \cup {[nth |-> n, until |-> job[t].at + SessionLife]})
            /\ opened' = [m \in DOMAIN opened \cup {n} |-> IF m = n THEN i ELSE opened[m]]
         \/ ~Consumable(codes[i]) /\ UNCHANGED <<codes, sessions, opened>>
  /\ Do(t, Idle)
  /\ UNCHANGED <<now, lastId, issued, revoked, ended>>
-----------------------------------------------------------------------------
(* destroy_session, resolve_session and maintenance. *)

End(gone) ==
  /\ sessions' = sessions \ gone /\ ended' = ended \cup {s.nth : s \in gone}
  /\ UNCHANGED <<now, lastId, codes, job, issued, revoked, opened>>

Logout == \E s \in sessions : End({s})

\* A session is found expired when it is used.
Resolve == \E s \in sessions : now > s.until /\ End({s})

PurgeSessions ==
  /\ \E s \in sessions : s.until <= now
  /\ End({s \in sessions : s.until <= now})

\* Mutant: codes go as soon as they have expired.
PurgeCodesEarly ==
  /\ codes' = [i \in Ids |-> IF codes[i] # NoCode /\ codes[i].made + CodeLife <= now
                             THEN NoCode ELSE codes[i]]
  /\ UNCHANGED <<now, lastId, sessions, job, history>>

PurgeCodes ==
  /\ codes' = [i \in Ids |-> IF codes[i] # NoCode /\ codes[i].made <= now - Day
                             THEN NoCode ELSE codes[i]]
  /\ UNCHANGED <<now, lastId, sessions, job, history>>

Tick ==
  /\ now < MaxTime
  /\ now' = now + 1
  /\ UNCHANGED <<lastId, codes, sessions, job, history>>

\* The process ends and is started again.
Crash ==
  /\ job' = [t \in Threads |-> Idle]
  /\ UNCHANGED <<now, lastId, codes, sessions, history>>

Next ==
  \/ \E t \in Threads : Request(t) \/ Mail(t) \/ Guess(t) \/ Bump(t) \/ Consume(t)
  \/ Logout \/ Resolve \/ PurgeSessions \/ PurgeCodes \/ Tick \/ Crash

Spec == Init /\ [][Next]_vars
-----------------------------------------------------------------------------
(* Properties. *)

Valid == 1..lastId \ revoked

\* Codes that were not withdrawn are a Cooldown apart, although requests run at
\* the same time and codes are used, expire and are purged in between.
CodesSpaced == \A i, j \in Valid : i < j => issued[j] - issued[i] >= Cooldown

\* No day holds more of them than login_code_daily_max, wherever it begins and
\* whatever the maintenance has deleted.
DailyLimit ==
  \A d \in Times : Cardinality({i \in Valid : issued[i] \in d..(d + Day - 1)}) <= DailyMax

\* A code opens one session at most, however many requests have it at hand.
OneSessionPerCode == \A m, n \in DOMAIN opened : opened[m] = opened[n] => m = n

\* Requests that guess at the same time may pass MAX_CODE_ATTEMPTS, but only by
\* those that were under way.
GuessesBounded ==
  \A i \in Kept : codes[i].attempts < MaxAttempts + Cardinality(Threads)

\* A user is logged in at most max_sessions_per_user times, and a login ends only
\* by its owner, its age, or as many logins after it.
SessionsKept ==
  /\ Cardinality(sessions) <= MaxSessions
  /\ \A n \in DOMAIN opened :
       n \in ended \/ Logins - n >= MaxSessions \/ \E s \in sessions : s.nth = n
=============================================================================
