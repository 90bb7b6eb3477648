--------------------------- MODULE LoginCodesProof ---------------------------
(***************************************************************************)
(* Proofs about LoginCodes, for any finite number of requests at work, any *)
(* limits and any length of time.  The inductive invariant IInv says what  *)
(* a code that has been deleted leaves behind, which codes may still open  *)
(* a session, how many guesses are under way, and that logins are numbered *)
(* in their order.                                                         *)
(***************************************************************************)
EXTENDS LoginCodes, FiniteSetTheorems, WellFoundedInduction, TLAPS

\* The requests that have guessed wrong and have not counted it yet.
Bumping(i) == {t \in Threads : job[t].op = "bump" /\ job[t].code = i}

JobsOK == \A t \in Threads : job[t] # Idle => job[t].code \in 1..lastId

\* A code that was not withdrawn and is no longer there is older than a Day.
AgesOK ==
  \A i \in Valid : issued[i] <= now /\ (codes[i] = NoCode => issued[i] + Day <= now)

\* Logins are numbered, and a code that has opened one cannot open another.
LoginsOK ==
  /\ Logins \in Nat /\ DOMAIN opened = 1..Logins
  /\ \A n \in DOMAIN opened : codes[opened[n]] # NoCode => codes[opened[n]].used

RowsOK ==
  /\ IsFiniteSet(sessions)
  /\ \A r, s \in sessions : r.nth = s.nth => r = s

GuessesOK ==
  \A i \in Kept :
    codes[i].attempts + Cardinality(Bumping(i)) < MaxAttempts + Cardinality(Threads)

LimitsOK == AgesOK /\ CodesSpaced /\ DailyLimit
OpenedOK == LoginsOK /\ OneSessionPerCode
RowsKept == RowsOK /\ SessionsKept

IInv == TypeOK /\ JobsOK /\ LimitsOK /\ OpenedOK /\ RowsKept /\ GuessesOK
-----------------------------------------------------------------------------
(* Finite sets: least elements, and what Max is. *)

\* A finite set that is not empty has a least element of any strict order.
LEMMA Least ==
  ASSUME NEW S, IsFiniteSet(S), S # {}, NEW R,
         \A x \in S : <<x, x>> \notin R,
         \A x, y, z \in S : <<x, y>> \in R /\ <<y, z>> \in R => <<x, z>> \in R
  PROVE  \E x \in S : \A y \in S : <<y, x>> \notin R
<1> DEFINE Below(x) == {y \in S : <<y, x>> \in R}
           Bs == {Below(x) : x \in S}
<1>1. IsWellFoundedOn(StrictSubsetOrdering(S), FiniteSubsetsOf(S))
  BY FS_StrictSubsetOrderingWellFounded
<1>2. FiniteSubsetsOf(S) = SUBSET S
  BY FS_FiniteSubsetsOfFinite
<1>3. Bs \subseteq SUBSET S /\ Bs # {}
  <2>1. PICK x : x \in S
    OBVIOUS
  <2>2. Below(x) \in Bs
    BY <2>1
  <2> QED
    BY <2>2
<1>4. PICK B \in Bs : \A C \in Bs : <<C, B>> \notin StrictSubsetOrdering(S)
  <2> HIDE DEF Bs
  <2> QED
    BY <1>1, <1>2, <1>3, WFMin
<1>5. PICK x \in S : B = Below(x)
  OBVIOUS
<1>6. ASSUME NEW y \in Below(x) PROVE FALSE
  <2>1. y \in S /\ Below(y) \in Bs
    OBVIOUS
  <2>2. Below(y) \subseteq B /\ Below(y) # B
    BY <1>5, <1>6, <2>1
  <2>3. <<Below(y), B>> \in StrictSubsetOrdering(S)
    BY <1>3, <2>1, <2>2 DEF StrictSubsetOrdering
  <2> QED
    BY <1>4, <2>1, <2>3
<1> QED
  BY <1>6

LEMMA MaxOfNumbers ==
  ASSUME NEW S \in SUBSET Int, IsFiniteSet(S), S # {}
  PROVE  Max(S) \in S /\ \A y \in S : y <= Max(S)
<1> DEFINE R == {p \in S \X S : p[1] > p[2]}
<1>1. \A x \in S : <<x, x>> \notin R
  OBVIOUS
<1>2. \A x, y, z \in S : <<x, y>> \in R /\ <<y, z>> \in R => <<x, z>> \in R
  OBVIOUS
<1>3. \A x, y \in S : <<y, x>> \notin R => x >= y
  OBVIOUS
<1> HIDE DEF R
<1>4. \E x \in S : \A y \in S : <<y, x>> \notin R
  BY <1>1, <1>2, Least
<1>5. \E x \in S : \A y \in S : x >= y
  BY <1>3, <1>4
<1> QED
  BY <1>5 DEF Max

\* The rows of codes, and those of them that were not used.
LEMMA KeptMax ==
  ASSUME NEW S \in SUBSET Ids, S # {}
  PROVE  IsFiniteSet(S) /\ Max(S) \in S /\ \A i \in S : i <= Max(S)
<1>1. Ids \subseteq Int /\ IsFiniteSet(Ids)
  BY LimitAssumption, FS_Interval DEF Ids
<1>2. IsFiniteSet(S)
  BY <1>1, FS_Subset
<1> QED
  BY <1>1, <1>2, MaxOfNumbers

LEMMA Numbers ==
  ASSUME IInv
  PROVE  /\ now \in Nat /\ lastId \in Nat /\ lastId <= MaxCodes /\ issued \in [1..lastId -> Times]
         /\ \A i \in 1..lastId : issued[i] \in Nat /\ i \in Ids
         /\ Valid \subseteq 1..lastId /\ IsFiniteSet(Valid)
         /\ \A i \in Kept : /\ i \in Valid /\ codes[i] \in Codes /\ codes[i].made = issued[i]
                            /\ codes[i].attempts \in Nat /\ codes[i].used \in BOOLEAN
<1>1. TypeOK /\ MaxCodes \in Nat /\ MaxTime \in Nat
  BY LimitAssumption DEF IInv
<1>2. now \in Nat /\ lastId \in Nat /\ lastId <= MaxCodes
  BY <1>1 DEF TypeOK, Times
<1>3. issued \in [1..lastId -> Times] /\ \A i \in 1..lastId : issued[i] \in Nat /\ i \in Ids
  BY <1>1, <1>2 DEF TypeOK, Times, Ids
<1>4. Valid \subseteq 1..lastId /\ IsFiniteSet(1..lastId)
  BY <1>2, FS_Interval DEF Valid
<1>5. IsFiniteSet(Valid)
  BY <1>4, FS_Subset
<1>6. ASSUME NEW i \in Kept
      PROVE  /\ i \in Valid /\ codes[i] \in Codes /\ codes[i].made = issued[i]
             /\ codes[i].attempts \in Nat /\ codes[i].used \in BOOLEAN
  <2>1. i \in Ids /\ codes[i] # NoCode /\ codes[i] \in Codes
    BY <1>1 DEF Kept, TypeOK
  <2>2. codes[i].attempts \in Nat /\ codes[i].used \in BOOLEAN
    BY <2>1 DEF Codes
  <2> QED
    BY <1>1, <2>1, <2>2 DEF TypeOK, Valid
<1> QED
  BY <1>2, <1>3, <1>4, <1>5, <1>6
-----------------------------------------------------------------------------
(* The limits of requests. *)

\* Without a new code the limits stay kept, whatever is used or withdrawn, if
\* only what is older than a Day is deleted.
LEMMA LimitsStay ==
  ASSUME IInv, now' \in Nat, now' >= now, lastId' = lastId, issued' = issued,
         revoked \subseteq revoked',
         \A i \in Valid' : codes'[i] = NoCode => codes[i] = NoCode \/ issued[i] + Day <= now
  PROVE  LimitsOK'
<1>1. Valid' \subseteq Valid
  BY DEF Valid
<1>2. Day \in Nat /\ DailyMax \in Nat
  BY LimitAssumption
<1>3. AgesOK'
  BY <1>1, <1>2, Numbers DEF IInv, LimitsOK, AgesOK
<1>4. CodesSpaced'
  BY <1>1 DEF IInv, LimitsOK, CodesSpaced
<1>5. ASSUME NEW d \in Times
      PROVE  Cardinality({i \in Valid' : issued'[i] \in d..(d + Day - 1)}) <= DailyMax
  <2> DEFINE S == {i \in Valid : issued[i] \in d..(d + Day - 1)}
             T == {i \in Valid' : issued'[i] \in d..(d + Day - 1)}
  <2>1. T \in SUBSET S /\ S \in SUBSET Valid
    BY <1>1
  <2>2. Cardinality(S) <= DailyMax
    BY DEF IInv, LimitsOK, DailyLimit
  <2>3. IsFiniteSet(S) /\ IsFiniteSet(Valid)
    BY <2>1, Numbers, FS_Subset
  <2> HIDE DEF S, T
  <2>4. IsFiniteSet(T) /\ Cardinality(T) <= Cardinality(S)
    BY <2>1, <2>3, FS_Subset
  <2>5. Cardinality(S) \in Nat /\ Cardinality(T) \in Nat
    BY <2>3, <2>4, FS_CardinalityType
  <2>6. Cardinality(T) <= DailyMax
    BY <1>2, <2>2, <2>4, <2>5
  <2> QED
    BY <2>6 DEF T
<1>6. DailyLimit'
  BY <1>5 DEF DailyLimit, Times
<1> QED
  BY <1>3, <1>4, <1>6 DEF LimitsOK

\* A new code keeps them: every earlier one is still there, and was looked at,
\* or is older than a Day.
LEMMA RequestLimits ==
  ASSUME IInv, NEW t \in Threads, Request(t)
  PROVE  LimitsOK'
<1> DEFINE n == lastId + 1
<1>1. /\ now' = now /\ lastId' = n /\ revoked' = revoked /\ now \in Times
      /\ issued' = [i \in 1..n |-> IF i = n THEN now ELSE issued[i]]
      /\ codes' = [codes EXCEPT ![n] = [made |-> now, used |-> FALSE, attempts |-> 0]]
  BY DEF Request, IInv, TypeOK
<1>2. /\ Cooldown \in Nat /\ Day \in Nat /\ Cooldown <= Day /\ DailyMax \in Nat /\ now \in Nat
      /\ lastId \in Nat
  BY LimitAssumption, Numbers
<1>3. n \in Ids /\ codes \in [Ids -> Codes \cup {NoCode}]
  BY <1>2, LimitAssumption DEF Request, IInv, TypeOK, Ids
<1>4. issued'[n] = now /\ \A i \in 1..lastId : issued'[i] = issued[i] /\ codes'[i] = codes[i]
  BY <1>1, <1>2, <1>3 DEF Ids
<1>5. Valid' \subseteq Valid \cup {n} /\ n \notin Valid
  BY <1>1, <1>2 DEF Valid
<1>6. codes'[n] # NoCode
  <2> DEFINE c == [made |-> now, used |-> FALSE, attempts |-> 0]
  <2>1. c \in Codes
    BY <1>1 DEF Codes
  <2>2. codes'[n] = c
    BY <1>1, <1>3
  <2> QED
    BY <2>1, <2>2, NoCodeAssumption
<1>7. AgesOK'
  BY <1>1, <1>2, <1>4, <1>5, <1>6, Numbers DEF IInv, LimitsOK, AgesOK
<1>8. ASSUME NEW i \in Valid PROVE now - issued[i] >= Cooldown
  <2>1. issued[i] \in Nat /\ i \in Ids /\ i \in 1..lastId
    BY Numbers
  <2>2. CASE codes[i] = NoCode
    BY <1>2, <2>1, <2>2 DEF IInv, LimitsOK, AgesOK
  <2>3. CASE codes[i] # NoCode
    <3>1. i \in Kept /\ Kept \in SUBSET Ids
      BY <2>1, <2>3 DEF Kept
    <3>2. PICK m \in Kept : m = Max(Kept) /\ i <= m
      BY <3>1, KeptMax
    <3>3. now - codes[m].made >= Cooldown
      BY <3>1, <3>2 DEF Request, Allowed
    <3>4. m \in Valid /\ codes[m].made = issued[m] /\ issued[m] \in Nat /\ m \in Int
      BY Numbers DEF Valid
    <3>5. i # m => issued[m] - issued[i] >= Cooldown
      BY <2>1, <3>2, <3>4 DEF IInv, LimitsOK, CodesSpaced
    <3> QED
      BY <1>2, <2>1, <3>3, <3>4, <3>5
  <2> QED
    BY <2>2, <2>3
<1>9. CodesSpaced'
  <2> SUFFICES ASSUME NEW i \in Valid', NEW j \in Valid', i < j
               PROVE  issued'[j] - issued'[i] >= Cooldown
    BY DEF CodesSpaced
  <2>1. i \in Valid
    BY <1>1, <1>2, <1>5 DEF Valid
  <2>2. CASE j \in Valid
    BY <1>4, <2>1, <2>2, Numbers DEF IInv, LimitsOK, CodesSpaced
  <2>3. CASE j = n
    BY <1>4, <1>8, <2>1, <2>3, Numbers
  <2> QED
    BY <1>5, <2>2, <2>3
<1>10. ASSUME NEW d \in Times
       PROVE  Cardinality({i \in Valid' : issued'[i] \in d..(d + Day - 1)}) <= DailyMax
  <2> DEFINE S == {i \in Valid : issued[i] \in d..(d + Day - 1)}
             T == {i \in Valid' : issued'[i] \in d..(d + Day - 1)}
             K == {i \in Kept : codes[i].made >= now - Day}
  <2>1. IsFiniteSet(S) /\ Cardinality(S) <= DailyMax
    <3>1. S \in SUBSET Valid
      OBVIOUS
    <3> QED
      BY <3>1, Numbers, FS_Subset DEF IInv, LimitsOK, DailyLimit
  <2>2. d \in Nat
    BY LimitAssumption DEF Times
  <2>3. CASE now \notin d..(d + Day - 1)
    <3>1. T \in SUBSET S
      BY <1>4, <1>5, <2>3, Numbers
    <3> HIDE DEF S, T
    <3>2. IsFiniteSet(T) /\ Cardinality(T) <= Cardinality(S)
      BY <2>1, <3>1, FS_Subset
    <3>3. Cardinality(S) \in Nat /\ Cardinality(T) \in Nat
      BY <2>1, <3>2, FS_CardinalityType
    <3>4. Cardinality(T) <= DailyMax
      BY <1>2, <2>1, <3>2, <3>3
    <3> QED
      BY <3>4 DEF T
  <2>4. CASE now \in d..(d + Day - 1)
    <3>1. ASSUME NEW i \in S PROVE i \in K
      <4>1. /\ i \in Valid /\ i \in Ids /\ issued[i] \in Nat /\ issued[i] >= d
            /\ now <= d + Day - 1
        BY <2>2, <2>4, <1>2, Numbers
      <4>2. codes[i] # NoCode
        BY <1>2, <2>2, <4>1 DEF IInv, LimitsOK, AgesOK
      <4>3. i \in Kept /\ codes[i].made = issued[i]
        BY <4>1, <4>2, Numbers DEF Kept
      <4> QED
        BY <1>2, <2>2, <4>1, <4>3
    <3>2. IsFiniteSet(K) /\ Cardinality(K) < DailyMax
      <4>1. K \in SUBSET Valid
        BY Numbers
      <4> QED
        BY <4>1, Numbers, FS_Subset DEF Request, Allowed
    <3>3. T \in SUBSET (S \cup {n})
      BY <1>4, <1>5, Numbers
    <3> HIDE DEF S, T, K, n
    <3>4. Cardinality(S) <= Cardinality(K)
      <4>1. S \in SUBSET K
        BY <3>1
      <4> QED
        BY <4>1, <3>2, FS_Subset
    <3>5. /\ IsFiniteSet(S \cup {n}) /\ Cardinality(S) \in Nat /\ Cardinality(K) \in Nat
          /\ Cardinality(S \cup {n}) <= Cardinality(S) + 1
      <4>1. Cardinality(S) \in Nat /\ Cardinality(K) \in Nat
        BY <2>1, <3>2, FS_CardinalityType
      <4>2. /\ IsFiniteSet(S \cup {n})
            /\ Cardinality(S \cup {n}) \in {Cardinality(S), Cardinality(S) + 1}
        BY <2>1, FS_AddElement
      <4> QED
        BY <4>1, <4>2
    <3>6. IsFiniteSet(T) /\ Cardinality(T) <= Cardinality(S \cup {n})
      BY <3>3, <3>5, FS_Subset
    <3>7. Cardinality(T) \in Nat /\ Cardinality(S \cup {n}) \in Nat
      BY <3>5, <3>6, FS_CardinalityType
    <3>8. Cardinality(T) <= DailyMax
      BY <1>2, <3>2, <3>4, <3>5, <3>6, <3>7
    <3> QED
      BY <3>8 DEF T
  <2> QED
    BY <2>3, <2>4
<1>11. DailyLimit'
  BY <1>10 DEF DailyLimit, Times
<1> QED
  BY <1>7, <1>9, <1>11 DEF LimitsOK
-----------------------------------------------------------------------------
(* What requests have at hand. *)

LEMMA JobTypes ==
  ASSUME IInv, NEW t \in Threads
  PROVE  /\ job[t] \in Jobs
         /\ job[t] # Idle => job[t].code \in 1..lastId /\ job[t].code \in Ids
         /\ job[t].op # "idle" => job[t] # Idle
         /\ job[t].op = "consume" => job[t].at \in Nat
<1>1. job[t] \in Jobs /\ (job[t] # Idle => job[t].code \in 1..lastId)
  BY DEF IInv, TypeOK, JobsOK
<1>2. job[t].op # "idle" => job[t] # Idle
  BY DEF Idle
<1>3. job[t].op = "consume" => job[t].at \in Times
  BY <1>1 DEF Jobs, Idle
<1>4. Times \subseteq Nat
  BY LimitAssumption DEF Times
<1> QED
  BY <1>1, <1>2, <1>3, <1>4, Numbers

LEMMA JobMade ==
  /\ Idle \in Jobs /\ Idle.op = "idle"
  /\ \A i \in Ids : /\ [op |-> "mail", code |-> i] \in Jobs
                    /\ [op |-> "bump", code |-> i] \in Jobs
                    /\ \A a \in Times : [op |-> "consume", code |-> i, at |-> a] \in Jobs
BY DEF Jobs, Idle

LEMMA BumpingCount ==
  ASSUME NEW i
  PROVE  /\ IsFiniteSet(Bumping(i)) /\ Cardinality(Bumping(i)) \in Nat
         /\ Cardinality(Threads) \in Nat /\ Cardinality(Bumping(i)) <= Cardinality(Threads)
<1>1. Bumping(i) \in SUBSET Threads
  BY DEF Bumping
<1> QED
  BY <1>1, ThreadAssumption, FS_Subset, FS_CardinalityType

\* The job of t changes, and the others' do not.
LEMMA JobStep ==
  ASSUME IInv, NEW t \in Threads, NEW j \in Jobs, Do(t, j),
         lastId' \in Nat, lastId' >= lastId, j # Idle => j.code \in 1..lastId'
  PROVE  /\ job' \in [Threads -> Jobs] /\ JobsOK' /\ job'[t] = j
         /\ \A u \in Threads \ {t} : job'[u] = job[u]
<1>1. job \in [Threads -> Jobs] /\ lastId \in Nat
  BY Numbers DEF IInv, TypeOK
<1>2. /\ job' \in [Threads -> Jobs] /\ job'[t] = j
      /\ \A u \in Threads \ {t} : job'[u] = job[u]
  BY <1>1 DEF Do
<1> QED
  BY <1>1, <1>2 DEF IInv, JobsOK

\* The guesses under way of a code, when no request begins to count one.
LEMMA GuessesStay ==
  ASSUME IInv, \A t \in Threads : job'[t].op = "bump" => job'[t] = job[t],
         \A i \in Kept' : i \in Kept /\ codes'[i].attempts = codes[i].attempts
  PROVE  GuessesOK'
<1> SUFFICES ASSUME NEW i \in Kept'
             PROVE  codes'[i].attempts + Cardinality(Bumping(i)')
                      < MaxAttempts + Cardinality(Threads)
  BY DEF GuessesOK
<1> DEFINE B == Bumping(i)
           C == Bumping(i)'
<1>1. C \in SUBSET B
  BY DEF Bumping
<1>2. IsFiniteSet(B) /\ Cardinality(B) \in Nat /\ Cardinality(Threads) \in Nat
  BY BumpingCount
<1>3. codes[i].attempts \in Nat /\ codes'[i].attempts = codes[i].attempts
      /\ codes[i].attempts + Cardinality(B) < MaxAttempts + Cardinality(Threads)
  BY Numbers DEF IInv, GuessesOK
<1> HIDE DEF B, C
<1>4. IsFiniteSet(C) /\ Cardinality(C) <= Cardinality(B)
  BY <1>1, <1>2, FS_Subset
<1>5. Cardinality(C) \in Nat
  BY <1>4, FS_CardinalityType
<1>6. codes'[i].attempts + Cardinality(C) < MaxAttempts + Cardinality(Threads)
  BY <1>2, <1>3, <1>4, <1>5, LimitAssumption
<1> QED
  BY <1>6 DEF C

\* Codes that were used stay so, as long as they are there.
LEMMA OpenedStay ==
  ASSUME IInv, opened' = opened,
         \A i \in 1..lastId : codes'[i] # NoCode => codes[i] # NoCode /\ codes'[i].used = codes[i].used
  PROVE  OpenedOK'
<1>1. \A n \in DOMAIN opened : opened[n] \in 1..lastId
  BY DEF IInv, TypeOK
<1> QED
  BY <1>1 DEF IInv, OpenedOK, LoginsOK, OneSessionPerCode, Logins

LEMMA RowsStay ==
  ASSUME IInv, UNCHANGED <<sessions, opened, ended>>
  PROVE  RowsKept'
BY DEF IInv, RowsKept, RowsOK, SessionsKept, Logins

\* A step that only changes codes, keeps the type of what it does not change.
LEMMA TypeStays ==
  ASSUME IInv, UNCHANGED <<lastId, issued, sessions, opened, ended>>, now' \in Times,
         job' \in [Threads -> Jobs], codes' \in [Ids -> Codes \cup {NoCode}],
         revoked' \subseteq 1..lastId,
         \A i \in Ids : codes'[i] # NoCode =>
           codes[i] # NoCode /\ codes'[i].made = codes[i].made /\ i \notin revoked' \ revoked
  PROVE  TypeOK'
<1>1. TypeOK
  BY DEF IInv
<1>2. \A i \in Ids : codes'[i] # NoCode => i \in 1..lastId \ revoked' /\ codes'[i].made = issued[i]
  BY <1>1 DEF TypeOK
<1> QED
  BY <1>1, <1>2 DEF TypeOK
-----------------------------------------------------------------------------
(* The steps. *)

LEMMA RequestKeeps ==
  ASSUME IInv, NEW t \in Threads, Request(t)
  PROVE  IInv'
<1> DEFINE n == lastId + 1
           c == [made |-> now, used |-> FALSE, attempts |-> 0]
           j == [op |-> "mail", code |-> n]
<1>1. /\ UNCHANGED <<now, sessions, revoked, opened, ended>> /\ lastId' = n
      /\ issued' = [i \in 1..n |-> IF i = n THEN now ELSE issued[i]]
      /\ codes' = [codes EXCEPT ![n] = c] /\ Do(t, j)
      /\ lastId \in Nat /\ lastId < MaxCodes /\ lastId <= MaxCodes /\ MaxCodes \in Nat
  BY LimitAssumption, Numbers DEF Request
<1>2. /\ TypeOK /\ codes \in [Ids -> Codes \cup {NoCode}] /\ now \in Times
      /\ issued \in [1..lastId -> Times]
  BY DEF IInv, TypeOK
<1>3. n \in Ids /\ n \in 1..n /\ n \notin 1..lastId /\ 1..lastId \subseteq 1..n
  BY <1>1 DEF Ids
<1>4. c \in Codes /\ c # NoCode /\ c.made = now /\ c.attempts = 0
  <2>1. c \in Codes
    BY <1>2 DEF Codes
  <2> QED
    BY <2>1, NoCodeAssumption
<1>5. j \in Jobs /\ j.code = n /\ j.op = "mail"
  BY <1>3, JobMade
<1> HIDE DEF c, j
<1>6. /\ job' \in [Threads -> Jobs] /\ JobsOK' /\ job'[t] = j
      /\ \A u \in Threads \ {t} : job'[u] = job[u]
  BY <1>1, <1>3, <1>5, JobStep
<1>7. /\ codes' \in [Ids -> Codes \cup {NoCode}] /\ codes'[n] = c
      /\ \A i \in Ids \ {n} : codes'[i] = codes[i]
  BY <1>1, <1>2, <1>3, <1>4
<1>8. /\ issued' \in [1..n -> Times] /\ issued'[n] = now
      /\ \A i \in 1..lastId : issued'[i] = issued[i]
  BY <1>1, <1>2, <1>3
<1>9. TypeOK'
  <2>1. \A m \in DOMAIN opened : opened[m] \in 1..n
    BY <1>2, <1>3 DEF TypeOK
  <2>2. revoked \subseteq 1..n /\ n \notin revoked
    BY <1>2, <1>3 DEF TypeOK
  <2>3. ASSUME NEW i \in Ids, codes'[i] # NoCode
        PROVE  i \in 1..n \ revoked /\ codes'[i].made = issued'[i]
    <3>1. CASE i = n
      BY <1>3, <1>4, <1>7, <1>8, <2>2, <3>1
    <3>2. CASE i # n
      BY <1>2, <1>3, <1>7, <1>8, <2>3, <3>2 DEF TypeOK
    <3> QED
      BY <3>1, <3>2
  <2>4. lastId' \in 0..MaxCodes
    BY <1>1
  <2> HIDE DEF n
  <2> QED
    BY <1>1, <1>2, <1>6, <1>7, <1>8, <2>1, <2>2, <2>3, <2>4 DEF TypeOK
<1>10. OpenedOK'
  <2>1. \A m \in DOMAIN opened : opened[m] \in 1..lastId /\ codes'[opened[m]] = codes[opened[m]]
    BY <1>2, <1>3, <1>7, Numbers DEF TypeOK
  <2> QED
    BY <1>1, <2>1 DEF IInv, OpenedOK, LoginsOK, OneSessionPerCode, Logins
<1>11. RowsKept'
  BY <1>1, RowsStay
<1>12. GuessesOK'
  <2> SUFFICES ASSUME NEW i \in Kept'
               PROVE  codes'[i].attempts + Cardinality(Bumping(i)')
                        < MaxAttempts + Cardinality(Threads)
    BY DEF GuessesOK
  <2>1. Bumping(i)' \in SUBSET Bumping(i)
    BY <1>5, <1>6 DEF Bumping
  <2>2. /\ IsFiniteSet(Bumping(i)) /\ Cardinality(Bumping(i)) \in Nat
        /\ Cardinality(Threads) \in Nat /\ Cardinality(Bumping(i)) <= Cardinality(Threads)
    BY BumpingCount
  <2>3. /\ Cardinality(Bumping(i)') <= Cardinality(Bumping(i)) /\ Cardinality(Bumping(i)') \in Nat
    BY <2>1, <2>2, FS_Subset, FS_CardinalityType
  <2>4. MaxAttempts \in Nat \ {0}
    BY LimitAssumption
  <2>5. CASE i = n
    BY <1>4, <1>7, <2>2, <2>3, <2>4, <2>5
  <2>6. CASE i # n
    <3>1. i \in Kept /\ codes'[i] = codes[i]
      BY <1>7, <2>6 DEF Kept
    <3>2. codes[i].attempts \in Nat
          /\ codes[i].attempts + Cardinality(Bumping(i)) < MaxAttempts + Cardinality(Threads)
      BY <3>1, Numbers DEF IInv, GuessesOK
    <3> QED
      BY <2>2, <2>3, <2>4, <3>1, <3>2
  <2> QED
    BY <2>5, <2>6
<1> QED
  BY <1>6, <1>9, <1>10, <1>11, <1>12, RequestLimits DEF IInv

\* A mail that is not sent withdraws the code.
LEMMA MailKeeps ==
  ASSUME IInv, NEW t \in Threads, Mail(t)
  PROVE  IInv'
<1> DEFINE i == job[t].code
<1>1. /\ UNCHANGED <<now, lastId, sessions, issued, opened, ended>> /\ Do(t, Idle)
      /\ i \in 1..lastId /\ i \in Ids /\ lastId \in Nat /\ now \in Nat
      /\ \/ UNCHANGED <<codes, revoked>>
         \/ codes' = [codes EXCEPT ![i] = NoCode] /\ revoked' = revoked \cup {i}
  BY JobTypes, Numbers DEF Mail
<1>2. TypeOK /\ codes \in [Ids -> Codes \cup {NoCode}] /\ now \in Times /\ revoked \subseteq 1..lastId
  BY DEF IInv, TypeOK
<1> HIDE DEF i
<1>3. /\ job' \in [Threads -> Jobs] /\ JobsOK' /\ job'[t] = Idle
      /\ \A u \in Threads \ {t} : job'[u] = job[u]
  BY <1>1, JobMade, JobStep
<1>4. /\ codes' \in [Ids -> Codes \cup {NoCode}] /\ revoked' \subseteq 1..lastId
      /\ revoked \subseteq revoked'
      /\ \A k \in Ids : \/ codes'[k] = codes[k] /\ (k \in revoked' <=> k \in revoked)
                        \/ codes'[k] = NoCode /\ k \in revoked'
  BY <1>1, <1>2
<1>5. TypeOK'
  BY <1>1, <1>2, <1>3, <1>4, TypeStays
<1>6. LimitsOK'
  <2>1. \A k \in Valid' : codes'[k] = NoCode => codes[k] = NoCode
    BY <1>1, <1>4, Numbers DEF Valid
  <2> QED
    BY <1>1, <1>4, <2>1, LimitsStay
<1>7. OpenedOK'
  <2>1. \A k \in 1..lastId : codes'[k] # NoCode => codes'[k] = codes[k]
    BY <1>4, Numbers
  <2> QED
    BY <1>1, <2>1, OpenedStay
<1>8. GuessesOK'
  <2>1. \A u \in Threads : job'[u].op = "bump" => job'[u] = job[u]
    BY <1>3, JobMade
  <2>2. \A k \in Kept' : k \in Kept /\ codes'[k] = codes[k]
    BY <1>4 DEF Kept
  <2> QED
    BY <2>1, <2>2, GuessesStay
<1> QED
  BY <1>1, <1>3, <1>5, <1>6, <1>7, <1>8, RowsStay DEF IInv

\* A guess has a code at hand that has attempts left.
LEMMA GuessKeeps ==
  ASSUME IInv, NEW t \in Threads, Guess(t)
  PROVE  IInv'
<1> DEFINE i == Max(Unused)
<1>1. /\ UNCHANGED <<now, lastId, codes, sessions, issued, revoked, opened, ended>>
      /\ codes[i].attempts < MaxAttempts /\ now \in Nat /\ now \in Times
      /\ \/ Do(t, [op |-> "bump", code |-> i])
         \/ Do(t, [op |-> "consume", code |-> i, at |-> now])
  BY Numbers DEF Guess, history, IInv, TypeOK
<1>2. i \in Kept /\ i \in Ids /\ i \in 1..lastId /\ lastId \in Nat /\ codes[i].attempts \in Nat
  <2>1. Unused \in SUBSET Ids /\ Unused # {} /\ Unused \subseteq Kept
    BY DEF Unused, Kept, Guess
  <2>2. i \in Unused
    BY <2>1, KeptMax
  <2> HIDE DEF i
  <2> QED
    BY <2>1, <2>2, Numbers
<1> HIDE DEF i
<1>3. PICK j \in Jobs : /\ Do(t, j) /\ j.code = i /\ j.op \in {"bump", "consume"}
  BY <1>1, <1>2, JobMade
<1>4. /\ job' \in [Threads -> Jobs] /\ JobsOK' /\ job'[t] = j
      /\ \A u \in Threads \ {t} : job'[u] = job[u]
  BY <1>1, <1>2, <1>3, JobStep
<1>5. TypeOK'
  BY <1>1, <1>4, TypeStays DEF IInv, TypeOK
<1>6. LimitsOK'
  BY <1>1, LimitsStay
<1>7. OpenedOK'
  BY <1>1, OpenedStay
<1>8. GuessesOK'
  <2> SUFFICES ASSUME NEW k \in Kept'
               PROVE  codes'[k].attempts + Cardinality(Bumping(k)')
                        < MaxAttempts + Cardinality(Threads)
    BY DEF GuessesOK
  <2>1. k \in Kept /\ codes'[k] = codes[k] /\ codes[k].attempts \in Nat
    BY <1>1, Numbers DEF Kept
  <2>2. /\ Cardinality(Bumping(k)) \in Nat /\ Cardinality(Threads) \in Nat
        /\ IsFiniteSet(Bumping(k)) /\ MaxAttempts \in Nat
    BY BumpingCount, LimitAssumption
  <2>3. CASE k = i
    <3>1. Bumping(k)' \in SUBSET Threads
      BY DEF Bumping
    <3>2. /\ Cardinality(Bumping(k)') <= Cardinality(Threads) /\ Cardinality(Bumping(k)') \in Nat
      BY <3>1, ThreadAssumption, FS_Subset, FS_CardinalityType
    <3> QED
      BY <1>1, <2>1, <2>2, <2>3, <3>2
  <2>4. CASE k # i
    <3>1. Bumping(k)' \in SUBSET Bumping(k)
      BY <1>3, <1>4, <2>4 DEF Bumping
    <3>2. /\ Cardinality(Bumping(k)') <= Cardinality(Bumping(k)) /\ Cardinality(Bumping(k)') \in Nat
      BY <2>2, <3>1, FS_Subset, FS_CardinalityType
    <3>3. codes[k].attempts + Cardinality(Bumping(k)) < MaxAttempts + Cardinality(Threads)
      BY <2>1 DEF IInv, GuessesOK
    <3> QED
      BY <2>1, <2>2, <3>2, <3>3
  <2> QED
    BY <2>3, <2>4
<1> QED
  BY <1>1, <1>4, <1>5, <1>6, <1>7, <1>8, RowsStay DEF IInv

\* A wrong guess is counted: the request was one of those under way.
LEMMA BumpKeeps ==
  ASSUME IInv, NEW t \in Threads, Bump(t)
  PROVE  IInv'
<1> DEFINE i == job[t].code
<1>1. /\ UNCHANGED <<now, lastId, sessions, issued, revoked, opened, ended>> /\ Do(t, Idle)
      /\ i \in 1..lastId /\ i \in Ids /\ lastId \in Nat /\ now \in Nat
      /\ \/ i \in Kept /\ codes' = [codes EXCEPT ![i].attempts = @ + 1]
         \/ i \notin Kept /\ codes' = codes
      /\ job[t].op = "bump"
  BY JobTypes, Numbers DEF Bump, history
<1>2. TypeOK /\ codes \in [Ids -> Codes \cup {NoCode}] /\ now \in Times /\ revoked \subseteq 1..lastId
  BY DEF IInv, TypeOK
<1>i. t \in Bumping(i)
  BY <1>1 DEF Bumping
<1> HIDE DEF i
<1>3. /\ codes' \in [Ids -> Codes \cup {NoCode}] /\ (codes'[i] = NoCode <=> codes[i] = NoCode)
      /\ codes[i] # NoCode => /\ codes'[i] # NoCode /\ codes'[i].attempts = codes[i].attempts + 1
                       /\ codes'[i].used = codes[i].used /\ codes'[i].made = codes[i].made
      /\ \A k \in Ids \ {i} : codes'[k] = codes[k]
  <2>1. CASE i \notin Kept
    BY <1>1, <1>2, <2>1 DEF Kept
  <2>2. CASE i \in Kept
    <3> DEFINE c == [codes[i] EXCEPT !.attempts = @ + 1]
    <3>1. codes[i] \in Codes /\ codes[i].attempts \in Nat /\ codes[i] # NoCode
      BY <2>2, Numbers DEF Kept
    <3>2. /\ c \in Codes /\ c.attempts = codes[i].attempts + 1
          /\ c.used = codes[i].used /\ c.made = codes[i].made
      BY <3>1 DEF Codes
    <3>3. codes' = [codes EXCEPT ![i] = c]
      BY <1>1, <2>2
    <3>4. c # NoCode
      BY <3>2, NoCodeAssumption
    <3> HIDE DEF c
    <3> QED
      BY <1>1, <1>2, <3>1, <3>2, <3>3, <3>4
  <2> QED
    BY <2>1, <2>2
<1>4. /\ job' \in [Threads -> Jobs] /\ JobsOK' /\ job'[t] = Idle
      /\ \A u \in Threads \ {t} : job'[u] = job[u]
  BY <1>1, JobMade, JobStep
<1>5. TypeOK'
  <2>1. \A k \in Ids : codes'[k] # NoCode => codes[k] # NoCode /\ codes'[k].made = codes[k].made
    BY <1>3
  <2> QED
    BY <1>1, <1>2, <1>3, <1>4, <2>1, TypeStays
<1>6. LimitsOK'
  <2>1. \A k \in Valid' : codes'[k] = NoCode => codes[k] = NoCode
    BY <1>1, <1>3, Numbers DEF Valid
  <2> QED
    BY <1>1, <2>1, LimitsStay
<1>7. OpenedOK'
  <2>1. \A k \in 1..lastId : codes'[k] # NoCode => codes[k] # NoCode /\ codes'[k].used = codes[k].used
    BY <1>3, Numbers
  <2> QED
    BY <1>1, <2>1, OpenedStay
<1>8. GuessesOK'
  <2> SUFFICES ASSUME NEW k \in Kept'
               PROVE  codes'[k].attempts + Cardinality(Bumping(k)')
                        < MaxAttempts + Cardinality(Threads)
    BY DEF GuessesOK
  <2>1. k \in Kept /\ codes[k].attempts \in Nat
        /\ codes[k].attempts + Cardinality(Bumping(k)) < MaxAttempts + Cardinality(Threads)
    BY <1>3, Numbers DEF Kept, IInv, GuessesOK
  <2>2. /\ Cardinality(Bumping(k)) \in Nat /\ Cardinality(Threads) \in Nat
        /\ IsFiniteSet(Bumping(k)) /\ MaxAttempts \in Nat
    BY BumpingCount, LimitAssumption
  <2>3. CASE k = i
    <3>1. Bumping(k)' \in SUBSET (Bumping(k) \ {t})
      BY <1>4, JobMade DEF Bumping
    <3>2. /\ IsFiniteSet(Bumping(k) \ {t})
          /\ Cardinality(Bumping(k) \ {t}) = Cardinality(Bumping(k)) - 1
      BY <1>i, <2>2, <2>3, FS_RemoveElement
    <3>3. /\ Cardinality(Bumping(k)') <= Cardinality(Bumping(k) \ {t})
          /\ Cardinality(Bumping(k)') \in Nat
      BY <3>1, <3>2, FS_Subset, FS_CardinalityType
    <3>4. codes'[k].attempts = codes[k].attempts + 1
      BY <1>3, <2>3 DEF Kept
    <3> QED
      BY <2>1, <2>2, <3>2, <3>3, <3>4
  <2>4. CASE k # i
    <3>1. Bumping(k)' \in SUBSET Bumping(k)
      BY <1>4, JobMade DEF Bumping
    <3>2. /\ Cardinality(Bumping(k)') <= Cardinality(Bumping(k)) /\ Cardinality(Bumping(k)') \in Nat
      BY <2>2, <3>1, FS_Subset, FS_CardinalityType
    <3>3. codes'[k] = codes[k]
      BY <1>3, <2>1, <2>4 DEF Kept
    <3> QED
      BY <2>1, <2>2, <3>2, <3>3
  <2> QED
    BY <2>3, <2>4
<1> QED
  BY <1>1, <1>4, <1>5, <1>6, <1>7, <1>8, RowsStay DEF IInv
-----------------------------------------------------------------------------
(* Sessions. *)

\* Of rows with distinct numbers at most MaxSessions are kept: the least of the
\* kept ones has all the others above it.
LEMMA TrimBounded ==
  ASSUME NEW rows, IsFiniteSet(rows), \A r \in rows : r.nth \in Nat,
         \A r, s \in rows : r.nth = s.nth => r = s
  PROVE  IsFiniteSet(Trim(rows)) /\ Cardinality(Trim(rows)) <= MaxSessions
<1> DEFINE T == Trim(rows)
           Above(s) == {r \in rows : r.nth > s.nth}
<1>1. IsFiniteSet(T) /\ T \subseteq rows /\ MaxSessions \in Nat
  <2>1. T \in SUBSET rows
    BY DEF Trim
  <2> QED
    BY <2>1, FS_Subset, LimitAssumption
<1>2. ASSUME NEW s \in T PROVE Cardinality(Above(s)) < MaxSessions
  BY DEF Trim
<1> HIDE DEF T
<1>3. CASE T = {}
  BY <1>1, <1>3, FS_EmptySet DEF T
<1>4. CASE T # {}
  <2> DEFINE R == {p \in T \X T : p[1].nth < p[2].nth}
  <2>1. \A x \in T : <<x, x>> \notin R
    BY <1>1
  <2>2. \A x, y, z \in T : <<x, y>> \in R /\ <<y, z>> \in R => <<x, z>> \in R
    BY <1>1
  <2>3. \A x, y \in T : <<y, x>> \notin R => y.nth >= x.nth
    BY <1>1
  <2> HIDE DEF R
  <2>4. PICK m \in T : \A y \in T : <<y, m>> \notin R
    BY <1>1, <1>4, <2>1, <2>2, Least
  <2>5. T \ {m} \in SUBSET Above(m)
    <3>1. ASSUME NEW y \in T \ {m} PROVE y \in Above(m)
      <4>1. /\ y \in rows /\ m \in rows /\ y.nth \in Nat /\ m.nth \in Nat
            /\ y.nth # m.nth /\ y.nth >= m.nth
        BY <1>1, <2>3, <2>4
      <4> QED
        BY <4>1
    <3> HIDE DEF Above
    <3> QED
      BY <3>1
  <2>6. IsFiniteSet(Above(m))
    <3>1. Above(m) \in SUBSET rows
      OBVIOUS
    <3> QED
      BY <3>1, FS_Subset
  <2>7. Cardinality(Above(m)) < MaxSessions
    BY <1>2, <2>4
  <2> HIDE DEF Above
  <2>8. Cardinality(T \ {m}) <= Cardinality(Above(m)) /\ Cardinality(Above(m)) \in Nat
    BY <2>5, <2>6, FS_Subset, FS_CardinalityType
  <2>9. Cardinality(T \ {m}) = Cardinality(T) - 1 /\ Cardinality(T) \in Nat
    BY <1>1, <2>4, FS_RemoveElement, FS_CardinalityType
  <2>10. Cardinality(T) <= MaxSessions
    BY <1>1, <2>7, <2>8, <2>9
  <2> QED
    BY <1>1, <2>10 DEF T
<1> QED
  BY <1>3, <1>4

\* A row goes only if there are MaxSessions numbers after its own.
LEMMA TrimKeeps ==
  ASSUME NEW rows, NEW n \in Nat, NEW s \in rows, s.nth \in 1..n, n - s.nth < MaxSessions,
         \A r \in rows : r.nth \in 1..n, \A q, r \in rows : q.nth = r.nth => q = r
  PROVE  s \in Trim(rows)
<1> DEFINE A == {r \in rows : r.nth > s.nth}
           N == (s.nth + 1)..n
           f == [r \in A |-> r.nth]
<1>1. s.nth \in Nat /\ s.nth <= n
  OBVIOUS
<1>2. IsFiniteSet(N) /\ Cardinality(N) = n - s.nth
  <2> DEFINE a == s.nth + 1
  <2>1. a \in Int /\ n \in Int /\ a <= n + 1 /\ n - s.nth = n - a + 1
    BY <1>1
  <2>2. n - a + 1 = IF a > n THEN 0 ELSE n - a + 1
    BY <2>1
  <2> HIDE DEF a
  <2>3. IsFiniteSet(a..n) /\ Cardinality(a..n) = n - a + 1
    BY <2>1, <2>2, FS_Interval
  <2> QED
    BY <2>1, <2>3 DEF a
<1>3. f \in Injection(A, N)
  <2>1. f \in [A -> N]
    BY <1>1
  <2>2. \A q, r \in A : f[q] = f[r] => q = r
    OBVIOUS
  <2> HIDE DEF f, A, N
  <2> QED
    BY <2>1, <2>2 DEF Injection, IsInjective
<1>4. Cardinality(A) <= Cardinality(N) /\ Cardinality(A) \in Nat
  <2> HIDE DEF f, A, N
  <2> QED
    BY <1>2, <1>3, FS_Injection, FS_CardinalityType
<1>5. Cardinality(A) < MaxSessions
  <2> HIDE DEF A, N
  <2> QED
    BY <1>1, <1>2, <1>4, LimitAssumption
<1> QED
  BY <1>5 DEF Trim

\* A code that is consumed is unused until then, and no login has come of it.
LEMMA ConsumeKeeps ==
  ASSUME IInv, NEW t \in Threads, Consume(t)
  PROVE  IInv'
<1> DEFINE i == job[t].code
           n == Logins + 1
           s == [nth |-> n, until |-> job[t].at + SessionLife]
           rows == sessions \cup {s}
<1>1. /\ UNCHANGED <<now, lastId, issued, revoked, ended>> /\ Do(t, Idle)
      /\ i \in 1..lastId /\ i \in Ids /\ lastId \in Nat /\ now \in Nat /\ job[t].at \in Nat
      /\ \/ /\ Consumable(codes[i])
            /\ codes' = [codes EXCEPT ![i].used = TRUE]
            /\ sessions' = Trim(rows)
            /\ opened' = [m \in DOMAIN opened \cup {n} |-> IF m = n THEN i ELSE opened[m]]
         \/ UNCHANGED <<codes, sessions, opened>>
  BY JobTypes, Numbers DEF Consume
<1>2. /\ TypeOK /\ codes \in [Ids -> Codes \cup {NoCode}] /\ now \in Times
      /\ revoked \subseteq 1..lastId
  BY DEF IInv, TypeOK
<1>3. /\ job' \in [Threads -> Jobs] /\ JobsOK' /\ job'[t] = Idle
      /\ \A u \in Threads \ {t} : job'[u] = job[u]
  BY <1>1, JobMade, JobStep
<1>4. \A u \in Threads : job'[u].op = "bump" => job'[u] = job[u]
  BY <1>3, JobMade
<1>5. /\ Logins \in Nat /\ n \in Nat \ {0} /\ DOMAIN opened = 1..Logins
      /\ \A m \in DOMAIN opened : /\ opened[m] \in 1..lastId /\ opened[m] \in Ids
                                  /\ codes[opened[m]] # NoCode => codes[opened[m]].used
  BY Numbers DEF IInv, OpenedOK, LoginsOK, TypeOK
<1>6. CASE UNCHANGED <<codes, sessions, opened>>
  <2>1. TypeOK'
    BY <1>1, <1>2, <1>3, <1>6, TypeStays
  <2>2. LimitsOK' /\ OpenedOK' /\ RowsKept'
    BY <1>1, <1>6, LimitsStay, OpenedStay, RowsStay
  <2>3. GuessesOK'
    BY <1>4, <1>6, GuessesStay DEF Kept
  <2> QED
    BY <1>3, <2>1, <2>2, <2>3 DEF IInv
<1>7. CASE /\ Consumable(codes[i])
           /\ codes' = [codes EXCEPT ![i].used = TRUE]
           /\ sessions' = Trim(rows)
           /\ opened' = [m \in DOMAIN opened \cup {n} |-> IF m = n THEN i ELSE opened[m]]
  <2>1. /\ codes' \in [Ids -> Codes \cup {NoCode}] /\ codes[i] # NoCode /\ ~codes[i].used
        /\ codes'[i] # NoCode /\ codes'[i].used /\ codes'[i].made = codes[i].made
        /\ codes'[i].attempts = codes[i].attempts
        /\ \A k \in Ids \ {i} : codes'[k] = codes[k]
    <3> DEFINE c == [codes[i] EXCEPT !.used = TRUE]
    <3>1. codes[i] \in Codes /\ codes[i] # NoCode /\ ~codes[i].used
      BY <1>1, <1>2, <1>7 DEF Consumable
    <3>2. /\ c \in Codes /\ c.used /\ c.made = codes[i].made
          /\ c.attempts = codes[i].attempts
      BY <3>1 DEF Codes
    <3>3. codes' = [codes EXCEPT ![i] = c]
      BY <1>7
    <3>4. c # NoCode
      BY <3>2, NoCodeAssumption
    <3> HIDE DEF c, i
    <3> QED
      BY <1>1, <1>2, <3>1, <3>2, <3>3, <3>4
  <2> HIDE DEF i
  <2>2. /\ s \in Sessions /\ s.nth = n
        /\ \A r \in sessions : r \in Sessions /\ r.nth \in 1..Logins
    <3>1. job[t].at + SessionLife \in Nat
      BY <1>1, LimitAssumption
    <3>2. s \in Sessions /\ s.nth = n
      BY <1>5, <3>1 DEF Sessions
    <3>3. \A r \in sessions : r \in Sessions /\ r.nth \in DOMAIN opened
      BY <1>2 DEF TypeOK
    <3> QED
      BY <1>5, <3>2, <3>3
  <2> HIDE DEF s
  <2>3. /\ IsFiniteSet(rows) /\ rows \subseteq Sessions /\ s \in rows
        /\ \A r \in rows : r.nth \in 1..n /\ r.nth \in Nat
        /\ \A q, r \in rows : q.nth = r.nth => q = r
    <3>1. IsFiniteSet(sessions) /\ \A q, r \in sessions : q.nth = r.nth => q = r
      BY DEF IInv, RowsKept, RowsOK
    <3>2. IsFiniteSet(rows)
      BY <3>1, FS_AddElement
    <3>3. \A r \in sessions : r.nth \in 1..n /\ r.nth # n
      BY <1>5, <2>2
    <3> QED
      BY <1>5, <2>2, <3>1, <3>2, <3>3
  <2> HIDE DEF rows, n
  <2>4. sessions' \subseteq rows /\ IsFiniteSet(sessions') /\ Cardinality(sessions') <= MaxSessions
    <3>1. IsFiniteSet(Trim(rows)) /\ Cardinality(Trim(rows)) <= MaxSessions
      BY <2>3, TrimBounded
    <3> QED
      BY <1>7, <3>1 DEF Trim
  <2>5. /\ DOMAIN opened' = 1..n /\ opened'[n] = i
        /\ \A m \in DOMAIN opened : opened'[m] = opened[m] /\ opened[m] # i /\ m # n
        /\ 1..n = DOMAIN opened \cup {n}
    BY <1>5, <1>7, <2>1 DEF n
  <2>6. Logins' = n
    BY <1>5, <2>5, FS_Interval DEF Logins
  <2>7. TypeOK'
    <3>1. \A m \in DOMAIN opened' : opened'[m] \in 1..lastId
      BY <1>1, <1>5, <2>5
    <3>2. DOMAIN opened' \subseteq Nat /\ ended \subseteq DOMAIN opened'
      BY <1>2, <2>5 DEF TypeOK
    <3>3. sessions' \subseteq Sessions /\ {r.nth : r \in sessions'} \subseteq DOMAIN opened'
      BY <2>3, <2>4, <2>5
    <3>4. \A k \in Ids : codes'[k] # NoCode => k \in 1..lastId \ revoked /\ codes'[k].made = issued[k]
      BY <1>1, <1>2, <2>1 DEF TypeOK
    <3> QED
      BY <1>1, <1>2, <1>3, <2>1, <3>1, <3>2, <3>3, <3>4 DEF TypeOK
  <2>8. LimitsOK'
    <3>1. \A k \in Valid' : codes'[k] = NoCode => codes[k] = NoCode
      BY <1>1, <2>1, Numbers DEF Valid
    <3> QED
      BY <1>1, <3>1, LimitsStay
  <2>9. LoginsOK'
    <3>1. \A m \in DOMAIN opened' : codes'[opened'[m]] # NoCode => codes'[opened'[m]].used
      BY <1>5, <2>1, <2>5
    <3> QED
      BY <1>5, <2>5, <2>6, <3>1 DEF LoginsOK, n
  <2>10. OneSessionPerCode'
    <3>1. \A l, m \in DOMAIN opened : opened[l] = opened[m] => l = m
      BY DEF IInv, OpenedOK, OneSessionPerCode
    <3> QED
      BY <2>5, <3>1 DEF OneSessionPerCode
  <2>11. RowsOK'
    BY <2>3, <2>4 DEF RowsOK
  <2>12. SessionsKept'
    <3>1. ASSUME NEW m \in DOMAIN opened', m \notin ended', Logins' - m < MaxSessions
          PROVE  \E r \in sessions' : r.nth = m
      <4>1. m \in 1..n /\ n \in Nat /\ n - m < MaxSessions
        BY <1>5, <2>5, <2>6, <3>1
      <4>2. PICK r \in rows : r.nth = m
        <5>1. CASE m = n
          BY <2>2, <2>3, <5>1
        <5>2. CASE m # n
          <6>1. m \in DOMAIN opened /\ m \notin ended /\ Logins - m < MaxSessions
            BY <1>1, <1>5, <2>5, <3>1, <4>1, <5>2, LimitAssumption DEF n
          <6>2. \E r \in sessions : r.nth = m
            BY <6>1, <1>5, LimitAssumption DEF IInv, RowsKept, SessionsKept
          <6> QED
            BY <6>2 DEF rows
        <5> QED
          BY <5>1, <5>2
      <4>3. r \in Trim(rows)
        BY <2>3, <4>1, <4>2, TrimKeeps
      <4> QED
        BY <1>7, <4>2, <4>3
    <3>2. \A m \in DOMAIN opened' : ~(Logins' - m < MaxSessions) => Logins' - m >= MaxSessions
      BY <1>5, <2>5, <2>6, LimitAssumption
    <3> QED
      BY <2>4, <3>1, <3>2 DEF SessionsKept
  <2>13. GuessesOK'
    <3>1. \A k \in Kept' : k \in Kept /\ codes'[k].attempts = codes[k].attempts
      BY <2>1 DEF Kept
    <3> QED
      BY <1>4, <3>1, GuessesStay
  <2> QED
    BY <1>3, <2>7, <2>8, <2>9, <2>10, <2>11, <2>12, <2>13 DEF IInv, OpenedOK, RowsKept
<1> QED
  BY <1>1, <1>6, <1>7

\* Sessions end, and are noted.
LEMMA EndKeeps ==
  ASSUME IInv, NEW gone \in SUBSET sessions, End(gone)
  PROVE  IInv'
<1>1. /\ UNCHANGED <<now, lastId, codes, job, issued, revoked, opened>>
      /\ sessions' = sessions \ gone /\ ended' = ended \cup {s.nth : s \in gone}
      /\ TypeOK /\ JobsOK /\ GuessesOK
  BY DEF End, IInv
<1>2. TypeOK'
  BY <1>1 DEF TypeOK
<1>3. JobsOK' /\ GuessesOK'
  BY <1>1 DEF JobsOK, GuessesOK, Kept, Bumping
<1>4. LimitsOK' /\ OpenedOK'
  BY <1>1, Numbers, LimitsStay, OpenedStay
<1>5. RowsOK'
  <2>1. IsFiniteSet(sessions) /\ sessions' \in SUBSET sessions
    BY <1>1 DEF IInv, RowsKept, RowsOK
  <2>2. IsFiniteSet(sessions')
    BY <2>1, FS_Subset
  <2> QED
    BY <2>1, <2>2 DEF IInv, RowsKept, RowsOK
<1>6. SessionsKept'
  <2>1. Cardinality(sessions) <= MaxSessions /\ MaxSessions \in Nat
    BY LimitAssumption DEF IInv, RowsKept, SessionsKept
  <2>2. /\ Cardinality(sessions') <= Cardinality(sessions)
        /\ Cardinality(sessions') \in Nat /\ Cardinality(sessions) \in Nat
    BY <1>1, <1>5, FS_Subset, FS_CardinalityType DEF IInv, RowsKept, RowsOK
  <2>3. ASSUME NEW n \in DOMAIN opened
        PROVE  n \in ended' \/ Logins - n >= MaxSessions \/ \E s \in sessions' : s.nth = n
    BY <1>1 DEF IInv, RowsKept, SessionsKept
  <2> QED
    BY <1>1, <2>1, <2>2, <2>3 DEF SessionsKept, Logins
<1> QED
  BY <1>2, <1>3, <1>4, <1>5, <1>6 DEF IInv, RowsKept

\* Only codes older than a Day are deleted.
LEMMA PurgeCodesKeeps ==
  ASSUME IInv, PurgeCodes
  PROVE  IInv'
<1>1. /\ UNCHANGED <<now, lastId, sessions, job, issued, revoked, opened, ended>>
      /\ now \in Nat /\ Day \in Nat
      /\ codes' = [i \in Ids |-> IF codes[i] # NoCode /\ codes[i].made <= now - Day
                                 THEN NoCode ELSE codes[i]]
  BY Numbers, LimitAssumption DEF PurgeCodes, history
<1>2. /\ TypeOK /\ codes \in [Ids -> Codes \cup {NoCode}] /\ now \in Times
      /\ revoked \subseteq 1..lastId /\ job \in [Threads -> Jobs] /\ JobsOK
  BY DEF IInv, TypeOK
<1>3. /\ codes' \in [Ids -> Codes \cup {NoCode}]
      /\ \A i \in Ids : \/ codes'[i] = codes[i]
                        \/ codes'[i] = NoCode /\ codes[i] # NoCode /\ codes[i].made <= now - Day
  BY <1>1, <1>2
<1>4. TypeOK'
  <2>1. \A i \in Ids : codes'[i] # NoCode => codes'[i] = codes[i]
    BY <1>3
  <2> QED
    BY <1>1, <1>2, <1>3, <2>1, TypeStays
<1>5. JobsOK' /\ OpenedOK' /\ RowsKept'
  <2>1. \A i \in 1..lastId : codes'[i] # NoCode => codes'[i] = codes[i]
    BY <1>3, Numbers
  <2> QED
    BY <1>1, <1>2, <2>1, OpenedStay, RowsStay DEF JobsOK
<1>6. LimitsOK'
  <2>1. ASSUME NEW i \in Valid', codes'[i] = NoCode, codes[i] # NoCode
        PROVE  issued[i] + Day <= now
    <3>1. i \in Ids /\ i \in 1..lastId /\ i \in Kept
      BY <1>1, <2>1, Numbers DEF Valid, Kept
    <3>2. codes[i].made = issued[i] /\ issued[i] \in Nat
      BY <3>1, Numbers
    <3>3. codes[i].made <= now - Day
      BY <1>3, <2>1, <3>1
    <3> QED
      BY <1>1, <3>2, <3>3
  <2> QED
    BY <1>1, <2>1, LimitsStay
<1>7. GuessesOK'
  <2>1. \A i \in Kept' : i \in Kept /\ codes'[i] = codes[i]
    BY <1>3 DEF Kept
  <2> QED
    BY <1>1, <2>1, GuessesStay
<1> QED
  BY <1>4, <1>5, <1>6, <1>7 DEF IInv

\* The clock moves, a crash forgets the jobs, or nothing happens.
LEMMA OthersKeep ==
  ASSUME IInv, Tick \/ Crash \/ UNCHANGED vars
  PROVE  IInv'
<1>1. /\ UNCHANGED <<lastId, codes, sessions, issued, revoked, opened, ended>>
      /\ now' \in Times /\ now' \in Nat /\ now' >= now
      /\ \/ job' = job
         \/ job' = [t \in Threads |-> Idle]
  BY Numbers, LimitAssumption DEF Tick, Crash, vars, history, Times, IInv, TypeOK
<1>2. /\ job \in [Threads -> Jobs] /\ codes \in [Ids -> Codes \cup {NoCode}]
      /\ revoked \subseteq 1..lastId /\ JobsOK
  BY DEF IInv, TypeOK
<1>3. /\ job' \in [Threads -> Jobs] /\ JobsOK'
      /\ \A t \in Threads : job'[t].op = "bump" => job'[t] = job[t]
  BY <1>1, <1>2, JobMade DEF JobsOK
<1>4. TypeOK'
  BY <1>1, <1>2, <1>3, TypeStays
<1>5. LimitsOK' /\ OpenedOK' /\ RowsKept'
  BY <1>1, LimitsStay, OpenedStay, RowsStay
<1>6. GuessesOK'
  BY <1>1, <1>3, GuessesStay DEF Kept
<1> QED
  BY <1>3, <1>4, <1>5, <1>6 DEF IInv

LEMMA InitKeeps == Init => IInv
<1> SUFFICES ASSUME Init PROVE IInv
  OBVIOUS
<1>1. lastId = 0 /\ DOMAIN opened = {} /\ sessions = {} /\ 1..lastId = {} /\ ended = {}
  BY DEF Init
<1>2. Logins = 0 /\ DOMAIN opened = 1..Logins /\ IsFiniteSet(sessions)
      /\ Cardinality(sessions) = 0
  BY <1>1, FS_EmptySet DEF Logins
<1>3. Kept = {} /\ Valid = {}
  BY <1>1 DEF Init, Kept, Valid
<1>4. TypeOK
  BY <1>1, JobMade, LimitAssumption DEF Init, TypeOK, Times
<1>5. JobsOK
  BY DEF Init, JobsOK
<1>6. LimitsOK
  <2>1. \A d \in Times : {i \in Valid : issued[i] \in d..(d + Day - 1)} = {}
    BY <1>3
  <2> QED
    BY <1>3, <2>1, FS_EmptySet, LimitAssumption DEF LimitsOK, AgesOK, CodesSpaced, DailyLimit
<1>7. OpenedOK /\ RowsKept /\ GuessesOK
  BY <1>1, <1>2, <1>3, LimitAssumption
     DEF OpenedOK, LoginsOK, OneSessionPerCode, RowsKept, RowsOK, SessionsKept, GuessesOK
<1> QED
  BY <1>4, <1>5, <1>6, <1>7 DEF IInv

LEMMA NextKeeps == IInv /\ [Next]_vars => IInv'
<1> SUFFICES ASSUME IInv, [Next]_vars PROVE IInv'
  OBVIOUS
<1>1. ASSUME NEW t \in Threads,
             Request(t) \/ Mail(t) \/ Guess(t) \/ Bump(t) \/ Consume(t)
      PROVE  IInv'
  BY <1>1, RequestKeeps, MailKeeps, GuessKeeps, BumpKeeps, ConsumeKeeps
<1>2. CASE Logout \/ Resolve \/ PurgeSessions
  <2>1. \E gone \in SUBSET sessions : End(gone)
    <3>1. CASE Logout \/ Resolve
      BY <3>1 DEF Logout, Resolve
    <3>2. CASE PurgeSessions
      <4>1. {s \in sessions : s.until <= now} \in SUBSET sessions
        OBVIOUS
      <4> QED
        BY <3>2, <4>1 DEF PurgeSessions
    <3> QED
      BY <1>2, <3>1, <3>2
  <2> QED
    BY <2>1, EndKeeps
<1>3. CASE PurgeCodes
  BY <1>3, PurgeCodesKeeps
<1>4. CASE Tick \/ Crash \/ UNCHANGED vars
  BY <1>4, OthersKeep
<1> QED
  BY <1>1, <1>2, <1>3, <1>4 DEF Next
-----------------------------------------------------------------------------
(* The theorems. *)

\* The inductive invariant, in every reachable state.
THEOREM Invariant == Spec => []IInv
BY InitKeeps, NextKeeps, PTL DEF Spec

\* Every variable keeps its type; a row that is there was issued and not withdrawn.
THEOREM TypeCorrect == Spec => []TypeOK
<1>1. IInv => TypeOK
  BY DEF IInv
<1> QED
  BY <1>1, Invariant, PTL

\* Codes that were mailed are a Cooldown apart, for any number of requests at the
\* same time: request_login_code decides and inserts in one transaction.
THEOREM Spaced == Spec => []CodesSpaced
<1>1. IInv => CodesSpaced
  BY DEF IInv, LimitsOK
<1> QED
  BY <1>1, Invariant, PTL

\* The quota holds for every day-long stretch, whatever purge_codes_older_than
\* has deleted.
THEOREM Daily == Spec => []DailyLimit
<1>1. IInv => DailyLimit
  BY DEF IInv, LimitsOK
<1> QED
  BY <1>1, Invariant, PTL

\* consume_login_code opens one session for a code, whoever has read it unused.
THEOREM OneSession == Spec => []OneSessionPerCode
<1>1. IInv => OneSessionPerCode
  BY DEF IInv, OpenedOK
<1> QED
  BY <1>1, Invariant, PTL

\* Guesses pass MAX_CODE_ATTEMPTS only by those under way: each of them was
\* counted among the requests that had yet to call bump_login_code_attempts.
THEOREM Guesses == Spec => []GuessesBounded
<1>1. IInv => GuessesBounded
  <2> SUFFICES ASSUME IInv, NEW i \in Kept
               PROVE  codes[i].attempts < MaxAttempts + Cardinality(Threads)
    BY DEF GuessesBounded
  <2>1. codes[i].attempts + Cardinality(Bumping(i)) < MaxAttempts + Cardinality(Threads)
    BY DEF IInv, GuessesOK
  <2> QED
    BY <2>1, BumpingCount, Numbers, LimitAssumption
<1> QED
  BY <1>1, Invariant, PTL

\* trim_sessions leaves at most MaxSessions, and throws nobody out but for as many
\* later logins.
THEOREM Logged == Spec => []SessionsKept
<1>1. IInv => SessionsKept
  BY DEF IInv, RowsKept
<1> QED
  BY <1>1, Invariant, PTL
=============================================================================
