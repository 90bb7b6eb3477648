--------------------------- MODULE LoginGuardProof ---------------------------
(***************************************************************************)
(* Proofs about LoginGuard, for any logins, keys, limits and proxies.  The *)
(* inductive invariant IInv counts what is still to come: the logins past  *)
(* the check that may yet fail for a key, and the passwords that they may  *)
(* yet send.                                                               *)
(***************************************************************************)
EXTENDS LoginGuard, FiniteSetTheorems, TLAPS

\* The logins at the gate, and those past the check with a key.
In == {t \in Threads : pc[t] \in Inside}
Pending(k) == {t \in In : checked[t] /\ k \in req[t].keys}

\* How many passwords a login may send before it is checked again.
Rest(t) ==
  CASE pc[t] = "page" /\ checked[t] -> MaxCaptcha
    [] pc[t] = "form" -> MaxCaptcha
    [] pc[t] = "captcha" -> MaxCaptcha - tries[t] + 1
    [] pc[t] = "answer" /\ tries[t] # 0 -> MaxCaptcha - tries[t]
    [] OTHER -> 0
Left == {p \in Threads \X (1..MaxCaptcha) : p[2] <= Rest(p[1])}

Passed(t) ==
  /\ pc[t] \in {"form", "captcha", "answer"} => checked[t]
  /\ pc[t] \in {"idle", "gate", "pass"} => ~checked[t]
  /\ pc[t] = "captcha" => tries[t] # 0
Cooling(k) ==
  /\ k \notin blocked => late[k] = 0
  /\ k \in blocked => late[k] + Cardinality(Pending(k)) < Gate
Pausing ==
  /\ ~paused => sent = 0
  /\ paused => sent + Cardinality(Left) <= MaxCaptcha * (Gate - 1)

IInv ==
  /\ TypeOK /\ IsFiniteSet(In)
  /\ \A t \in Threads : Passed(t)
  /\ \A k \in Keys : Cooling(k)
  /\ Pausing
-----------------------------------------------------------------------------
(* What one step of a login does to itself, to a key, and to a pause. *)

Moves(t) == \A u \in Threads \ {t} :
  pc'[u] = pc[u] /\ req'[u] = req[u] /\ checked'[u] = checked[u] /\ tries'[u] = tries[u]

\* The key cools down no more, or begins to when the login leaves; nothing happens to
\* it; or the login, which was counted as pending, is counted as a late failure.
KeyMoves(t, k) ==
  \/ k \notin blocked' /\ late'[k] = 0
  \/ late'[k] = 0 /\ t \in In /\ pc'[t] \notin Inside
  \/ /\ late'[k] = late[k] /\ (k \in blocked' <=> k \in blocked)
     /\ k \in blocked /\ pc'[t] \in Inside /\ checked'[t] /\ k \in req'[t].keys
          => t \in Pending(k)
  \/ /\ late'[k] = late[k] + 1 /\ k \in blocked /\ k \in blocked'
     /\ t \in Pending(k) /\ pc'[t] \notin Inside

\* There is no pause; it begins as the login leaves; nothing happens to it; or the
\* login has used up one of its passwords.
PauseMoves(t) ==
  \/ ~paused' /\ sent' = 0
  \/ paused' /\ sent' = 0 /\ t \in In /\ pc'[t] \notin Inside
  \/ paused /\ paused' /\ sent' = sent /\ Rest(t)' <= Rest(t)
  \/ paused /\ paused' /\ sent' = sent + 1 /\ Rest(t)' < Rest(t)

LEMMA RestType ==
  ASSUME IInv, NEW t \in Threads
  PROVE  Rest(t) \in 0..MaxCaptcha
<1>1. MaxCaptcha \in Nat /\ MaxCaptcha > 0
  BY LimitAssumption
<1>2. tries[t] \in 0..MaxCaptcha /\ (pc[t] = "captcha" => tries[t] # 0)
  BY DEF IInv, TypeOK, Passed
<1> QED BY <1>1, <1>2 DEF Rest

\* Fewer logins are at the gate when one leaves it.
LEMMA InFewer ==
  ASSUME IInv, NEW t \in Threads, Moves(t), pc'[t] \in Inside => t \in In
  PROVE  /\ IsFiniteSet(In') /\ Cardinality(In') <= Gate
         /\ pc'[t] \notin Inside /\ t \in In => Cardinality(In') < Gate
<1>1. IsFiniteSet(In) /\ Cardinality(In) <= Gate /\ Gate \in Nat
  BY LimitAssumption DEF IInv, TypeOK, In
<1>2. Cardinality(In) \in Nat
  BY <1>1, FS_CardinalityType
<1>3. In' \in SUBSET In
  BY DEF In, Moves
<1>4. IsFiniteSet(In') /\ Cardinality(In') <= Cardinality(In)
  BY <1>1, <1>3, FS_Subset
<1>5. Cardinality(In') \in Nat
  BY <1>4, FS_CardinalityType
<1>6. ASSUME pc'[t] \notin Inside, t \in In PROVE Cardinality(In') < Gate
  <2>1. In' # In
    BY <1>6 DEF In
  <2>2. Cardinality(In') # Cardinality(In)
    BY <2>1, <1>1, <1>3, FS_Subset
  <2> QED BY <2>2, <1>1, <1>2, <1>4, <1>5
<1> QED BY <1>1, <1>2, <1>4, <1>5, <1>6

\* A key keeps its bound.
LEMMA Cools ==
  ASSUME IInv, NEW t \in Threads, NEW k \in Keys, Moves(t), KeyMoves(t, k)
  PROVE  Cooling(k)'
<1>1. IsFiniteSet(In) /\ Gate \in Nat \ {0} /\ late[k] \in Nat
  BY LimitAssumption DEF IInv, TypeOK
<1>2. Cooling(k)
  BY DEF IInv
<1>3. IsFiniteSet(Pending(k)) /\ Cardinality(Pending(k)) \in Nat
  <2>1. Pending(k) \in SUBSET In
    BY DEF Pending
  <2> QED BY <2>1, <1>1, FS_Subset, FS_CardinalityType
<1>4. CASE k \notin blocked' /\ late'[k] = 0
  BY <1>4 DEF Cooling
<1>5. CASE late'[k] = 0 /\ t \in In /\ pc'[t] \notin Inside
  <2>1. IsFiniteSet(In') /\ Cardinality(In') < Gate
    BY <1>5, InFewer
  <2>2. Pending(k)' \in SUBSET In'
    BY DEF Pending
  <2>3. IsFiniteSet(Pending(k)') /\ Cardinality(Pending(k)') <= Cardinality(In')
    BY <2>1, <2>2, FS_Subset
  <2>4. Cardinality(Pending(k)') \in Nat /\ Cardinality(In') \in Nat
    BY <2>1, <2>3, FS_CardinalityType
  <2>5. late'[k] + Cardinality(Pending(k)') < Gate
    BY <1>1, <1>5, <2>1, <2>3, <2>4
  <2> QED BY <1>5, <2>5 DEF Cooling
<1>6. CASE /\ late'[k] = late[k] /\ (k \in blocked' <=> k \in blocked)
           /\ k \in blocked /\ pc'[t] \in Inside /\ checked'[t] /\ k \in req'[t].keys
                => t \in Pending(k)
  <2>1. CASE k \notin blocked
    BY <1>2, <1>6, <2>1 DEF Cooling
  <2>2. CASE k \in blocked
    <3>1. Pending(k)' \in SUBSET Pending(k)
      BY <1>6, <2>2 DEF Pending, In, Moves
    <3>2. IsFiniteSet(Pending(k)') /\ Cardinality(Pending(k)') <= Cardinality(Pending(k))
      BY <1>3, <3>1, FS_Subset
    <3>3. Cardinality(Pending(k)') \in Nat
      BY <3>2, FS_CardinalityType
    <3>4. late[k] + Cardinality(Pending(k)) < Gate
      BY <1>2, <2>2 DEF Cooling
    <3>5. late'[k] + Cardinality(Pending(k)') < Gate
      BY <1>1, <1>3, <1>6, <3>2, <3>3, <3>4
    <3> QED BY <1>6, <2>2, <3>5 DEF Cooling
  <2> QED BY <2>1, <2>2
<1>7. CASE /\ late'[k] = late[k] + 1 /\ k \in blocked /\ k \in blocked'
           /\ t \in Pending(k) /\ pc'[t] \notin Inside
  <2>1. Pending(k)' \in SUBSET (Pending(k) \ {t})
    BY <1>7 DEF Pending, In, Moves
  <2>2. IsFiniteSet(Pending(k) \ {t})
        /\ Cardinality(Pending(k) \ {t}) = Cardinality(Pending(k)) - 1
    BY <1>3, <1>7, FS_RemoveElement
  <2>3. IsFiniteSet(Pending(k)') /\ Cardinality(Pending(k)') <= Cardinality(Pending(k) \ {t})
    BY <2>1, <2>2, FS_Subset
  <2>4. Cardinality(Pending(k)') \in Nat
    BY <2>3, FS_CardinalityType
  <2>5. late[k] + Cardinality(Pending(k)) < Gate
    BY <1>2, <1>7 DEF Cooling
  <2>6. late'[k] + Cardinality(Pending(k)') < Gate
    BY <1>1, <1>3, <1>7, <2>2, <2>3, <2>4, <2>5
  <2> QED BY <1>7, <2>6 DEF Cooling
<1> QED BY <1>4, <1>5, <1>6, <1>7 DEF KeyMoves

\* A pause keeps its bound.
LEMMA LeftFinite ==
  ASSUME IInv
  PROVE  IsFiniteSet(Left) /\ Cardinality(Left) \in Nat
<1>1. IsFiniteSet(In) /\ MaxCaptcha \in Nat
  BY LimitAssumption DEF IInv
<1>2. IsFiniteSet(1..MaxCaptcha)
  BY <1>1, FS_Interval
<1>3. IsFiniteSet(In \X (1..MaxCaptcha))
  BY <1>1, <1>2, FS_Product
<1>4. Left \in SUBSET (In \X (1..MaxCaptcha))
  BY DEF Left, Rest, In, Inside
<1> QED BY <1>3, <1>4, FS_Subset, FS_CardinalityType

LEMMA Pauses ==
  ASSUME IInv, TypeOK', NEW t \in Threads, Moves(t), Passed(t)', PauseMoves(t)
  PROVE  Pausing'
<1> DEFINE Bound == MaxCaptcha * (Gate - 1)
<1>1. /\ MaxCaptcha \in Nat \ {0} /\ Gate \in Nat \ {0} /\ sent \in Nat
      /\ Pausing
  BY LimitAssumption DEF IInv, TypeOK
<1>2. Bound \in Nat
  BY <1>1
<1>3. IsFiniteSet(Left) /\ Cardinality(Left) \in Nat
  BY LeftFinite
<1>4. Rest(t) \in 0..MaxCaptcha
  BY RestType
<1>5. \A u \in Threads \ {t} : Rest(u)' = Rest(u)
  BY DEF Moves, Rest
<1>6. CASE ~paused' /\ sent' = 0
  BY <1>6 DEF Pausing
<1>7. CASE paused' /\ sent' = 0 /\ t \in In /\ pc'[t] \notin Inside
  <2>1. IsFiniteSet(In') /\ Cardinality(In') < Gate
    BY <1>7, InFewer
  <2>2. Cardinality(In') \in Nat
    BY <2>1, FS_CardinalityType
  <2>3. IsFiniteSet(1..MaxCaptcha) /\ Cardinality(1..MaxCaptcha) = MaxCaptcha
    BY <1>1, FS_Interval
  <2>4. /\ IsFiniteSet(In' \X (1..MaxCaptcha))
        /\ Cardinality(In' \X (1..MaxCaptcha)) = Cardinality(In') * MaxCaptcha
    BY <2>1, <2>3, FS_Product
  <2>5. Left' \in SUBSET (In' \X (1..MaxCaptcha))
    BY DEF Left, Rest, In, Inside
  <2>6. IsFiniteSet(Left') /\ Cardinality(Left') <= Cardinality(In') * MaxCaptcha
    BY <2>4, <2>5, FS_Subset
  <2>7. Cardinality(Left') \in Nat
    BY <2>6, FS_CardinalityType
  <2>8. ASSUME NEW n \in Nat, n < Gate PROVE n * MaxCaptcha <= Bound
    BY <1>1, <2>8
  <2>9. Cardinality(In') * MaxCaptcha <= Bound
    BY <2>1, <2>2, <2>8
  <2>10. Cardinality(In') * MaxCaptcha \in Nat
    BY <1>1, <2>2
  <2>11. sent' + Cardinality(Left') <= Bound
    BY <1>2, <1>7, <2>6, <2>7, <2>9, <2>10
  <2> QED BY <1>7, <2>11 DEF Pausing
<1>8. CASE paused /\ paused' /\ sent' = sent /\ Rest(t)' <= Rest(t)
  <2>1. Left' \in SUBSET Left
    <3>1. \A u \in Threads, n \in 1..MaxCaptcha : n <= Rest(u)' => n <= Rest(u)
      <4> SUFFICES ASSUME NEW u \in Threads, NEW n \in 1..MaxCaptcha, n <= Rest(u)'
                   PROVE  n <= Rest(u)
        OBVIOUS
      <4>1. Rest(u)' \in Int
        <5>1. CASE u = t
          BY <1>1, <5>1 DEF Rest, TypeOK
        <5>2. CASE u # t
          BY <1>5, <5>2, RestType
        <5> QED BY <5>1, <5>2
      <4>2. Rest(u)' <= Rest(u) /\ Rest(u) \in Int
        BY <1>5, <1>8, RestType, <4>1
      <4> QED BY <4>1, <4>2
    <3> QED BY <3>1 DEF Left
  <2>2. IsFiniteSet(Left') /\ Cardinality(Left') <= Cardinality(Left)
    BY <1>3, <2>1, FS_Subset
  <2>3. Cardinality(Left') \in Nat
    BY <2>2, FS_CardinalityType
  <2>4. sent' + Cardinality(Left') <= Bound
    BY <1>1, <1>2, <1>3, <1>8, <2>2, <2>3 DEF Pausing
  <2> QED BY <1>8, <2>4 DEF Pausing
<1>9. CASE paused /\ paused' /\ sent' = sent + 1 /\ Rest(t)' < Rest(t)
  <2> DEFINE p == <<t, Rest(t)>>
  <2>0. Rest(t)' \in 0..MaxCaptcha
    BY <1>1 DEF Rest, TypeOK, Passed
  <2>1. p \in Left
    BY <1>4, <1>9, <2>0 DEF Left
  <2>2. Left' \in SUBSET (Left \ {p})
    <3>1. \A u \in Threads, n \in 1..MaxCaptcha :
            n <= Rest(u)' => n <= Rest(u) /\ (u = t => n # Rest(t))
      BY <1>4, <1>5, <1>9, <2>0
    <3> QED BY <3>1 DEF Left
  <2>3. IsFiniteSet(Left \ {p}) /\ Cardinality(Left \ {p}) = Cardinality(Left) - 1
    BY <1>3, <2>1, FS_RemoveElement
  <2>4. IsFiniteSet(Left') /\ Cardinality(Left') <= Cardinality(Left \ {p})
    BY <2>2, <2>3, FS_Subset
  <2>5. Cardinality(Left') \in Nat
    BY <2>4, FS_CardinalityType
  <2>6. sent' + Cardinality(Left') <= Bound
    BY <1>1, <1>2, <1>3, <1>9, <2>3, <2>4, <2>5 DEF Pausing
  <2> QED BY <1>9, <2>6 DEF Pausing
<1> QED BY <1>6, <1>7, <1>8, <1>9 DEF PauseMoves
-----------------------------------------------------------------------------
(* The type invariant. *)

LEMMA SelectedType ==
  ASSUME TypeOK, NEW x, NEW bad \in SUBSET Exits, Selected(x, bad)
  PROVE  x \in Exits /\ nextExit' \in Exits
<1>1. ExitCount \in Nat \ {0}
  BY LimitAssumption
<1>2. CASE bad = Exits
  BY <1>1, <1>2 DEF Selected, TypeOK, Exits
<1>3. CASE bad # Exits
  <2>1. x \in 1..ExitCount /\ nextExit' = (x % ExitCount) + 1
    BY <1>3 DEF Selected, Exits
  <2>2. x % ExitCount \in 0..(ExitCount - 1)
    BY <1>1, <2>1
  <2> QED BY <1>1, <2>1, <2>2 DEF Exits
<1> QED BY <1>2, <1>3

\* The part about a login, that about the guards, and that about the gate.
LoginType ==
  /\ pc \in [Threads -> PCs] /\ req \in [Threads -> Requests \cup {NoRequest}]
  /\ exit \in [Threads -> Exits]
  /\ cookie \in [Threads -> BOOLEAN] /\ checked \in [Threads -> BOOLEAN]
  /\ failover \in [Threads -> BOOLEAN] /\ tries \in [Threads -> 0..MaxCaptcha]
  /\ \A t \in Threads : (req[t] = NoRequest) <=> pc[t] = "idle"
GuardType ==
  /\ fails \in [Keys -> Nat] /\ \A k \in Keys : fails[k] < FailMax[k]
  /\ blocked \subseteq Keys /\ late \in [Keys -> Nat]
PauseType == paused \in BOOLEAN /\ sent \in Nat
RotationType == frozen \subseteq Exits /\ nextExit \in Exits

LEMMA Parts ==
  TypeOK <=> /\ LoginType /\ GuardType /\ PauseType /\ RotationType
             /\ Cardinality(In) <= Gate
BY DEF TypeOK, LoginType, GuardType, PauseType, RotationType, In

LEMMA LeaveTypical ==
  ASSUME IInv, NEW t \in Threads, Leave(t)
  PROVE  /\ LoginType' /\ Moves(t) /\ Passed(t)'
         /\ pc'[t] \notin Inside /\ Rest(t)' = 0
<1>1. 1 \in Exits /\ 0 \in 0..MaxCaptcha
  BY LimitAssumption DEF Exits
<1>2. LoginType
  BY Parts DEF IInv
<1>3. pc'[t] = "idle" /\ checked'[t] = FALSE
  BY <1>2 DEF LoginType, Leave, Goto, Set
<1>4. Moves(t)
  BY <1>2 DEF LoginType, Leave, Goto, Set, Moves
<1>5. LoginType'
  BY <1>1, <1>2 DEF LoginType, Leave, Goto, Set, PCs
<1> QED BY <1>3, <1>4, <1>5 DEF Passed, Inside, Rest

LEMMA StayTypical ==
  ASSUME IInv, NEW t \in Threads, pc[t] # "idle", NEW l \in PCs \ {"idle"}, Stay(t, l)
  PROVE  /\ LoginType' /\ Moves(t) /\ pc'[t] = l
         /\ req' = req /\ checked' = checked /\ tries' = tries
<1>1. LoginType
  BY Parts DEF IInv
<1>2. Moves(t) /\ pc'[t] = l
  BY <1>1 DEF LoginType, Stay, Goto, client, Moves
<1>3. LoginType'
  BY <1>1 DEF LoginType, Stay, Goto, client
<1> QED BY <1>2, <1>3 DEF Stay, client

LEMMA AgainTypical ==
  ASSUME IInv, NEW t \in Threads, pc[t] # "idle", NEW x \in Exits, Again(t, x)
  PROVE  /\ LoginType' /\ Moves(t) /\ Passed(t)'
         /\ pc'[t] = "pass" /\ ~checked'[t] /\ Rest(t)' = 0
<1>1. LoginType /\ 0 \in 0..MaxCaptcha
  BY Parts, LimitAssumption DEF IInv
<1>2. Moves(t) /\ pc'[t] = "pass" /\ checked'[t] = FALSE
  BY <1>1 DEF LoginType, Again, Goto, Set, Moves
<1>3. LoginType'
  BY <1>1 DEF LoginType, Again, Goto, Set, PCs, Inside
<1> QED BY <1>2, <1>3 DEF Passed, Rest
-----------------------------------------------------------------------------
(* The steps of a login. *)

Typical(t) ==
  /\ LoginType' /\ GuardType' /\ PauseType' /\ RotationType'
  /\ Moves(t) /\ Passed(t)'
  /\ \A k \in Keys : KeyMoves(t, k)
  /\ PauseMoves(t)

LEMMA GuardsKept ==
  ASSUME IInv, NEW t \in Threads, UNCHANGED guards,
         \/ pc'[t] \notin Inside
         \/ ~checked'[t]
         \/ t \in In /\ req'[t] = req[t] /\ checked'[t] = checked[t]
         \/ req'[t].keys \cap blocked = {}
  PROVE  GuardType' /\ \A k \in Keys : KeyMoves(t, k)
<1>1. GuardType /\ GuardType'
  BY Parts DEF IInv, guards, GuardType
<1>2. ASSUME NEW k \in Keys PROVE KeyMoves(t, k)
  BY DEF KeyMoves, guards, Pending
<1> QED BY <1>1, <1>2

LEMMA PauseKept ==
  ASSUME IInv, NEW t \in Threads, UNCHANGED pause, paused => Rest(t)' <= Rest(t)
  PROVE  PauseType' /\ PauseMoves(t)
<1>1. PauseType /\ PauseType'
  BY Parts DEF IInv, pause, PauseType
<1>2. PauseMoves(t)
  BY <1>1 DEF IInv, Pausing, PauseMoves, PauseType, pause
<1> QED BY <1>1, <1>2

LEMMA LeaveQuiet ==
  ASSUME IInv, NEW t \in Threads, Leave(t), UNCHANGED <<pause, guards>>, RotationType'
  PROVE  Typical(t)
<1>1. /\ LoginType' /\ Moves(t) /\ Passed(t)'
      /\ pc'[t] \notin Inside /\ Rest(t)' = 0
  BY LeaveTypical
<1>2. Rest(t)' <= Rest(t)
  BY <1>1, RestType
<1> QED BY <1>1, <1>2, GuardsKept, PauseKept DEF Typical

LEMMA AgainQuiet ==
  ASSUME IInv, NEW t \in Threads, pc[t] # "idle", NEW x \in Exits, Again(t, x),
         UNCHANGED <<pause, guards>>, RotationType'
  PROVE  Typical(t)
<1>1. /\ LoginType' /\ Moves(t) /\ Passed(t)'
      /\ ~checked'[t] /\ Rest(t)' = 0
  BY AgainTypical
<1>2. Rest(t)' <= Rest(t)
  BY <1>1, RestType
<1> QED BY <1>1, <1>2, GuardsKept, PauseKept DEF Typical

\* To a place where no password is sent.
LEMMA StayQuiet ==
  ASSUME IInv, NEW t \in Threads, t \in In, NEW l \in {"down", "switch", "exchange"},
         Stay(t, l), UNCHANGED <<pause, guards>>, RotationType'
  PROVE  Typical(t)
<1>1. pc[t] # "idle" /\ l \in PCs \ {"idle"}
  BY DEF In, Inside, PCs
<1>2. /\ LoginType' /\ Moves(t) /\ pc'[t] = l
      /\ req' = req /\ checked' = checked
  BY <1>1, StayTypical
<1>3. Passed(t)' /\ Rest(t)' = 0
  BY <1>2 DEF Passed, Rest
<1>4. Rest(t)' <= Rest(t)
  BY <1>3, RestType
<1> QED BY <1>2, <1>3, <1>4, GuardsKept, PauseKept DEF Typical

LEMMA RotationKept ==
  ASSUME IInv, UNCHANGED rotation
  PROVE  RotationType'
BY Parts DEF IInv, rotation, RotationType

LEMMA ExitType ==
  ASSUME IInv, NEW t \in Threads
  PROVE  exit[t] \in Exits /\ frozen \subseteq Exits /\ nextExit \in Exits
BY DEF IInv, TypeOK

LEMMA TroubleTypical ==
  ASSUME IInv, NEW t \in Threads, t \in In, Trouble(t)
  PROVE  Typical(t)
<1>1. CASE Unreachable(t)
  <2>1. RotationType'
    BY <1>1, ExitType DEF Unreachable, RotationType
  <2> QED BY <1>1, <2>1, StayQuiet DEF Unreachable
<1>2. CASE Leave(t) /\ UNCHANGED <<pause, guards, rotation>>
  BY <1>2, LeaveQuiet, RotationKept
<1> QED BY <1>1, <1>2 DEF Trouble

LEMMA FrozenTypical ==
  ASSUME IInv, NEW t \in Threads, t \in In, Frozen(t)
  PROVE  Typical(t)
<1> DEFINE bad == frozen \cup {exit[t]}
<1>1. bad \subseteq Exits /\ frozen' = bad /\ UNCHANGED guards
  BY ExitType DEF Frozen
<1>2. CASE /\ paused' = TRUE /\ sent' = IF paused THEN sent ELSE 0
           /\ Leave(t) /\ UNCHANGED nextExit
  <2>1. /\ LoginType' /\ Moves(t) /\ Passed(t)'
        /\ pc'[t] \notin Inside /\ Rest(t)' = 0
    BY <1>2, LeaveTypical
  <2>2. GuardType' /\ \A k \in Keys : KeyMoves(t, k)
    BY <1>1, <2>1, GuardsKept
  <2>3. PauseType' /\ RotationType'
    BY <1>1, <1>2, ExitType, Parts DEF IInv, PauseType, RotationType
  <2>4. PauseMoves(t)
    BY <1>2, <2>1, RestType DEF PauseMoves
  <2> QED BY <2>1, <2>2, <2>3, <2>4 DEF Typical
<1>3. ASSUME NEW x \in Exits, UNCHANGED pause, Selected(x, bad),
             IF failover[t] THEN Leave(t) ELSE Again(t, x)
      PROVE  Typical(t)
  <2>1. RotationType'
    BY <1>1, <1>3, SelectedType DEF RotationType, IInv
  <2>2. pc[t] # "idle"
    BY DEF In, Inside
  <2>3. CASE Leave(t)
    BY <1>1, <1>3, <2>1, <2>3, LeaveQuiet
  <2>4. CASE Again(t, x)
    BY <1>1, <1>3, <2>1, <2>2, <2>4, AgainQuiet
  <2> QED BY <1>3, <2>3, <2>4
<1> QED BY <1>2, <1>3 DEF Frozen

LEMMA TroubleOrFrozenTypical ==
  ASSUME IInv, NEW t \in Threads, t \in In, TroubleOrFrozen(t)
  PROVE  Typical(t)
BY TroubleTypical, FrozenTypical DEF TroubleOrFrozen

LEMMA DownTypical ==
  ASSUME IInv, NEW t \in Threads, Down(t)
  PROVE  Typical(t)
<1>1. t \in In /\ UNCHANGED <<pause, guards>> /\ RotationType'
  BY RotationKept DEF Down, In, Inside
<1>2. CASE Leave(t)
  BY <1>1, <1>2, LeaveQuiet
<1>3. CASE Stay(t, "switch")
  BY <1>1, <1>3, StayQuiet
<1> QED BY <1>2, <1>3 DEF Down

LEMMA SwitchTypical ==
  ASSUME IInv, NEW t \in Threads, Switch(t)
  PROVE  Typical(t)
<1>1. PICK x \in Exits : Selected(x, frozen) /\ Again(t, x)
  BY DEF Switch
<1>2. pc[t] # "idle" /\ UNCHANGED <<pause, guards>> /\ frozen' = frozen
  BY DEF Switch
<1>3. RotationType'
  BY <1>1, <1>2, SelectedType, ExitType DEF RotationType, IInv
<1> QED BY <1>1, <1>2, <1>3, AgainQuiet

\* A check that is passed anew, at the page or the form: there is no pause.
LEMMA CheckTypical ==
  ASSUME IInv, NEW t \in Threads, t \in In, NEW l \in {"page", "form"}, Check(t, l),
         checked[t] => pc[t] = "page"
  PROVE  Typical(t)
<1>1. /\ UNCHANGED <<pause, guards>> /\ RotationType' /\ LoginType
      /\ l \in PCs \ {"idle"} /\ pc[t] # "idle"
  BY RotationKept, Parts DEF Check, IInv, In, Inside, PCs
<1>2. CASE checked[t] /\ Stay(t, l)
  <2>1. /\ LoginType' /\ Moves(t) /\ pc'[t] = l
        /\ req' = req /\ checked' = checked
    BY <1>1, <1>2, StayTypical
  <2>2. Passed(t)'
    BY <1>2, <2>1 DEF Passed
  <2>3. Rest(t)' = MaxCaptcha /\ Rest(t) = MaxCaptcha
    BY <1>2, <2>1 DEF Rest
  <2>4. Rest(t)' <= Rest(t)
    BY <2>3, LimitAssumption
  <2> QED BY <1>1, <2>1, <2>2, <2>4, GuardsKept, PauseKept DEF Typical
<1>3. CASE /\ ~checked[t] /\ Allowed(t)
           /\ Goto(t, l) /\ checked' = Set(checked, t, TRUE)
           /\ UNCHANGED <<req, exit, cookie, failover, tries>>
  <2>1. LoginType' /\ Moves(t) /\ pc'[t] = l /\ checked'[t]
    <3>1. pc'[t] = l /\ checked'[t]
      BY <1>1, <1>3 DEF LoginType, Goto, Set
    <3>2. Moves(t)
      BY <1>1, <1>3 DEF LoginType, Goto, Set, Moves
    <3>3. LoginType'
      BY <1>1, <1>3 DEF LoginType, Goto, Set
    <3> QED BY <3>1, <3>2, <3>3
  <2>2. Passed(t)'
    BY <2>1 DEF Passed
  <2>3. ~paused /\ req'[t].keys \cap blocked = {}
    BY <1>3 DEF Allowed
  <2> QED BY <1>1, <2>1, <2>2, <2>3, GuardsKept, PauseKept DEF Typical
<1>4. CASE Leave(t)
  BY <1>1, <1>4, LeaveQuiet
<1> QED BY <1>2, <1>3, <1>4 DEF Check

LEMMA PassTypical ==
  ASSUME IInv, NEW t \in Threads, Pass(t)
  PROVE  Typical(t)
<1>1. t \in In /\ ~checked[t] /\ pc[t] = "pass"
  BY DEF Pass, In, Inside, IInv, Passed
<1>2. CASE Check(t, "page")
  BY <1>1, <1>2, CheckTypical
<1>3. CASE Stay(t, "page") /\ UNCHANGED <<pause, guards, rotation>>
  <2>1. /\ LoginType' /\ Moves(t) /\ pc'[t] = "page"
        /\ req' = req /\ checked' = checked
    BY <1>1, <1>3, StayTypical DEF PCs, Inside
  <2>2. Passed(t)' /\ Rest(t)' = 0
    BY <1>1, <2>1 DEF Passed, Rest
  <2>3. Rest(t)' <= Rest(t)
    BY <2>2, RestType
  <2> QED BY <1>1, <1>3, <2>1, <2>2, <2>3, RotationKept, GuardsKept, PauseKept DEF Typical
<1> QED BY <1>2, <1>3 DEF Pass

LEMMA PageTypical ==
  ASSUME IInv, NEW t \in Threads, Page(t)
  PROVE  Typical(t)
<1>1. t \in In /\ pc[t] = "page"
  BY DEF Page, In, Inside
<1>2. CASE TroubleOrFrozen(t)
  BY <1>1, <1>2, TroubleOrFrozenTypical
<1>3. CASE Stay(t, "exchange") /\ UNCHANGED <<pause, guards, rotation>>
  BY <1>1, <1>3, StayQuiet, RotationKept
<1>4. CASE Check(t, "form")
  BY <1>1, <1>4, CheckTypical
<1> QED BY <1>2, <1>3, <1>4 DEF Page

\* A password is sent from the form, or from a round of the captcha loop.
LEMMA SendTypical ==
  ASSUME IInv, NEW t \in Threads, pc[t] \in {"form", "captcha"}, Send(t)
  PROVE  Typical(t)
<1>1. /\ UNCHANGED <<paused, guards>> /\ RotationType'
      /\ t \in In /\ checked[t] /\ pc[t] # "idle"
      /\ pc[t] = "captcha" => tries[t] # 0
  BY RotationKept DEF Send, In, Inside, IInv, Passed
<1>2. CASE Stay(t, "answer") /\ sent' = IF paused THEN sent + 1 ELSE sent
  <2>1. /\ LoginType' /\ Moves(t) /\ pc'[t] = "answer"
        /\ req' = req /\ checked' = checked /\ tries' = tries
    BY <1>1, <1>2, StayTypical DEF PCs, Inside
  <2>2. Passed(t)'
    BY <1>1, <2>1 DEF Passed
  <2>3. Rest(t)' < Rest(t)
    <3>1. tries[t] \in 0..MaxCaptcha /\ MaxCaptcha \in Nat \ {0}
      BY LimitAssumption DEF IInv, TypeOK
    <3> QED BY <1>1, <2>1, <3>1 DEF Rest
  <2>4. PauseType' /\ PauseMoves(t)
    <3>1. PauseType /\ (~paused => sent = 0)
      BY Parts DEF IInv, Pausing
    <3> QED BY <1>1, <1>2, <2>3, <3>1 DEF PauseType, PauseMoves
  <2> QED BY <1>1, <2>1, <2>2, <2>4, GuardsKept DEF Typical
<1>3. CASE Leave(t) /\ UNCHANGED sent
  BY <1>1, <1>3, LeaveQuiet DEF pause
<1> QED BY <1>2, <1>3 DEF Send

\* On to round n of the captcha loop.
LEMMA RoundTypical ==
  ASSUME IInv, NEW t \in Threads, pc[t] \in {"form", "answer"},
         NEW n \in 1..MaxCaptcha, n = IF pc[t] = "form" THEN 1 ELSE tries[t] + 1,
         pc[t] = "answer" => tries[t] # 0,
         Goto(t, "captcha"), tries' = Set(tries, t, n),
         UNCHANGED <<req, exit, cookie, checked, failover, pause, guards, rotation>>
  PROVE  Typical(t)
<1>1. /\ LoginType /\ RotationType' /\ t \in In /\ checked[t]
      /\ UNCHANGED <<pause, guards>>
  BY RotationKept, Parts DEF IInv, Passed, In, Inside
<1>2. pc'[t] = "captcha" /\ checked'[t] = checked[t] /\ req'[t] = req[t] /\ tries'[t] = n
  BY <1>1 DEF LoginType, Goto, Set
<1>3. Moves(t)
  BY <1>1 DEF LoginType, Goto, Set, Moves
<1>4. LoginType'
  BY <1>1 DEF LoginType, Goto, Set, PCs, Inside
<1>5. Passed(t)'
  BY <1>1, <1>2 DEF Passed
<1>6. Rest(t)' <= Rest(t)
  <2>1. tries[t] \in 0..MaxCaptcha /\ MaxCaptcha \in Nat \ {0}
    BY LimitAssumption DEF IInv, TypeOK
  <2> QED BY <1>2, <2>1 DEF Rest
<1> QED BY <1>1, <1>2, <1>3, <1>4, <1>5, <1>6, GuardsKept, PauseKept DEF Typical

LEMMA FormTypical ==
  ASSUME IInv, NEW t \in Threads, Form(t)
  PROVE  Typical(t)
<1>1. pc[t] = "form" /\ 1 \in 1..MaxCaptcha
  BY LimitAssumption DEF Form
<1>2. CASE Send(t)
  BY <1>1, <1>2, SendTypical
<1>3. CASE ~Send(t)
  BY <1>1, <1>3, RoundTypical DEF Form
<1> QED BY <1>2, <1>3

LEMMA CaptchaTypical ==
  ASSUME IInv, NEW t \in Threads, Captcha(t)
  PROVE  Typical(t)
<1>1. pc[t] = "captcha" /\ t \in In
  BY DEF Captcha, In, Inside
<1> QED BY <1>1, SendTypical, TroubleOrFrozenTypical DEF Captcha

LEMMA RecordFailureTypical ==
  ASSUME IInv, NEW t \in Threads, pc[t] = "answer", RecordFailure(t), Leave(t),
         UNCHANGED <<pause, rotation>>
  PROVE  Typical(t)
<1> DEFINE hit == {k \in req[t].keys : fails[k] + 1 >= FailMax[k]}
<1>1. GuardType /\ t \in In /\ checked[t] /\ FailMax \in [Keys -> Nat \ {0}]
  BY Parts, LimitAssumption DEF IInv, Passed, In, Inside
<1>2. req[t] \in Requests /\ req[t].keys \subseteq Keys
  BY RequestAssumption DEF IInv, TypeOK, RequestTypes
<1>3. /\ LoginType' /\ Moves(t) /\ Passed(t)'
      /\ pc'[t] \notin Inside /\ Rest(t)' = 0
  BY LeaveTypical
<1>4. RotationType' /\ Rest(t)' <= Rest(t)
  BY <1>3, RotationKept, RestType
<1>5. blocked' = blocked \cup hit
  BY DEF RecordFailure
<1>6. late' = [k \in Keys |-> IF k \notin req[t].keys THEN late[k]
                              ELSE IF k \in blocked THEN late[k] + 1
                              ELSE 0]
  BY DEF RecordFailure
<1>7. fails' = [k \in Keys |->
                  IF k \in hit THEN 0 ELSE IF k \in req[t].keys THEN fails[k] + 1 ELSE fails[k]]
  BY DEF RecordFailure
<1>8. GuardType'
  <2>1. fails' \in [Keys -> Nat] /\ \A k \in Keys : fails'[k] < FailMax[k]
    BY <1>1, <1>2, <1>7 DEF GuardType
  <2>2. late' \in [Keys -> Nat]
    BY <1>1, <1>6 DEF GuardType
  <2> QED BY <1>1, <1>2, <1>5, <2>1, <2>2 DEF GuardType
<1>9. ASSUME NEW k \in Keys PROVE KeyMoves(t, k)
  <2>1. CASE k \notin req[t].keys
    BY <1>3, <1>5, <1>6, <2>1 DEF KeyMoves
  <2>2. CASE k \in req[t].keys /\ k \in blocked
    BY <1>1, <1>3, <1>5, <1>6, <2>2 DEF KeyMoves, Pending
  <2>3. CASE k \in req[t].keys /\ k \notin blocked
    BY <1>1, <1>3, <1>6, <2>3 DEF KeyMoves
  <2> QED BY <2>1, <2>2, <2>3
<1> QED BY <1>3, <1>4, <1>8, <1>9, PauseKept DEF Typical

LEMMA AnswerTypical ==
  ASSUME IInv, NEW t \in Threads, Answer(t)
  PROVE  Typical(t)
<1>1. pc[t] = "answer" /\ t \in In
  BY DEF Answer, In, Inside
<1>2. CASE TroubleOrFrozen(t)
  BY <1>1, <1>2, TroubleOrFrozenTypical
<1>3. CASE /\ tries[t] \in 1..MaxCaptcha - 1
           /\ Goto(t, "captcha") /\ tries' = Set(tries, t, tries[t] + 1)
           /\ UNCHANGED <<req, exit, cookie, checked, failover, pause, guards, rotation>>
  <2>1. tries[t] + 1 \in 1..MaxCaptcha /\ tries[t] # 0
    BY <1>3, LimitAssumption
  <2> QED BY <1>1, <1>3, <2>1, RoundTypical
<1>4. CASE RecordFailure(t) /\ Leave(t) /\ UNCHANGED <<pause, rotation>>
  BY <1>1, <1>4, RecordFailureTypical
<1>5. CASE /\ Goto(t, "exchange") /\ cookie' = Set(cookie, t, TRUE)
           /\ UNCHANGED <<req, exit, checked, failover, tries, pause, guards, rotation>>
  <2>1. LoginType /\ RotationType'
    BY <1>5, RotationKept, Parts DEF IInv
  <2>2. pc'[t] = "exchange" /\ checked'[t] = checked[t] /\ req'[t] = req[t]
    BY <1>5, <2>1 DEF LoginType, Goto
  <2>3. Moves(t)
    BY <1>5, <2>1 DEF LoginType, Goto, Moves
  <2>4. LoginType'
    BY <1>1, <1>5, <2>1 DEF LoginType, Goto, Set, PCs, Inside
  <2>5. Passed(t)' /\ Rest(t)' = 0
    BY <2>2 DEF Passed, Rest
  <2>6. Rest(t)' <= Rest(t)
    BY <2>5, RestType
  <2> QED BY <1>1, <1>5, <2>1, <2>2, <2>3, <2>4, <2>5, <2>6, GuardsKept, PauseKept DEF Typical
<1> QED BY <1>2, <1>3, <1>4, <1>5 DEF Answer

LEMMA ExchangeTypical ==
  ASSUME IInv, NEW t \in Threads, Exchange(t)
  PROVE  Typical(t)
<1>1. pc[t] = "exchange" /\ t \in In
  BY DEF Exchange, In, Inside
<1>2. CASE Trouble(t)
  BY <1>1, <1>2, TroubleTypical
<1>3. CASE /\ fails' = [k \in Keys |-> IF k \in req[t].keys THEN 0 ELSE fails[k]]
           /\ blocked' = blocked \ req[t].keys
           /\ late' = [k \in Keys |-> IF k \in req[t].keys THEN 0 ELSE late[k]]
           /\ Leave(t) /\ UNCHANGED <<pause, rotation>>
  <2>1. /\ LoginType' /\ Moves(t) /\ Passed(t)'
        /\ pc'[t] \notin Inside /\ Rest(t)' = 0
    BY <1>3, LeaveTypical
  <2>2. RotationType' /\ Rest(t)' <= Rest(t)
    BY <1>3, <2>1, RotationKept, RestType
  <2>3. GuardType /\ FailMax \in [Keys -> Nat \ {0}]
    BY Parts, LimitAssumption DEF IInv
  <2>4. GuardType'
    BY <1>3, <2>3 DEF GuardType
  <2>5. ASSUME NEW k \in Keys PROVE KeyMoves(t, k)
    BY <1>3, <2>1 DEF KeyMoves
  <2> QED BY <1>3, <2>1, <2>2, <2>4, <2>5, PauseKept DEF Typical
<1> QED BY <1>2, <1>3 DEF Exchange

\* Before the gate.
LEMMA BeginTypical ==
  ASSUME IInv, NEW t \in Threads, Begin(t)
  PROVE  Typical(t)
<1>1. PICK r \in Requests, x \in Exits :
        /\ Selected(x, frozen)
        /\ req' = Set(req, t, r) /\ cookie' = Set(cookie, t, r.cookie) /\ exit' = Set(exit, t, x)
  BY DEF Begin
<1>2. /\ pc[t] = "idle" /\ Goto(t, "gate") /\ UNCHANGED <<checked, failover, tries>>
      /\ UNCHANGED <<pause, guards>> /\ frozen' = frozen
  BY DEF Begin
<1>3. LoginType /\ ~checked[t]
  BY <1>2, Parts DEF IInv, Passed
<1>4. pc'[t] = "gate" /\ ~checked'[t]
  BY <1>2, <1>3 DEF LoginType, Goto
<1>5. Moves(t)
  BY <1>1, <1>2, <1>3 DEF LoginType, Goto, Set, Moves
<1>6. LoginType'
  <2>1. r.cookie \in BOOLEAN /\ r # NoRequest
    BY RequestAssumption DEF RequestTypes
  <2> QED BY <1>1, <1>2, <1>3, <2>1 DEF LoginType, Goto, Set, PCs
<1>7. RotationType'
  BY <1>1, <1>2, SelectedType, ExitType DEF RotationType, IInv
<1>8. Passed(t)' /\ Rest(t)' = 0
  BY <1>4 DEF Passed, Rest
<1>9. Rest(t)' <= Rest(t)
  BY <1>8, RestType
<1> QED BY <1>2, <1>4, <1>5, <1>6, <1>7, <1>8, <1>9, GuardsKept, PauseKept DEF Typical

LEMMA EnterTypical ==
  ASSUME IInv, NEW t \in Threads, Enter(t)
  PROVE  Typical(t)
<1>1. /\ pc[t] = "gate" /\ Stay(t, "pass") /\ UNCHANGED <<pause, guards>>
      /\ RotationType' /\ ~checked[t]
  BY RotationKept DEF Enter, IInv, Passed
<1>2. /\ LoginType' /\ Moves(t) /\ pc'[t] = "pass" /\ checked' = checked
  BY <1>1, StayTypical DEF PCs, Inside
<1>3. Passed(t)' /\ Rest(t)' = 0
  BY <1>1, <1>2 DEF Passed, Rest
<1>4. Rest(t)' <= Rest(t)
  BY <1>3, RestType
<1> QED BY <1>1, <1>2, <1>3, <1>4, GuardsKept, PauseKept DEF Typical
-----------------------------------------------------------------------------
(* The invariant. *)

\* Enter is the only step that fills the gate, and it does so when there is room.
LEMMA GateKept ==
  ASSUME IInv, NEW t \in Threads, Begin(t) \/ Enter(t) \/ LoginStep(t), Moves(t)
  PROVE  IsFiniteSet(In') /\ Cardinality(In') <= Gate
<1>1. CASE Enter(t)
  <2>1. IsFiniteSet(In) /\ Cardinality(In) < Gate /\ Gate \in Nat
    BY <1>1, LimitAssumption DEF IInv, Enter, GateOpen, In
  <2>2. IsFiniteSet(In \cup {t}) /\ Cardinality(In \cup {t}) <= Cardinality(In) + 1
    <3>1. Cardinality(In) \in Nat
      BY <2>1, FS_CardinalityType
    <3> QED BY <2>1, <3>1, FS_AddElement
  <2>3. In' \in SUBSET (In \cup {t})
    BY DEF In, Moves
  <2>4. IsFiniteSet(In') /\ Cardinality(In') <= Cardinality(In \cup {t})
    BY <2>2, <2>3, FS_Subset
  <2>5. Cardinality(In) \in Nat /\ Cardinality(In \cup {t}) \in Nat /\ Cardinality(In') \in Nat
    BY <2>1, <2>2, <2>4, FS_CardinalityType
  <2> QED BY <2>1, <2>2, <2>4, <2>5
<1>2. CASE Begin(t)
  <2>1. pc'[t] \notin Inside
    BY <1>2 DEF Begin, Goto, Inside, IInv, TypeOK
  <2> QED BY <2>1, InFewer
<1>3. CASE LoginStep(t)
  <2>1. t \in In
    BY <1>3 DEF LoginStep, Down, Switch, Pass, Page, Form, Captcha, Answer, Exchange, In, Inside
  <2> QED BY <2>1, InFewer
<1> QED BY <1>1, <1>2, <1>3

LEMMA StepKeeps ==
  ASSUME IInv, NEW t \in Threads, Begin(t) \/ Enter(t) \/ LoginStep(t)
  PROVE  IInv'
<1>1. Typical(t)
  BY BeginTypical, EnterTypical, DownTypical, SwitchTypical, PassTypical, PageTypical,
     FormTypical, CaptchaTypical, AnswerTypical, ExchangeTypical DEF LoginStep
<1>2. IsFiniteSet(In') /\ Cardinality(In') <= Gate
  BY <1>1, GateKept DEF Typical
<1>3. TypeOK'
  <2>1. LoginType' /\ GuardType' /\ PauseType' /\ RotationType'
    BY <1>1 DEF Typical
  <2> QED BY <1>2, <2>1 DEF TypeOK, LoginType, GuardType, PauseType, RotationType, In
<1>4. ASSUME NEW u \in Threads PROVE Passed(u)'
  <2>1. CASE u = t
    BY <1>1, <2>1 DEF Typical
  <2>2. CASE u # t
    BY <1>1, <2>2 DEF Typical, Moves, IInv, Passed
  <2> QED BY <2>1, <2>2
<1>5. ASSUME NEW k \in Keys PROVE Cooling(k)'
  BY <1>1, Cools DEF Typical
<1>6. Pausing'
  BY <1>1, <1>3, Pauses DEF Typical
<1> QED BY <1>2, <1>3, <1>4, <1>5, <1>6 DEF IInv

LEMMA ClockKeeps ==
  ASSUME IInv, Clock
  PROVE  IInv'
<1>1. UNCHANGED <<pc, client>>
  BY DEF Clock, Unblock, Forget, Resume, Thaw
<1>2. /\ UNCHANGED In /\ UNCHANGED Left
      /\ \A k \in Keys : UNCHANGED Pending(k)
      /\ \A t \in Threads : Passed(t)'
  <2>1. UNCHANGED In
    BY <1>1 DEF In
  <2>2. UNCHANGED Left
    BY <1>1 DEF Left, Rest, client
  <2>3. \A k \in Keys : UNCHANGED Pending(k)
    BY <1>1 DEF Pending, In, client
  <2>4. \A t \in Threads : Passed(t)'
    BY <1>1 DEF Passed, client, IInv
  <2> QED BY <2>1, <2>2, <2>3, <2>4
<1>3. LoginType' /\ Cardinality(In') <= Gate /\ GuardType /\ PauseType /\ RotationType
  BY <1>1, <1>2, Parts DEF IInv, LoginType, client
<1>4. CASE Unblock
  <2>1. PICK k \in blocked : blocked' = blocked \ {k} /\ late' = [late EXCEPT ![k] = 0]
    BY <1>4 DEF Unblock
  <2>2. UNCHANGED <<fails, pause, rotation>>
    BY <1>4 DEF Unblock
  <2>3. GuardType' /\ PauseType' /\ RotationType'
    BY <1>3, <2>1, <2>2 DEF GuardType, PauseType, RotationType, pause, rotation
  <2>4. \A j \in Keys : Cooling(j)'
    BY <1>2, <1>3, <2>1 DEF IInv, Cooling, GuardType
  <2>5. Pausing'
    BY <1>2, <2>2 DEF IInv, Pausing, pause
  <2> QED BY <1>2, <1>3, <2>3, <2>4, <2>5
       DEF IInv, TypeOK, LoginType, GuardType, PauseType, RotationType, In
<1>5. CASE Forget
  <2>1. PICK k \in Keys : fails' = [fails EXCEPT ![k] = 0]
    BY <1>5 DEF Forget
  <2>2. UNCHANGED <<blocked, late, pause, rotation>>
    BY <1>5 DEF Forget
  <2>3. GuardType' /\ PauseType' /\ RotationType'
    <3>1. \A j \in Keys : 0 < FailMax[j]
      BY LimitAssumption
    <3>2. GuardType'
      BY <1>3, <2>1, <2>2, <3>1 DEF GuardType
    <3> QED BY <1>3, <2>2, <3>2 DEF PauseType, RotationType, pause, rotation
  <2>4. \A j \in Keys : Cooling(j)'
    BY <1>2, <2>2 DEF IInv, Cooling
  <2>5. Pausing'
    BY <1>2, <2>2 DEF IInv, Pausing, pause
  <2> QED BY <1>2, <1>3, <2>3, <2>4, <2>5
       DEF IInv, TypeOK, LoginType, GuardType, PauseType, RotationType, In
<1>6. CASE Resume \/ Thaw
  <2>1. UNCHANGED guards /\ (UNCHANGED pause \/ (~paused' /\ sent' = 0))
    BY <1>6 DEF Resume, Thaw
  <2>2. GuardType' /\ PauseType' /\ RotationType'
    <3>1. GuardType'
      BY <1>3, <2>1 DEF GuardType, guards
    <3>2. PauseType'
      <4>1. CASE UNCHANGED pause
        BY <1>3, <4>1 DEF PauseType, pause
      <4>2. CASE ~paused' /\ sent' = 0
        <5>1. paused' \in BOOLEAN
          BY <1>6, <1>3 DEF Resume, Thaw, PauseType, pause
        <5> QED BY <4>2, <5>1 DEF PauseType
      <4> QED BY <2>1, <4>1, <4>2
    <3>3. frozen' \subseteq frozen /\ nextExit' = nextExit
      BY <1>6 DEF Resume, Thaw, rotation
    <3> QED BY <1>3, <3>1, <3>2, <3>3 DEF RotationType
  <2>3. \A j \in Keys : Cooling(j)'
    BY <1>2, <2>1 DEF IInv, Cooling, guards
  <2>4. Pausing'
    BY <1>2, <2>1 DEF IInv, Pausing, pause
  <2> QED BY <1>2, <1>3, <2>2, <2>3, <2>4
       DEF IInv, TypeOK, LoginType, GuardType, PauseType, RotationType, In
<1> QED BY <1>4, <1>5, <1>6 DEF Clock

LEMMA InitKeeps == Init => IInv
<1> SUFFICES ASSUME Init PROVE IInv
  OBVIOUS
<1>1. /\ 1 \in Exits /\ 0 \in 0..MaxCaptcha /\ Gate \in Nat \ {0}
      /\ FailMax \in [Keys -> Nat \ {0}]
  BY LimitAssumption DEF Exits
<1>2. LoginType
  BY <1>1 DEF Init, LoginType, PCs
<1>3. GuardType /\ PauseType /\ RotationType
  <2>1. \A k \in Keys : 0 < FailMax[k]
    BY <1>1
  <2>2. GuardType
    BY <2>1 DEF Init, GuardType
  <2> QED BY <1>1, <2>2 DEF Init, PauseType, RotationType
<1>4. In = {}
  BY DEF Init, In, Inside
<1>5. IsFiniteSet(In) /\ Cardinality(In) <= Gate
  BY <1>1, <1>4, FS_EmptySet
<1>6. \A t \in Threads : Passed(t)
  BY DEF Init, Passed
<1>7. \A k \in Keys : Cooling(k)
  BY DEF Init, Cooling
<1>8. Pausing
  BY DEF Init, Pausing
<1> QED BY <1>2, <1>3, <1>5, <1>6, <1>7, <1>8, Parts DEF IInv

LEMMA NextKeeps ==
  ASSUME IInv, [Next]_vars
  PROVE  IInv'
<1>1. CASE Next
  BY <1>1, StepKeeps, ClockKeeps DEF Next
<1>2. CASE UNCHANGED vars
  <2>1. UNCHANGED Left /\ \A k \in Keys : UNCHANGED Pending(k)
    BY <1>2 DEF vars, Left, Rest, Pending, In
  <2>2. TypeOK' /\ IsFiniteSet(In')
    BY <1>2 DEF IInv, TypeOK, vars, In
  <2>3. (\A t \in Threads : Passed(t)') /\ (\A k \in Keys : Cooling(k)') /\ Pausing'
    BY <1>2, <2>1 DEF IInv, vars, Passed, Cooling, Pausing
  <2> QED BY <2>2, <2>3 DEF IInv
<1> QED BY <1>1, <1>2

\* What the counts of IInv say holds in every state of every behaviour.
THEOREM Invariant == Spec => []IInv
<1>1. IInv /\ [Next]_vars => IInv'
  BY NextKeeps
<1> QED BY InitKeeps, <1>1, PTL DEF Spec

\* The state of the guards, the gate and the proxies always has its type; no more than
\* cas_concurrency logins are past the gate, and no key has more failures than it may.
THEOREM TypeCorrect == Spec => []TypeOK
<1>1. IInv => TypeOK
  BY DEF IInv
<1> QED BY Invariant, <1>1, PTL

\* With any number of logins, keys and proxies: fewer failures than cas_concurrency are
\* counted for a key while it cools down, however the logins overlap.
THEOREM Cooldown == Spec => []CooldownHolds
<1>1. IInv => CooldownHolds
  <2> SUFFICES ASSUME IInv, NEW k \in Keys PROVE late[k] < Gate
    BY DEF CooldownHolds
  <2>1. /\ late[k] \in Nat /\ Gate \in Nat \ {0} /\ IsFiniteSet(In)
        /\ Cooling(k)
    BY LimitAssumption DEF IInv, TypeOK
  <2>2. Pending(k) \in SUBSET In
    BY DEF Pending
  <2>3. Cardinality(Pending(k)) \in Nat
    BY <2>1, <2>2, FS_Subset, FS_CardinalityType
  <2> QED BY <2>1, <2>3 DEF Cooling
<1> QED BY Invariant, <1>1, PTL

\* After a pause has begun no more than MAX_CAPTCHA_ATTEMPTS passwords are sent by each
\* of the logins that were past the check, whatever proxies they go through.
THEOREM Paused == Spec => []PauseHolds
<1>1. IInv => PauseHolds
  <2> SUFFICES ASSUME IInv PROVE sent <= MaxCaptcha * (Gate - 1)
    BY DEF PauseHolds
  <2>1. /\ sent \in Nat /\ paused \in BOOLEAN /\ Pausing
        /\ MaxCaptcha \in Nat \ {0} /\ Gate \in Nat \ {0}
    BY LimitAssumption DEF IInv, TypeOK
  <2>2. MaxCaptcha * (Gate - 1) \in Nat
    BY <2>1
  <2>3. Cardinality(Left) \in Nat
    BY LeftFinite
  <2> QED BY <2>1, <2>2, <2>3 DEF Pausing
<1> QED BY Invariant, <1>1, PTL
=============================================================================
