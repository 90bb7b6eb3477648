---------------------------- MODULE BuildingsProof ----------------------------
(***************************************************************************)
(* Proofs about Buildings, for any students, places and seed.  The         *)
(* inductive invariant IInv says that what the students share, the dicts   *)
(* and the files, holds nothing but buildings, the base point and the      *)
(* addresses of those students, U, whose address may have been learnt as a *)
(* building's place.  The steps are proved for any U that is large enough; *)
(* the set mistaken itself is taken for it at the end.                     *)
(***************************************************************************)
EXTENDS Buildings, FiniteSetTheorems, TLAPS

Public(U) == {Base} \cup {House(h) : h \in Houses} \cup {Own(r) : r \in U}
PublicDicts(U) == [Places -> Public(U) \cup {NoCoord}]
PublicContents(U) == PublicDicts(U) \cup {NoText, Torn}

\* What a run of s may know.
Seen(U, s) == Public(U) \cup {Own(s)}
SeenPoints(U, s) == Seen(U, s) \X {"exact", "near"}

AccountOK ==
  /\ home \in [Students -> Places] /\ dkdz \in [Students -> Places \cup {NoName}]
  /\ jd \in [Students -> Coords \cup {NoCoord}]
MemoryOK(U) == objs \in [Objs -> PublicDicts(U)] /\ cache \in Objs \cup {NoRef}
DiskOK(U) ==
  /\ data \in [Inodes -> PublicContents(U)]
  /\ file \in Inodes \cup {NoRef} /\ tmp \in Inodes \cup {NoRef} /\ (file = tmp => file = NoRef)
LookOK(U) ==
  /\ dict \in [Students -> Objs \cup {NoRef}]
  /\ read \in [Students -> PublicContents(U) \cup {NoRef}]
WriteOK(U) ==
  /\ text \in [Students -> PublicContents(U)] /\ fd \in [Students -> Inodes \cup {NoRef}]
RunOK ==
  /\ pc \in [Students -> PCs] /\ name \in [Students -> Places \cup {NoName}]
  /\ coord \in [Students -> Points \cup {NoCoord}] /\ ok \in [Students -> Points \cup {NoCoord}]
CountOK(U) ==
  runs \in 0..MaxRuns /\ taught \subseteq Places /\ mistaken \subseteq U /\ mistaken \subseteq Students

\* Of one run.
Private(U, s) ==
  /\ jd[s] \in Seen(U, s) \cup {NoCoord}
  /\ coord[s] \in SeenPoints(U, s) \cup {NoCoord}
  /\ pc[s] = "learn" => coord[s] \in Public(U) \X {"exact", "near"}
Placed(s) ==
  /\ pc[s] \in {"jitter", "submit"} => coord[s] = ok[s]
  /\ pc[s] \in {"check", "verify", "jitter"} \cup Learning => coord[s] # NoCoord
  /\ pc[s] \in Learning => name[s] # NoName
Looking(s) == read[s] # NoRef => dict[s] = NoRef

IInv(U) ==
  /\ AccountOK /\ MemoryOK(U) /\ DiskOK(U) /\ LookOK(U) /\ WriteOK(U) /\ RunOK /\ CountOK(U)
  /\ \A s \in Students : Private(U, s) /\ Placed(s) /\ Looking(s)
-----------------------------------------------------------------------------
(* Coordinates, dicts and files. *)

LEMMA PointTypes ==
  ASSUME NEW U \in SUBSET Students
  PROVE  /\ Public(U) \subseteq Coords
         /\ \A s \in Students : Seen(U, s) \subseteq Coords /\ SeenPoints(U, s) \subseteq Points
         /\ NoCoord \notin Coords /\ NoCoord \notin Points
         /\ Base \in Public(U) /\ \A h \in Houses : House(h) \in Public(U)
<1>1. \A s \in Students : Own(s) \in Coords
  BY DEF Coords
<1>2. Public(U) \subseteq Coords
  BY DEF Public, Coords
<1>3. NoCoord \notin Coords /\ NoCoord \notin Points
  BY NameAssumption
<1>4. Base \in Public(U) /\ \A h \in Houses : House(h) \in Public(U)
  BY DEF Public
<1> QED BY <1>1, <1>2, <1>3, <1>4 DEF Seen, SeenPoints, Points

LEMMA DictTypes ==
  ASSUME NEW U \in SUBSET Students
  PROVE  /\ PublicDicts(U) \subseteq Dicts /\ PublicContents(U) \subseteq Contents
         /\ EmptyDict \in PublicDicts(U) /\ NoRef \notin PublicContents(U)
         /\ NoText \in PublicContents(U) /\ Torn \in PublicContents(U)
         /\ \A c \in PublicContents(U) : c \in Dicts => c \in PublicDicts(U)
<1>1. PublicDicts(U) \subseteq Dicts
  BY PointTypes DEF PublicDicts, Dicts
<1>2. EmptyDict \in PublicDicts(U)
  BY DEF EmptyDict, PublicDicts
<1>3. PublicContents(U) \subseteq Contents
  BY <1>1 DEF PublicContents, Contents
<1> QED BY <1>1, <1>2, <1>3, NameAssumption DEF PublicContents

LEMMA Entries ==
  ASSUME NEW U \in SUBSET Students, NEW d \in PublicDicts(U), NEW n \in Places
  PROVE  /\ d[n] \in Public(U) \cup {NoCoord}
         /\ \A c \in Public(U) : [d EXCEPT ![n] = c] \in PublicDicts(U)
BY DEF PublicDicts

LEMMA KeptType ==
  ASSUME NEW U \in SUBSET Students, NEW os \in [Objs -> PublicDicts(U)], NEW refs
  PROVE  Kept(os, refs) \in [Objs -> PublicDicts(U)]
BY DictTypes DEF Kept

LEMMA LinkedType ==
  ASSUME NEW U \in SUBSET Students, NEW d \in [Inodes -> PublicContents(U)], NEW refs
  PROVE  Linked(d, refs) \in [Inodes -> PublicContents(U)]
BY DictTypes DEF Linked

\* There is an object to spare for a thread that uses none, and an inode.
LEMMA Images ==
  ASSUME NEW S, IsFiniteSet(S), NEW f
  PROVE  /\ IsFiniteSet({f[r] : r \in S})
         /\ Cardinality({f[r] : r \in S}) <= Cardinality(S)
<1> DEFINE g == [r \in S |-> f[r]]
           T == {f[r] : r \in S}
<1>1. g \in Surjection(S, T)
  BY DEF Surjection
<1> QED BY <1>1, FS_Surjection

LEMMA OneMore ==
  ASSUME NEW S, IsFiniteSet(S), NEW x
  PROVE  IsFiniteSet(S \cup {x}) /\ Cardinality(S \cup {x}) <= Cardinality(S) + 1
<1>1. Cardinality(S) \in Nat
  BY FS_CardinalityType
<1> QED BY <1>1, FS_AddElement

LEMMA FreeObject ==
  ASSUME NEW U \in SUBSET Students, IInv(U), NEW s \in Students, dict[s] = NoRef
  PROVE  \E o \in Objs : o \notin {cache} \cup Range(dict)
<1> DEFINE S == Students \ {s}
           T == {dict[r] : r \in S}
<1>1. /\ IsFiniteSet(Students) /\ IsFiniteSet(Objs) /\ NoRef \notin Objs
      /\ Cardinality(Objs) > Cardinality(Students)
  BY EnoughAssumption, NameAssumption
<1>2. /\ Cardinality(Students) \in Nat /\ Cardinality(Objs) \in Nat
  BY <1>1, FS_CardinalityType
<1>3. IsFiniteSet(S) /\ Cardinality(S) = Cardinality(Students) - 1
  BY <1>1, FS_RemoveElement
<1>4. IsFiniteSet(T) /\ Cardinality(T) <= Cardinality(S)
  BY <1>3, Images
<1>5. Cardinality(T) \in Nat
  BY <1>4, FS_CardinalityType
<1>6. IsFiniteSet(T \cup {cache}) /\ Cardinality(T \cup {cache}) <= Cardinality(T) + 1
  BY <1>4, OneMore
<1>7. Cardinality(T \cup {cache}) \in Nat
  BY <1>6, FS_CardinalityType
<1>8. ASSUME Objs \subseteq T \cup {cache} PROVE FALSE
  <2>1. Objs \in SUBSET (T \cup {cache})
    BY <1>8
  <2>2. Cardinality(Objs) <= Cardinality(T \cup {cache})
    BY <1>6, <2>1, FS_Subset
  <2> QED BY <1>1, <1>2, <1>3, <1>4, <1>5, <1>6, <1>7, <2>2
<1>9. PICK o \in Objs : o \notin T \cup {cache}
  BY <1>8
<1>10. o \notin Range(dict)
  BY <1>1, <1>9 DEF Range, IInv, LookOK
<1> QED BY <1>9, <1>10

LEMMA FreeInode ==
  ASSUME NEW U \in SUBSET Students, IInv(U)
  PROVE  \E i \in Inodes : i \notin {file} \cup Range(fd)
<1> DEFINE T == {fd[r] : r \in Students}
<1>1. /\ IsFiniteSet(Students) /\ IsFiniteSet(Inodes)
      /\ Cardinality(Inodes) > Cardinality(Students) + 1
  BY EnoughAssumption
<1>2. Cardinality(Students) \in Nat /\ Cardinality(Inodes) \in Nat
  BY <1>1, FS_CardinalityType
<1>3. IsFiniteSet(T) /\ Cardinality(T) <= Cardinality(Students)
  BY <1>1, Images
<1>4. Cardinality(T) \in Nat
  BY <1>3, FS_CardinalityType
<1>5. IsFiniteSet(T \cup {file}) /\ Cardinality(T \cup {file}) <= Cardinality(T) + 1
  BY <1>3, OneMore
<1>6. Cardinality(T \cup {file}) \in Nat
  BY <1>5, FS_CardinalityType
<1>7. ASSUME Inodes \subseteq T \cup {file} PROVE FALSE
  <2>1. Inodes \in SUBSET (T \cup {file})
    BY <1>7
  <2>2. Cardinality(Inodes) <= Cardinality(T \cup {file})
    BY <1>5, <2>1, FS_Subset
  <2> QED BY <1>1, <1>2, <1>3, <1>4, <1>5, <1>6, <2>2
<1>8. PICK i \in Inodes : i \notin T \cup {file}
  BY <1>7
<1>9. i \notin Range(fd)
  BY <1>8 DEF Range, IInv, WriteOK
<1> QED BY <1>8, <1>9
-----------------------------------------------------------------------------
(* The parts of a step of s. *)

\* The account, and what the thread looks up.
AccountStep(U, s) ==
  /\ AccountOK' /\ jd'[s] \in Seen(U, s) \cup {NoCoord}
  /\ \A u \in Students \ {s} : jd'[u] = jd[u]
LookStep(U, s) ==
  /\ LookOK(U)' /\ Looking(s)'
  /\ \A u \in Students \ {s} : dict'[u] = dict[u] /\ read'[u] = read[u]

\* The run is at l then, with name n, coordinates c, and k as the accepted point.
CoordBecomes(s, c) == coord' = Set(coord, s, c) \/ (coord' = coord /\ c = coord[s])
RunStep(s, l, n, c, k) ==
  /\ pc' = Set(pc, s, l) \/ (pc' = pc /\ l = pc[s])
  /\ name' = Set(name, s, n) \/ (name' = name /\ n = name[s])
  /\ CoordBecomes(s, c)
  /\ ok' = Set(ok, s, k) \/ (ok' = ok /\ k = ok[s])
Right(U, s, l, n, c, k) ==
  /\ l \in PCs /\ n \in Places \cup {NoName}
  /\ c \in SeenPoints(U, s) \cup {NoCoord} /\ k \in Points \cup {NoCoord}
  /\ l = "learn" => c \in Public(U) \X {"exact", "near"}
  /\ l \in {"jitter", "submit"} => c = k
  /\ l \in {"check", "verify", "jitter"} \cup Learning => c # NoCoord
  /\ l \in Learning => n # NoName

LEMMA Moved ==
  ASSUME NEW U \in SUBSET Students, IInv(U), NEW s \in Students, NEW l, NEW n, NEW c, NEW k,
         RunStep(s, l, n, c, k), Right(U, s, l, n, c, k),
         AccountStep(U, s), MemoryOK(U)', DiskOK(U)', LookStep(U, s), WriteOK(U)', CountOK(U)'
  PROVE  IInv(U)'
<1>1. RunOK /\ c \in Points \cup {NoCoord}
  BY PointTypes DEF IInv, Right
<1>2. RunOK'
  BY <1>1 DEF RunOK, RunStep, Right, CoordBecomes, Set
<1>3. pc'[s] = l /\ name'[s] = n /\ coord'[s] = c /\ ok'[s] = k
  BY <1>1 DEF RunOK, RunStep, CoordBecomes, Set
<1>4. \A u \in Students \ {s} :
        pc'[u] = pc[u] /\ name'[u] = name[u] /\ coord'[u] = coord[u] /\ ok'[u] = ok[u]
  BY <1>1 DEF RunOK, RunStep, CoordBecomes, Set
<1>5. Private(U, s)' /\ Placed(s)'
  BY <1>3 DEF Private, Placed, Right, AccountStep
<1>6. ASSUME NEW u \in Students \ {s} PROVE Private(U, u)' /\ Placed(u)' /\ Looking(u)'
  <2>1. Private(U, u)'
    BY <1>4 DEF IInv, Private, AccountStep
  <2>2. Placed(u)'
    BY <1>4 DEF IInv, Placed
  <2>3. Looking(u)'
    BY DEF IInv, Looking, LookStep
  <2> QED BY <2>1, <2>2, <2>3
<1> QED BY <1>2, <1>5, <1>6 DEF IInv, AccountStep, LookStep

\* With the place, name and points of some such step.
LEMMA Goes ==
  ASSUME NEW U \in SUBSET Students, IInv(U), NEW s \in Students,
         \E l, n, c, k : RunStep(s, l, n, c, k) /\ Right(U, s, l, n, c, k),
         AccountStep(U, s), MemoryOK(U)', DiskOK(U)', LookStep(U, s), WriteOK(U)', CountOK(U)'
  PROVE  IInv(U)'
BY Moved

LEMMA Same ==
  ASSUME NEW U \in SUBSET Students, IInv(U), NEW s \in Students
  PROVE  /\ UNCHANGED <<home, account>> => AccountStep(U, s)
         /\ UNCHANGED memory => MemoryOK(U)'
         /\ UNCHANGED disk => DiskOK(U)'
         /\ UNCHANGED <<dict, read>> => LookStep(U, s)
         /\ UNCHANGED <<text, fd>> => WriteOK(U)'
         /\ UNCHANGED local => LookStep(U, s) /\ WriteOK(U)'
         /\ UNCHANGED <<runs, taught, mistaken>> => CountOK(U)'
<1>1. UNCHANGED <<home, account>> => AccountStep(U, s)
  BY DEF IInv, AccountStep, AccountOK, account, Private
<1>2. UNCHANGED memory => MemoryOK(U)'
  BY DEF IInv, MemoryOK, memory
<1>3. UNCHANGED disk => DiskOK(U)'
  BY DEF IInv, DiskOK, disk
<1>4. UNCHANGED <<dict, read>> => LookStep(U, s)
  BY DEF IInv, LookStep, LookOK, Looking
<1>5. UNCHANGED <<text, fd>> => WriteOK(U)'
  BY DEF IInv, WriteOK
<1>6. UNCHANGED <<runs, taught, mistaken>> => CountOK(U)'
  BY DEF IInv, CountOK
<1> QED BY <1>1, <1>2, <1>3, <1>4, <1>5, <1>6 DEF local

LEMMA ReleaseStep ==
  ASSUME NEW U \in SUBSET Students, IInv(U), NEW s \in Students, Release(s),
         UNCHANGED <<cache, read>>
  PROVE  MemoryOK(U)' /\ LookStep(U, s)
<1>1. MemoryOK(U) /\ LookOK(U)
  BY DEF IInv
<1>2. MemoryOK(U)'
  BY <1>1, KeptType DEF MemoryOK, Release
<1>3. LookOK(U)'
  BY <1>1 DEF LookOK, Release, Set
<1>4. dict'[s] = NoRef
  BY <1>1 DEF LookOK, Release, Set
<1>5. \A u \in Students \ {s} : dict'[u] = dict[u] /\ read'[u] = read[u]
  BY <1>1 DEF LookOK, Release, Set
<1> QED BY <1>2, <1>3, <1>4, <1>5 DEF LookStep, Looking

LEMMA SaveStep ==
  ASSUME NEW U \in SUBSET Students, IInv(U), NEW s \in Students, NEW n \in Places \cup {NoName},
         NEW c \in Seen(U, s) \cup {NoCoord}, Save(s, n, c), home' = home
  PROVE  AccountStep(U, s)
<1> DEFINE named == IF n = NoName THEN dkdz[s] ELSE n
           kept == IF Cacheable(named) THEN NoCoord ELSE c
<1>1. AccountOK /\ jd[s] \in Seen(U, s) \cup {NoCoord} /\ kept \in Seen(U, s) \cup {NoCoord}
  BY DEF IInv, Private
<1>2. named \in Places \cup {NoName} /\ kept \in Coords \cup {NoCoord}
  BY <1>1, PointTypes DEF AccountOK
<1>3. dkdz' = Set(dkdz, s, named) /\ (jd' = jd \/ jd' = Set(jd, s, kept))
  BY DEF Save
<1>4. AccountOK'
  BY <1>1, <1>2, <1>3 DEF AccountOK, Set
<1>5. jd'[s] \in Seen(U, s) \cup {NoCoord} /\ \A u \in Students \ {s} : jd'[u] = jd[u]
  BY <1>1, <1>3 DEF AccountOK, Set
<1> QED BY <1>4, <1>5 DEF AccountStep

\* What a run finds, by name, is public.
LEMMA ResolvedType ==
  ASSUME NEW U \in SUBSET Students, IInv(U), NEW s \in Students, dict[s] # NoRef, NEW n \in Places
  PROVE  Resolved(s, n) \in Public(U) \cup {NoCoord}
<1>1. objs[dict[s]] \in PublicDicts(U)
  BY DEF IInv, LookOK, MemoryOK
<1>2. objs[dict[s]][n] \in Public(U) \cup {NoCoord}
  BY <1>1, Entries
<1> QED BY <1>2, PointTypes, NameAssumption DEF Resolved

\* The run ends.
LEMMA Finished ==
  ASSUME NEW U \in SUBSET Students, IInv(U), NEW s \in Students, Finish(s),
         AccountStep(U, s), MemoryOK(U)', DiskOK(U)', LookStep(U, s), WriteOK(U)', CountOK(U)'
  PROVE  IInv(U)'
<1>1. RunStep(s, "idle", NoName, NoCoord, NoCoord)
  BY DEF Finish, RunStep, CoordBecomes, Goto, Set
<1>2. Right(U, s, "idle", NoName, NoCoord, NoCoord)
  BY DEF Right, PCs, Learning
<1> QED BY <1>1, <1>2, Moved

\* Where it is already.
LEMMA Here ==
  ASSUME NEW U \in SUBSET Students, IInv(U), NEW s \in Students
  PROVE  /\ Right(U, s, pc[s], name[s], coord[s], ok[s])
         /\ UNCHANGED <<pc, name, coord, ok>> => RunStep(s, pc[s], name[s], coord[s], ok[s])
<1>1. Right(U, s, pc[s], name[s], coord[s], ok[s])
  BY DEF IInv, RunOK, Right, Private, Placed
<1> QED BY <1>1 DEF RunStep, CoordBecomes
-----------------------------------------------------------------------------
(* The steps of a run: _learned. *)

LEMMA StartKeeps ==
  ASSUME NEW U \in SUBSET Students, IInv(U), NEW s \in Students, Start(s)
  PROVE  IInv(U)'
<1>1. RunStep(s, "known", name[s], coord[s], ok[s])
  BY DEF Start, RunStep, CoordBecomes, Goto, Set
<1>2. Right(U, s, "known", name[s], coord[s], ok[s])
  BY Here DEF Right, PCs, Lookups, Learning
<1>3. CountOK(U)'
  BY EnoughAssumption DEF Start, IInv, CountOK
<1> QED BY <1>1, <1>2, <1>3, Same, Goes DEF Start

LEMMA HitKeeps ==
  ASSUME NEW U \in SUBSET Students, IInv(U), NEW s \in Students, Hit(s)
  PROVE  IInv(U)'
<1>1. LookOK(U) /\ MemoryOK(U)
  BY DEF IInv
<1>2. LookStep(U, s)
  BY <1>1 DEF Hit, LookStep, LookOK, MemoryOK, Looking, Set
<1> QED BY <1>2, Same, Here, Goes DEF Hit

LEMMA ReadKeeps ==
  ASSUME NEW U \in SUBSET Students, IInv(U), NEW s \in Students, Read(s)
  PROVE  IInv(U)'
<1> DEFINE content == IF file = NoRef THEN EmptyDict ELSE data[file]
<1>1. LookOK(U) /\ DiskOK(U) /\ dict[s] = NoRef /\ dict' = dict
  BY DEF IInv, Read, Wants
<1>2. content \in PublicContents(U)
  BY <1>1, DictTypes DEF DiskOK, PublicContents
<1>3. read' = Set(read, s, content)
  BY DEF Read
<1>4. LookStep(U, s)
  BY <1>1, <1>2, <1>3 DEF LookStep, LookOK, Looking, Set
<1> QED BY <1>4, Same, Here, Goes DEF Read

LEMMA FillKeeps ==
  ASSUME NEW U \in SUBSET Students, IInv(U), NEW s \in Students, Fill(s)
  PROVE  IInv(U)'
<1> DEFINE used == {cache} \cup Range(dict)
           o == CHOOSE x \in Objs : x \notin used
           d == IF read[s] \in Dicts THEN read[s] ELSE EmptyDict
<1>1. LookOK(U) /\ MemoryOK(U) /\ dict[s] = NoRef /\ read[s] \in PublicContents(U)
  BY DEF IInv, Fill, Looking, LookOK
<1>2. o \in Objs
  BY <1>1, FreeObject
<1>3. d \in PublicDicts(U)
  BY <1>1, DictTypes
<1>4. /\ objs' = [objs EXCEPT ![o] = d] /\ dict' = Set(dict, s, o)
      /\ cache' = (IF cache = NoRef THEN o ELSE cache) /\ read' = Set(read, s, NoRef)
  BY DEF Fill
<1> HIDE DEF o, d
<1>5. MemoryOK(U)'
  BY <1>1, <1>2, <1>3, <1>4 DEF MemoryOK
<1>6. LookStep(U, s)
  BY <1>1, <1>2, <1>4 DEF LookStep, LookOK, Looking, Set
<1> QED BY <1>5, <1>6, Same, Here, Goes DEF Fill
-----------------------------------------------------------------------------
(* The steps of a run: where to check in. *)

\* The way on, when the accepted point p is what is to be submitted.
LEMMA SettledKeeps ==
  ASSUME NEW U \in SUBSET Students, IInv(U), NEW s \in Students, NEW p \in SeenPoints(U, s),
         Settled(s), CoordBecomes(s, p), Accepted(s, p),
         AccountStep(U, s), MemoryOK(U)', DiskOK(U)', LookStep(U, s), WriteOK(U)', CountOK(U)'
  PROVE  IInv(U)'
<1>1. RunStep(s, "jitter", NoName, p, p)
  BY DEF Settled, Accepted, RunStep, CoordBecomes, Goto, Set
<1>2. Right(U, s, "jitter", NoName, p, p)
  BY PointTypes DEF Right, PCs, Learning
<1> QED BY <1>1, <1>2, Goes

LEMMA KnownKeeps ==
  ASSUME NEW U \in SUBSET Students, IInv(U), NEW s \in Students, Known(s)
  PROVE  IInv(U)'
<1> DEFINE c == IF Cacheable(dkdz[s]) THEN Resolved(s, dkdz[s]) ELSE jd[s]
<1>1. /\ MemoryOK(U)' /\ LookStep(U, s) /\ DiskOK(U)' /\ WriteOK(U)' /\ CountOK(U)'
      /\ home' = home /\ dkdz' = dkdz
  BY ReleaseStep, Same DEF Known
<1>2. AccountOK /\ pc[s] = "known" /\ ~Wants(s)
  BY DEF Known, IInv
<1>3. c \in Seen(U, s) \cup {NoCoord}
  <2>1. CASE Cacheable(dkdz[s])
    <3>1. dict[s] # NoRef /\ dkdz[s] \in Places
      BY <1>2, <2>1 DEF Wants, Lookups, Cacheable, Places
    <3>2. Resolved(s, dkdz[s]) \in Public(U) \cup {NoCoord}
      BY <3>1, ResolvedType
    <3> QED BY <2>1, <3>2 DEF Seen
  <2>2. CASE ~Cacheable(dkdz[s])
    BY <2>2 DEF IInv, Private
  <2> QED BY <2>1, <2>2
<1>4. OtherCoord(c) \in Seen(U, s)
  BY <1>3, PointTypes DEF OtherCoord, Seen
<1>5. CASE /\ coord' = Set(coord, s, <<OtherCoord(c), "near">>) /\ Goto(s, "other")
           /\ jd' = IF c = NoCoord THEN Set(jd, s, OtherCoord(c)) ELSE jd
           /\ UNCHANGED name
  <2>1. OtherCoord(c) \in Coords
    BY <1>4, PointTypes
  <2>2. AccountStep(U, s)
    <3> HIDE DEF c
    <3>1. AccountOK'
      BY <1>1, <1>2, <1>5, <2>1 DEF AccountOK, Set
    <3>2. jd'[s] \in Seen(U, s) \cup {NoCoord} /\ \A u \in Students \ {s} : jd'[u] = jd[u]
      BY <1>2, <1>4, <1>5 DEF AccountOK, IInv, Private, Set
    <3> QED BY <3>1, <3>2 DEF AccountStep
  <2>3. RunStep(s, "other", name[s], <<OtherCoord(c), "near">>, ok[s])
    BY <1>5 DEF Known, RunStep, CoordBecomes, Goto, Set
  <2>4. Right(U, s, "other", name[s], <<OtherCoord(c), "near">>, ok[s])
    BY <1>4, Here DEF Right, PCs, Learning, SeenPoints
  <2> QED BY <1>1, <2>2, <2>3, <2>4, Goes
<1>6. CASE /\ IF c = NoCoord THEN Goto(s, "named") /\ UNCHANGED coord
              ELSE Goto(s, "check") /\ coord' = Set(coord, s, Exact(c))
           /\ name' = Set(name, s, dkdz[s]) /\ UNCHANGED jd
  <2>1. AccountStep(U, s)
    BY <1>1, <1>6, Same DEF account
  <2>2. dkdz[s] \in Places \cup {NoName}
    BY <1>2 DEF AccountOK
  <2>3. CASE c = NoCoord
    <3>1. RunStep(s, "named", dkdz[s], coord[s], ok[s])
      BY <1>6, <2>3 DEF Known, RunStep, CoordBecomes, Goto, Set
    <3>2. Right(U, s, "named", dkdz[s], coord[s], ok[s])
      BY <2>2, Here DEF Right, PCs, Lookups, Learning
    <3> QED BY <1>1, <2>1, <3>1, <3>2, Goes
  <2>4. CASE c # NoCoord
    <3>1. RunStep(s, "check", dkdz[s], Exact(c), ok[s])
      BY <1>6, <2>4 DEF Known, RunStep, CoordBecomes, Goto, Set
    <3>2. Exact(c) \in SeenPoints(U, s) /\ Exact(c) # NoCoord
      BY <1>3, <2>4, PointTypes DEF Exact, SeenPoints
    <3>3. Right(U, s, "check", dkdz[s], Exact(c), ok[s])
      BY <2>2, <3>2, Here DEF Right, PCs, Learning
    <3> QED BY <1>1, <2>1, <3>1, <3>3, Goes
  <2> QED BY <2>3, <2>4
<1> QED BY <1>5, <1>6 DEF Known

LEMMA CheckKeeps ==
  ASSUME NEW U \in SUBSET Students, IInv(U), NEW s \in Students, Check(s)
  PROVE  IInv(U)'
<1>1. MemoryOK(U)' /\ LookStep(U, s) /\ DiskOK(U)' /\ WriteOK(U)' /\ CountOK(U)' /\ home' = home
  BY Same DEF Check
<1>2. coord[s] \in SeenPoints(U, s) /\ home[s] \in Places
  BY DEF Check, IInv, Private, Placed, AccountOK
<1>3. CASE /\ Accepted(s, coord[s]) /\ Settled(s) /\ UNCHANGED coord
           /\ \E n \in Told(s, NoName) : Save(s, n, coord[s][1])
  <2>1. coord[s][1] \in Seen(U, s)
    BY <1>2 DEF SeenPoints
  <2>2. AccountStep(U, s)
    BY <1>1, <1>2, <1>3, <2>1, SaveStep DEF Told
  <2>3. CoordBecomes(s, coord[s])
    BY <1>3 DEF CoordBecomes
  <2> QED BY <1>1, <1>2, <1>3, <2>2, <2>3, SettledKeeps
<1>4. CASE /\ Goto(s, "named") /\ coord' = Set(coord, s, NoCoord)
           /\ UNCHANGED <<account, ok, name>>
  <2>1. RunStep(s, "named", name[s], NoCoord, ok[s])
    BY <1>4 DEF RunStep, CoordBecomes, Goto, Set
  <2>2. Right(U, s, "named", name[s], NoCoord, ok[s])
    BY Here DEF Right, PCs, Lookups, Learning
  <2> QED BY <1>1, <1>4, <2>1, <2>2, Same, Goes
<1> QED BY <1>3, <1>4 DEF Check

LEMMA LookupKeeps ==
  ASSUME NEW U \in SUBSET Students, IInv(U), NEW s \in Students, Lookup(s)
  PROVE  IInv(U)'
<1> DEFINE c == Resolved(s, name[s])
           next == IF pc[s] = "named" THEN "base" ELSE "locate"
<1>1. MemoryOK(U)' /\ LookStep(U, s) /\ DiskOK(U)' /\ WriteOK(U)' /\ CountOK(U)' /\ home' = home
  BY ReleaseStep, Same DEF Lookup
<1>2. name[s] \in Places \cup {NoName} /\ home[s] \in Places /\ pc[s] \in {"named", "probed"}
  BY DEF IInv, RunOK, AccountOK, Lookup
<1>3. CASE /\ name[s] # NoName /\ c # NoCoord
           /\ coord' = Set(coord, s, Exact(c)) /\ Accepted(s, Exact(c))
           /\ \E n \in Told(s, name[s]) : Save(s, n, c)
           /\ Settled(s)
  <2>1. dict[s] # NoRef
    BY <1>2, <1>3 DEF Lookup, Wants, Lookups
  <2>2. c \in Public(U)
    BY <1>2, <1>3, <2>1, ResolvedType
  <2>3. c \in Seen(U, s) /\ Exact(c) \in SeenPoints(U, s)
    BY <2>2 DEF Seen, SeenPoints, Exact
  <2>4. AccountStep(U, s)
    BY <1>1, <1>2, <1>3, <2>3, SaveStep DEF Told
  <2>5. CoordBecomes(s, Exact(c))
    BY <1>3 DEF CoordBecomes
  <2> QED BY <1>1, <1>3, <2>3, <2>4, <2>5, SettledKeeps
<1>4. CASE Goto(s, next) /\ UNCHANGED <<account, coord, ok, name>>
  <2>1. RunStep(s, next, name[s], coord[s], ok[s])
    BY <1>4 DEF RunStep, CoordBecomes, Goto, Set
  <2>2. Right(U, s, next, name[s], coord[s], ok[s])
    BY Here DEF Right, PCs, Learning
  <2> QED BY <1>1, <1>4, <2>1, <2>2, Same, Goes
<1> QED BY <1>3, <1>4 DEF Lookup

LEMMA ProbeKeeps ==
  ASSUME NEW U \in SUBSET Students, IInv(U), NEW s \in Students, Probe(s)
  PROVE  IInv(U)'
<1>1. MemoryOK(U)' /\ LookStep(U, s) /\ DiskOK(U)' /\ WriteOK(U)' /\ CountOK(U)' /\ home' = home
  BY Same DEF Probe
<1>2. Told(s, NoName) \subseteq Places \cup {NoName}
  BY DEF IInv, AccountOK, Told
<1>3. CASE /\ coord' = Set(coord, s, Exact(Base)) /\ Accepted(s, Exact(Base))
           /\ \E n \in Told(s, NoName) : Save(s, n, NoCoord)
           /\ Settled(s)
  <2>1. Exact(Base) \in SeenPoints(U, s)
    BY PointTypes DEF Exact, SeenPoints, Seen
  <2>2. AccountStep(U, s)
    BY <1>1, <1>2, <1>3, SaveStep
  <2>3. CoordBecomes(s, Exact(Base))
    BY <1>3 DEF CoordBecomes
  <2> QED BY <1>1, <1>3, <2>1, <2>2, <2>3, SettledKeeps
<1>4. CASE Goto(s, "locate") /\ UNCHANGED <<name, account, coord, ok>>
  <2>1. RunStep(s, "locate", name[s], coord[s], ok[s])
    BY <1>4 DEF RunStep, CoordBecomes, Goto, Set
  <2>2. Right(U, s, "locate", name[s], coord[s], ok[s])
    BY Here DEF Right, PCs, Lookups, Learning
  <2> QED BY <1>1, <1>4, <2>1, <2>2, Same, Goes
<1>5. ASSUME NEW n \in Told(s, NoName), Goto(s, "probed"), name' = Set(name, s, n),
             UNCHANGED <<account, coord, ok>>
      PROVE  IInv(U)'
  <2>1. RunStep(s, "probed", n, coord[s], ok[s])
    BY <1>5 DEF RunStep, CoordBecomes, Goto, Set
  <2>2. Right(U, s, "probed", n, coord[s], ok[s])
    BY <1>2, Here DEF Right, PCs, Lookups, Learning
  <2> QED BY <1>1, <1>5, <2>1, <2>2, Same, Goes
<1> QED BY <1>3, <1>4, <1>5 DEF Probe

\* What is measured goes to learn when it goes by a building's name: it is a building's
\* place then, or the student's address is one of those that have been mistaken.
LEMMA LocateKeeps ==
  ASSUME NEW U \in SUBSET Students, IInv(U), NEW s \in Students, Locate(s), mistaken' \subseteq U
  PROVE  IInv(U)'
<1> DEFINE p == Exact(Where(s))
<1>1. PICK n \in Told(s, name[s]) :
        /\ name' = Set(name, s, n) /\ Goto(s, IF Cacheable(n) THEN "learn" ELSE "verify")
        /\ mistaken' = IF Cacheable(n) /\ ~Cacheable(home[s]) THEN mistaken \cup {s} ELSE mistaken
  BY DEF Locate
<1> DEFINE l == IF Cacheable(n) THEN "learn" ELSE "verify"
<1>2. AccountStep(U, s) /\ MemoryOK(U)' /\ LookStep(U, s) /\ DiskOK(U)' /\ WriteOK(U)'
  BY Same DEF Locate
<1>3. CountOK(U)' /\ n \in Places \cup {NoName}
  BY DEF Locate, IInv, CountOK, AccountOK, RunOK, Told
<1>4. Where(s) \in Seen(U, s) /\ (Cacheable(n) => Where(s) \in Public(U))
  <2>1. CASE Cacheable(home[s])
    BY <2>1, PointTypes DEF Where, Seen, Cacheable
  <2>2. CASE ~Cacheable(home[s])
    <3>1. Where(s) = Own(s)
      BY <2>2 DEF Where, Cacheable
    <3>2. Cacheable(n) => s \in U
      BY <1>1, <2>2
    <3> QED BY <3>1, <3>2 DEF Seen, Public
  <2> QED BY <2>1, <2>2
<1>5. p \in SeenPoints(U, s) /\ (Cacheable(n) => p \in Public(U) \X {"exact", "near"})
  BY <1>4 DEF Exact, SeenPoints
<1>6. RunStep(s, l, n, p, ok[s])
  BY <1>1 DEF Locate, RunStep, CoordBecomes, Goto, Set
<1>7. Right(U, s, l, n, p, ok[s])
  <2>1. Cacheable(n) => n # NoName
    BY NameAssumption DEF Cacheable, Places
  <2>2. p # NoCoord /\ ok[s] \in Points \cup {NoCoord}
    BY <1>5, Here, PointTypes DEF Right
  <2>3. l \in {"learn", "verify"} /\ (l = "learn" => Cacheable(n))
    OBVIOUS
  <2> QED BY <1>3, <1>5, <2>1, <2>2, <2>3 DEF Right, PCs, Lookups, Learning
<1> QED BY <1>2, <1>3, <1>6, <1>7, Goes

LEMMA VerifyKeeps ==
  ASSUME NEW U \in SUBSET Students, IInv(U), NEW s \in Students, Verify(s)
  PROVE  IInv(U)'
<1>1. MemoryOK(U)' /\ LookStep(U, s) /\ DiskOK(U)' /\ WriteOK(U)' /\ CountOK(U)' /\ home' = home
  BY Same DEF Verify
<1>2. coord[s] \in SeenPoints(U, s) /\ home[s] \in Places /\ name[s] \in Places \cup {NoName}
  BY DEF Verify, IInv, Private, Placed, AccountOK, RunOK
<1>3. CASE /\ Accepted(s, coord[s]) /\ Settled(s) /\ UNCHANGED coord
           /\ \E n \in Told(s, name[s]) : Save(s, n, coord[s][1])
  <2>1. coord[s][1] \in Seen(U, s)
    BY <1>2 DEF SeenPoints
  <2>2. AccountStep(U, s)
    BY <1>1, <1>2, <1>3, <2>1, SaveStep DEF Told
  <2>3. CoordBecomes(s, coord[s])
    BY <1>3 DEF CoordBecomes
  <2> QED BY <1>1, <1>2, <1>3, <2>2, <2>3, SettledKeeps
<1>4. CASE Finish(s) /\ \E n \in Told(s, NoName) : Save(s, n, NoCoord)
  <2>1. AccountStep(U, s)
    BY <1>1, <1>2, <1>4, SaveStep DEF Told
  <2> QED BY <1>1, <1>4, <2>1, Finished
<1> QED BY <1>3, <1>4 DEF Verify

LEMMA JitterKeeps ==
  ASSUME NEW U \in SUBSET Students, IInv(U), NEW s \in Students, Jitter(s)
  PROVE  IInv(U)'
<1> DEFINE p == <<coord[s][1], "near">>
<1>1. /\ AccountStep(U, s) /\ MemoryOK(U)' /\ LookStep(U, s) /\ DiskOK(U)' /\ WriteOK(U)'
      /\ CountOK(U)'
  BY Same DEF Jitter
<1>2. coord[s] \in SeenPoints(U, s) /\ coord[s] = ok[s]
  BY DEF Jitter, IInv, Private, Placed
<1>3. CASE UNCHANGED <<coord, ok>>
  <2>1. RunStep(s, "submit", name[s], coord[s], ok[s])
    BY <1>3 DEF Jitter, RunStep, CoordBecomes, Goto, Set
  <2>2. Right(U, s, "submit", name[s], coord[s], ok[s])
    BY <1>2, Here DEF Right, PCs, Learning
  <2> QED BY <1>1, <2>1, <2>2, Goes
<1>4. CASE coord' = Set(coord, s, p) /\ Accepted(s, p)
  <2>1. p \in SeenPoints(U, s)
    BY <1>2 DEF SeenPoints
  <2>2. RunStep(s, "submit", name[s], p, p)
    BY <1>4 DEF Jitter, Accepted, RunStep, CoordBecomes, Goto, Set
  <2>3. Right(U, s, "submit", name[s], p, p)
    BY <2>1, Here, PointTypes DEF Right, PCs, Learning
  <2> QED BY <1>1, <2>2, <2>3, Goes
<1> QED BY <1>3, <1>4 DEF Jitter

LEMMA SubmitKeeps ==
  ASSUME NEW U \in SUBSET Students, IInv(U), NEW s \in Students, Submit(s)
  PROVE  IInv(U)'
BY Same, Finished DEF Submit

LEMMA FailKeeps ==
  ASSUME NEW U \in SUBSET Students, IInv(U), NEW s \in Students, Fail(s)
  PROVE  IInv(U)'
<1>1. MemoryOK(U)' /\ LookStep(U, s) /\ DiskOK(U)' /\ WriteOK(U)' /\ CountOK(U)' /\ home' = home
  BY ReleaseStep, Same DEF Fail
<1>2. AccountStep(U, s)
  <2>1. home[s] \in Places
    BY DEF IInv, AccountOK
  <2> QED BY <1>1, <2>1, SaveStep, Same DEF Fail
<1> QED BY <1>1, <1>2, Finished DEF Fail
-----------------------------------------------------------------------------
(* The steps of a run: learn. *)

\* A dict that is public stays public with a building that has been measured.
LEMMA LearnKeeps ==
  ASSUME NEW U \in SUBSET Students, IInv(U), NEW s \in Students, Learn(s)
  PROVE  IInv(U)'
<1> DEFINE d == dict[s]
           learned == [objs[d] EXCEPT ![name[s]] = coord[s][1]]
           os == [objs EXCEPT ![d] = learned]
<1>1. /\ AccountStep(U, s) /\ DiskOK(U)' /\ CountOK(U)' /\ cache' = cache /\ read' = read
      /\ MemoryOK(U) /\ LookOK(U) /\ WriteOK(U)
  BY Same DEF Learn, IInv
<1>2. pc[s] = "learn" /\ d \in Objs
  BY <1>1 DEF Learn, LookOK
<1>3. name[s] \in Places /\ coord[s] \in Public(U) \X {"exact", "near"}
  BY <1>2 DEF IInv, RunOK, Placed, Private, Learning
<1>4. learned \in PublicDicts(U)
  <2>1. objs[d] \in PublicDicts(U) /\ coord[s][1] \in Public(U)
    BY <1>1, <1>2, <1>3 DEF MemoryOK
  <2> QED BY <1>3, <2>1, Entries
<1>5. os \in [Objs -> PublicDicts(U)]
  BY <1>1, <1>4 DEF MemoryOK
<1>6. /\ text' = Set(text, s, learned) /\ dict' = Set(dict, s, NoRef) /\ fd' = fd
      /\ objs' = Kept(os, {cache} \cup Range(dict'))
  BY DEF Learn
<1> HIDE DEF learned, os, d
<1>7. MemoryOK(U)'
  BY <1>1, <1>5, <1>6, KeptType DEF MemoryOK
<1>8. LookStep(U, s)
  <2>1. LookOK(U)' /\ dict'[s] = NoRef
    BY <1>1, <1>6 DEF LookOK, Set
  <2>2. \A u \in Students \ {s} : dict'[u] = dict[u] /\ read'[u] = read[u]
    BY <1>1, <1>6 DEF LookOK, Set
  <2> QED BY <2>1, <2>2 DEF LookStep, Looking
<1>9. WriteOK(U)'
  BY <1>1, <1>4, <1>6 DEF WriteOK, PublicContents, Set
<1>10. RunStep(s, "open", name[s], coord[s], ok[s])
  BY DEF Learn, RunStep, CoordBecomes, Goto, Set
<1>11. Right(U, s, "open", name[s], coord[s], ok[s])
  BY <1>2, Here DEF Right, PCs, Learning
<1> QED BY <1>1, <1>7, <1>8, <1>9, <1>10, <1>11, Goes

LEMMA OpenKeeps ==
  ASSUME NEW U \in SUBSET Students, IInv(U), NEW s \in Students, Open(s)
  PROVE  IInv(U)'
<1> DEFINE used == {file} \cup Range(fd)
           i == IF tmp = NoRef THEN CHOOSE x \in Inodes : x \notin used ELSE tmp
<1>1. /\ AccountStep(U, s) /\ MemoryOK(U)' /\ LookStep(U, s) /\ CountOK(U)'
      /\ DiskOK(U) /\ WriteOK(U) /\ pc[s] = "open" /\ NoRef \notin Inodes
  BY Same, NameAssumption DEF Open, IInv
<1>2. i \in Inodes /\ i # file
  BY <1>1, FreeInode DEF DiskOK
<1>3. /\ tmp' = i /\ fd' = Set(fd, s, i) /\ data' = [data EXCEPT ![i] = NoText]
      /\ UNCHANGED <<file, text>>
  BY DEF Open
<1> HIDE DEF i
<1>4. DiskOK(U)'
  BY <1>1, <1>2, <1>3, DictTypes DEF DiskOK
<1>5. WriteOK(U)'
  BY <1>1, <1>2, <1>3 DEF WriteOK, Set
<1>6. RunStep(s, "write", name[s], coord[s], ok[s])
  BY DEF Open, RunStep, CoordBecomes, Goto, Set
<1>7. Right(U, s, "write", name[s], coord[s], ok[s])
  BY <1>1, Here DEF Right, PCs, Learning
<1> QED BY <1>1, <1>4, <1>5, <1>6, <1>7, Goes

LEMMA WriteKeeps ==
  ASSUME NEW U \in SUBSET Students, IInv(U), NEW s \in Students, Write(s)
  PROVE  IInv(U)'
<1>1. /\ AccountStep(U, s) /\ MemoryOK(U)' /\ LookStep(U, s) /\ CountOK(U)'
      /\ DiskOK(U) /\ WriteOK(U) /\ pc[s] = "write"
  BY Same DEF Write, IInv
<1>2. PICK c \in {text[s], Torn} :
        /\ fd' = Set(fd, s, NoRef)
        /\ data' = Linked([data EXCEPT ![fd[s]] = c], {file, tmp} \cup Range(fd'))
  BY DEF Write
<1>3. text' = Set(text, s, NoText) /\ UNCHANGED <<file, tmp>>
  BY DEF Write
<1>4. c \in PublicContents(U)
  BY <1>1, DictTypes DEF WriteOK
<1>5. [data EXCEPT ![fd[s]] = c] \in [Inodes -> PublicContents(U)]
  BY <1>1, <1>4 DEF DiskOK
<1>6. DiskOK(U)'
  BY <1>1, <1>2, <1>3, <1>5, LinkedType DEF DiskOK
<1>7. WriteOK(U)'
  BY <1>1, <1>2, <1>3, DictTypes DEF WriteOK, Set
<1>8. RunStep(s, "rename", name[s], coord[s], ok[s])
  BY DEF Write, RunStep, CoordBecomes, Goto, Set
<1>9. Right(U, s, "rename", name[s], coord[s], ok[s])
  BY <1>1, Here DEF Right, PCs, Learning
<1> QED BY <1>1, <1>6, <1>7, <1>8, <1>9, Goes

LEMMA RenameKeeps ==
  ASSUME NEW U \in SUBSET Students, IInv(U), NEW s \in Students, Rename(s)
  PROVE  IInv(U)'
<1>1. /\ MemoryOK(U)' /\ LookStep(U, s) /\ WriteOK(U)' /\ CountOK(U)' /\ home' = home
      /\ DiskOK(U) /\ pc[s] = "rename" /\ home[s] \in Places
  BY Same DEF Rename, IInv, AccountOK
<1>2. CASE /\ tmp # NoRef /\ file' = tmp /\ tmp' = NoRef /\ data' = Linked(data, {tmp} \cup Range(fd))
           /\ Goto(s, "clear")
           /\ UNCHANGED <<account, name, coord, ok, runs>>
  <2>1. DiskOK(U)'
    BY <1>1, <1>2, LinkedType DEF DiskOK
  <2>2. RunStep(s, "clear", name[s], coord[s], ok[s])
    BY <1>2 DEF RunStep, CoordBecomes, Goto, Set
  <2>3. Right(U, s, "clear", name[s], coord[s], ok[s])
    BY <1>1, Here DEF Right, PCs, Learning
  <2>4. AccountStep(U, s)
    BY <1>1, <1>2, Same
  <2> QED BY <1>1, <2>1, <2>2, <2>3, <2>4, Goes
<1>3. CASE /\ tmp = NoRef /\ UNCHANGED disk /\ Finish(s)
           /\ \E n \in Told(s, NoName) : Save(s, n, NoCoord)
  <2>1. AccountStep(U, s)
    BY <1>1, <1>3, SaveStep DEF Told
  <2> QED BY <1>1, <1>3, <2>1, Same, Finished
<1> QED BY <1>2, <1>3 DEF Rename

LEMMA ClearKeeps ==
  ASSUME NEW U \in SUBSET Students, IInv(U), NEW s \in Students, Clear(s)
  PROVE  IInv(U)'
<1>1. /\ AccountStep(U, s) /\ DiskOK(U)' /\ LookStep(U, s) /\ WriteOK(U)'
      /\ MemoryOK(U) /\ CountOK(U) /\ pc[s] = "clear"
  BY Same DEF Clear, IInv
<1>2. name[s] \in Places
  BY <1>1 DEF IInv, RunOK, Placed, Learning
<1>3. MemoryOK(U)'
  BY <1>1, KeptType DEF MemoryOK, Clear
<1>4. CountOK(U)'
  BY <1>1, <1>2 DEF CountOK, Clear
<1>5. RunStep(s, "verify", name[s], coord[s], ok[s])
  BY DEF Clear, RunStep, CoordBecomes, Goto, Set
<1>6. Right(U, s, "verify", name[s], coord[s], ok[s])
  BY <1>1, Here DEF Right, PCs, Learning
<1> QED BY <1>1, <1>3, <1>4, <1>5, <1>6, Goes

LEMMA MoveKeeps ==
  ASSUME NEW U \in SUBSET Students, IInv(U), NEW s \in Students, Move(s)
  PROVE  IInv(U)'
<1>1. /\ MemoryOK(U)' /\ DiskOK(U)' /\ LookStep(U, s) /\ WriteOK(U)' /\ CountOK(U)' /\ AccountOK
  BY Same DEF Move, IInv
<1>2. AccountStep(U, s)
  <2>1. home' \in [Students -> Places] /\ UNCHANGED <<dkdz, jd>>
    BY <1>1 DEF Move, AccountOK, Set, account
  <2>2. jd[s] \in Seen(U, s) \cup {NoCoord}
    BY DEF IInv, Private
  <2> QED BY <1>1, <2>1, <2>2 DEF AccountStep, AccountOK
<1> QED BY <1>1, <1>2, Here, Goes DEF Move

\* The account and the file are what is left.
LEMMA CrashKeeps ==
  ASSUME NEW U \in SUBSET Students, IInv(U), Crash
  PROVE  IInv(U)'
<1>1. AccountOK' /\ CountOK(U)'
  BY DEF IInv, Crash, AccountOK, account, CountOK
<1>2. MemoryOK(U)' /\ DiskOK(U)'
  <2>1. objs' \in [Objs -> PublicDicts(U)] /\ data' \in [Inodes -> PublicContents(U)]
    BY KeptType, LinkedType DEF IInv, MemoryOK, DiskOK, Crash
  <2> QED BY <2>1 DEF IInv, MemoryOK, DiskOK, Crash
<1>3. LookOK(U)' /\ WriteOK(U)' /\ RunOK'
  BY DictTypes DEF Crash, LookOK, WriteOK, RunOK, PCs
<1>4. ASSUME NEW s \in Students PROVE Private(U, s)' /\ Placed(s)' /\ Looking(s)'
  <2>1. /\ pc'[s] = "idle" /\ coord'[s] = NoCoord /\ dict'[s] = NoRef
        /\ jd'[s] = jd[s]
    BY DEF Crash, account
  <2> QED BY <2>1 DEF IInv, Private, Placed, Looking, Learning
<1> QED BY <1>1, <1>2, <1>3, <1>4 DEF IInv
-----------------------------------------------------------------------------
(* The invariant. *)

LEMMA InitKeeps ==
  ASSUME NEW U \in SUBSET Students, Init
  PROVE  IInv(U)
<1>1. AccountOK /\ CountOK(U)
  BY EnoughAssumption DEF Init, AccountOK, CountOK
<1>2. MemoryOK(U) /\ DiskOK(U)
  BY DictTypes DEF Init, MemoryOK, DiskOK
<1>3. LookOK(U) /\ WriteOK(U) /\ RunOK
  BY DictTypes DEF Init, LookOK, WriteOK, RunOK, PCs
<1>4. ASSUME NEW s \in Students PROVE Private(U, s) /\ Placed(s) /\ Looking(s)
  BY DEF Init, Private, Placed, Looking, Learning
<1> QED BY <1>1, <1>2, <1>3, <1>4 DEF IInv

LEMMA NextKeeps ==
  ASSUME NEW U \in SUBSET Students, IInv(U), [Next]_vars, mistaken' \subseteq U
  PROVE  IInv(U)'
<1>1. ASSUME NEW s \in Students, Step(s) PROVE IInv(U)'
  BY <1>1, StartKeeps, HitKeeps, ReadKeeps, FillKeeps, KnownKeeps, CheckKeeps, LookupKeeps,
     ProbeKeeps, LocateKeeps, VerifyKeeps, JitterKeeps, SubmitKeeps, FailKeeps, LearnKeeps,
     OpenKeeps, WriteKeeps, RenameKeeps, ClearKeeps DEF Step
<1>2. CASE UNCHANGED vars
  <2>1. /\ AccountOK' /\ MemoryOK(U)' /\ DiskOK(U)' /\ CountOK(U)'
    BY <1>2 DEF IInv, vars, account, memory, disk, AccountOK, MemoryOK, DiskOK, CountOK
  <2>2. LookOK(U)' /\ WriteOK(U)' /\ RunOK'
    BY <1>2 DEF IInv, vars, local, LookOK, WriteOK, RunOK
  <2>3. \A s \in Students : Private(U, s)' /\ Placed(s)' /\ Looking(s)'
    BY <1>2 DEF IInv, vars, account, local, Private, Placed, Looking
  <2> QED BY <2>1, <2>2, <2>3 DEF IInv
<1> QED BY <1>1, <1>2, MoveKeeps, CrashKeeps DEF Next

\* The invariant for the addresses that have been mistaken so far.
Inv == IInv(mistaken)

\* What may be public, may be so as well when more addresses have been mistaken.
LEMMA Grows ==
  ASSUME NEW V \in SUBSET Students, NEW U \in SUBSET Students, V \subseteq U, IInv(V)
  PROVE  IInv(U)
<1>1. Public(V) \subseteq Public(U)
  BY DEF Public
<1>2. PublicDicts(V) \subseteq PublicDicts(U)
  BY <1>1 DEF PublicDicts
<1>3. PublicContents(V) \subseteq PublicContents(U)
  BY <1>2 DEF PublicContents
<1>4. MemoryOK(U) /\ DiskOK(U) /\ LookOK(U) /\ WriteOK(U) /\ CountOK(U)
  <2>1. MemoryOK(U)
    BY <1>2 DEF IInv, MemoryOK
  <2>2. DiskOK(U)
    BY <1>3 DEF IInv, DiskOK
  <2>3. LookOK(U) /\ WriteOK(U)
    BY <1>3 DEF IInv, LookOK, WriteOK
  <2>4. CountOK(U)
    BY DEF IInv, CountOK
  <2> QED BY <2>1, <2>2, <2>3, <2>4
<1>5. ASSUME NEW s \in Students PROVE Private(U, s)
  BY <1>1 DEF IInv, Private, Seen, SeenPoints
<1> QED BY <1>4, <1>5 DEF IInv

\* An address that has been mistaken stays so.
LEMMA MistakenGrows ==
  ASSUME Inv, [Next]_vars
  PROVE  mistaken \in SUBSET Students /\ mistaken' \in SUBSET Students /\ mistaken \subseteq mistaken'
<1>1. mistaken \subseteq Students
  BY DEF Inv, IInv, CountOK
<1>2. ASSUME NEW s \in Students, Step(s)
      PROVE  mistaken' = mistaken \/ mistaken' = mistaken \cup {s}
  BY <1>2 DEF Step, Start, Hit, Read, Fill, Known, Check, Lookup, Probe, Locate, Verify, Jitter,
     Submit, Fail, Learn, Open, Write, Rename, Clear
<1> QED BY <1>1, <1>2 DEF Next, Move, Crash, vars

LEMMA InvKeeps ==
  ASSUME Inv, [Next]_vars
  PROVE  Inv'
<1>1. PICK V \in SUBSET Students : V = mistaken
  BY MistakenGrows
<1>2. PICK U \in SUBSET Students : U = mistaken'
  BY MistakenGrows
<1>3. IInv(V) /\ V \subseteq U
  BY <1>1, <1>2, MistakenGrows DEF Inv
<1>4. IInv(U)
  BY <1>3, Grows
<1>5. IInv(U)'
  BY <1>2, <1>4, NextKeeps
<1> QED BY <1>2, <1>5 DEF Inv

\* What the students share is public or has been mistaken, and what a run knows else is
\* its own.
THEOREM Invariant == Spec => []Inv
<1>1. Init => Inv
  <2> SUFFICES ASSUME Init PROVE IInv(mistaken)
    BY DEF Inv
  <2>1. PICK U \in SUBSET Students : U = mistaken
    BY DEF Init
  <2>2. IInv(U)
    BY InitKeeps
  <2> QED BY <2>1, <2>2
<1>2. Inv /\ [Next]_vars => Inv'
  BY InvKeeps
<1> QED BY <1>1, <1>2, PTL DEF Spec

\* The accounts, dicts, files and runs always have their type; above all, the files
\* that learn writes are dicts, or what is left of two of them.
THEOREM TypeCorrect == Spec => []TypeOK
<1>1. ASSUME NEW U \in SUBSET Students, IInv(U) PROVE TypeOK
  <2>1. MemoryOK(U) /\ DiskOK(U) /\ LookOK(U) /\ WriteOK(U)
    BY <1>1 DEF IInv
  <2>2. AccountOK /\ RunOK /\ CountOK(U)
    BY <1>1 DEF IInv
  <2> QED BY <2>1, <2>2, DictTypes
          DEF AccountOK, MemoryOK, DiskOK, LookOK, WriteOK, RunOK, CountOK, TypeOK
<1>2. Inv => TypeOK
  BY <1>1 DEF Inv, IInv, CountOK
<1> QED BY Invariant, <1>2, PTL

\* For any students and places, whatever others learn meanwhile, a run submits the
\* very point that the school has accepted last in this run.
THEOREM Accepting == Spec => []SubmittedAccepted
<1>1. Inv => SubmittedAccepted
  BY DEF Inv, IInv, Placed, SubmittedAccepted
<1> QED BY Invariant, <1>1, PTL

\* For any students and places the file, the cache and the seed lead one student's run
\* to the address of another only after the school measured that address without naming
\* it, and it was learnt under the name of a building that the run already had.
THEOREM Privacy == Spec => []AddressPrivate
<1>1. Inv => AddressPrivate
  <2> SUFFICES ASSUME Inv, NEW s \in Students, NEW r \in Students, s # r, r \notin mistaken,
                      coord[s] \in {Own(r)} \X {"exact", "near"}
               PROVE  FALSE
    BY DEF AddressPrivate
  <2>1. coord[s] # NoCoord
    <3>1. Own(r) \in Coords
      BY DEF Coords
    <3> QED BY <3>1, NameAssumption DEF Points
  <2>2. Own(r) \in Seen(mistaken, s)
    BY <2>1 DEF Inv, IInv, Private, SeenPoints
  <2>3. \A u : Own(u).kind = "own" /\ Own(u).of = u
    BY DEF Own
  <2>4. Base.kind = "base" /\ \A h \in Houses : House(h).kind = "house"
    BY DEF Base, House
  <2> QED BY <2>2, <2>3, <2>4 DEF Seen, Public
<1> QED BY Invariant, <1>1, PTL
=============================================================================
