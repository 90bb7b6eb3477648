----------------------------- MODULE LocksProof -----------------------------
(***************************************************************************)
(* Proofs about Locks, for every set of keys and every finite set of       *)
(* clients: type correctness, mutual exclusion, the exactness of the       *)
(* registry and the refinement of KeyedLock.                               *)
(*                                                                         *)
(* Mutual exclusion is not inductive.  What carries it is that the clients *)
(* of a key all hold the entry filed under that key (Filed), which in turn *)
(* rests on the count being the number of those clients (Counted): the     *)
(* entry is deleted only by the last of them.                              *)
(***************************************************************************)
EXTENDS Locks, FiniteSetTheorems, TLAPS

Types ==
  /\ registry \in [Keys -> Entries \cup {NoEntry}]
  /\ users \in [Entries -> Int]
  /\ locked \in [Entries -> BOOLEAN]
  /\ pc \in [Clients -> PCs]
  /\ key \in [Clients -> Keys]
  /\ entry \in [Clients -> Entries \cup {NoEntry}]

\* A client holds a reference exactly while it is inside lock_for.
Referring == \A c \in Clients : pc[c] = "idle" <=> entry[c] = NoEntry

\* Whoever is inside lock_for holds the entry filed under its key.
Filed == \A c \in Clients : pc[c] # "idle" => registry[key[c]] = entry[c]

\* entry["users"] is the number of clients that hold the entry.
Counted == \A e \in Entries : users[e] = Cardinality(Refs(entry, e))

\* A filed entry has a user, and is filed under one key only.
Used ==
  /\ \A k \in Keys : registry[k] # NoEntry => \E c \in Clients : pc[c] # "idle" /\ key[c] = k
  /\ \A j, k \in Keys : (registry[j] = registry[k] /\ registry[k] # NoEntry) => j = k

\* The client inside the block holds the lock of its entry, alone.
Holding ==
  /\ \A c \in Clients : pc[c] = "critical" => locked[entry[c]]
  /\ \A c, d \in Clients :
       (pc[c] = "critical" /\ pc[d] = "critical" /\ entry[c] = entry[d]) => c = d

IInv == Types /\ Referring /\ Filed /\ Counted /\ Used /\ Holding
-----------------------------------------------------------------------------
Holdings == [Clients -> Entries \cup {NoEntry}]

\* The references to an entry are a finite set, no larger than the clients.
LEMMA RefsFinite ==
  ASSUME NEW held, NEW e
  PROVE  /\ IsFiniteSet(Refs(held, e))
         /\ Cardinality(Refs(held, e)) \in 0..Cardinality(Clients)
<1>1. Refs(held, e) \in SUBSET Clients
  BY DEF Refs
<1>2. IsFiniteSet(Refs(held, e)) /\ Cardinality(Refs(held, e)) <= Cardinality(Clients)
  BY <1>1, FS_Subset, FiniteAssumption
<1>3. Cardinality(Refs(held, e)) \in Nat /\ Cardinality(Clients) \in Nat
  BY <1>2, FS_CardinalityType, FiniteAssumption
<1> QED
  BY <1>2, <1>3

\* A client that takes a reference raises the count of that entry by one.
LEMMA RefsAdd ==
  ASSUME NEW held \in Holdings, NEW c \in Clients, NEW e \in Entries,
         held[c] = NoEntry
  PROVE  LET next == [held EXCEPT ![c] = e]
         IN  /\ Cardinality(Refs(next, e)) = Cardinality(Refs(held, e)) + 1
             /\ \A f \in Entries \ {e} : Refs(next, f) = Refs(held, f)
<1> DEFINE next == [held EXCEPT ![c] = e]
<1>1. c \notin Refs(held, e)
  BY NullsAssumption DEF Refs
<1>2. Refs(next, e) = Refs(held, e) \cup {c}
  BY DEF Refs, Holdings
<1>3. Cardinality(Refs(held, e) \cup {c}) = Cardinality(Refs(held, e)) + 1
  BY <1>1, RefsFinite, FS_AddElement
<1>4. \A f \in Entries \ {e} : Refs(next, f) = Refs(held, f)
  BY NullsAssumption DEF Refs, Holdings
<1> QED
  BY <1>2, <1>3, <1>4

\* A client that drops its reference lowers the count of that entry by one.
LEMMA RefsRemove ==
  ASSUME NEW held \in Holdings, NEW c \in Clients, NEW e \in Entries,
         held[c] = e
  PROVE  LET next == [held EXCEPT ![c] = NoEntry]
         IN  /\ Cardinality(Refs(next, e)) = Cardinality(Refs(held, e)) - 1
             /\ \A f \in Entries \ {e} : Refs(next, f) = Refs(held, f)
<1> DEFINE next == [held EXCEPT ![c] = NoEntry]
<1>1. c \in Refs(held, e)
  BY DEF Refs
<1>2. Refs(next, e) = Refs(held, e) \ {c}
  BY NullsAssumption DEF Refs, Holdings
<1>3. /\ IsFiniteSet(Refs(held, e) \ {c})
      /\ Cardinality(Refs(held, e) \ {c}) = Cardinality(Refs(held, e)) - 1
  BY <1>1, RefsFinite, FS_RemoveElement
<1>4. \A f \in Entries \ {e} : Refs(next, f) = Refs(held, f)
  BY NullsAssumption DEF Refs, Holdings
<1> QED
  BY <1>2, <1>3, <1>4

\* The count is one exactly when no other client refers to the entry.
LEMMA RefsLast ==
  ASSUME NEW held, NEW c \in Clients, NEW e, held[c] = e
  PROVE  Cardinality(Refs(held, e)) - 1 <= 0 <=> \A d \in Clients \ {c} : held[d] # e
<1>1. c \in Refs(held, e)
  BY DEF Refs
<1>2. /\ IsFiniteSet(Refs(held, e) \ {c})
      /\ Cardinality(Refs(held, e) \ {c}) = Cardinality(Refs(held, e)) - 1
  BY <1>1, RefsFinite, FS_RemoveElement
<1>3. Cardinality(Refs(held, e)) \in Nat /\ Cardinality(Refs(held, e) \ {c}) \in Nat
  BY <1>2, RefsFinite, FS_CardinalityType
<1>4. Cardinality(Refs(held, e)) - 1 <= 0 <=> Cardinality(Refs(held, e) \ {c}) = 0
  BY <1>2, <1>3
<1>5. Cardinality(Refs(held, e) \ {c}) = 0 <=> Refs(held, e) \ {c} = {}
  BY <1>2, FS_EmptySet
<1>6. Refs(held, e) \ {c} = {} <=> \A d \in Clients \ {c} : held[d] # e
  BY DEF Refs
<1> QED
  BY <1>4, <1>5, <1>6
-----------------------------------------------------------------------------
\* The initial state satisfies the inductive invariant.
LEMMA InitIInv == Init => IInv
<1> SUFFICES ASSUME Init PROVE IInv
  OBVIOUS
<1>1. Types /\ Referring /\ Filed /\ Used /\ Holding
  BY NullsAssumption DEF Init, Types, Referring, Filed, Used, Holding, PCs
<1>2. ASSUME NEW e \in Entries PROVE users[e] = Cardinality(Refs(entry, e))
  <2>1. Refs(entry, e) = {}
    BY NullsAssumption DEF Init, Refs
  <2> QED
    BY <2>1, FS_EmptySet DEF Init
<1> QED
  BY <1>1, <1>2 DEF IInv, Counted

\* A new entry is filed: nobody held it, so its count of one is exact.
LEMMA RegisterNewIInv ==
  ASSUME IInv, NEW c \in Clients, NEW k \in Keys, NEW e \in Entries,
         RegisterNew(c, k, e)
  PROVE  IInv'
<1> USE DEF IInv
<1>1. Types'
  BY DEF RegisterNew, Types, PCs
<1>2. entry[c] = NoEntry /\ \A d \in Clients : pc[d] # "idle" => key[d] # k
  BY NullsAssumption DEF RegisterNew, Types, Referring, Filed
<1>3. Referring'
  BY NullsAssumption DEF RegisterNew, Types, Referring
<1>4. Filed'
  BY <1>2 DEF RegisterNew, Types, Filed
<1>5. Counted'
  <2>1. Cardinality(Refs(entry, e)) = 0
    BY FS_EmptySet DEF RegisterNew
  <2>2. entry \in Holdings /\ entry' = [entry EXCEPT ![c] = e]
    BY DEF RegisterNew, Types, Holdings
  <2>3. /\ Cardinality(Refs(entry', e)) = Cardinality(Refs(entry, e)) + 1
        /\ \A f \in Entries \ {e} : Refs(entry', f) = Refs(entry, f)
    BY <1>2, <2>2, RefsAdd
  <2>4. users'[e] = Cardinality(Refs(entry', e))
    BY <2>1, <2>3 DEF RegisterNew, Types
  <2>5. ASSUME NEW f \in Entries \ {e} PROVE users'[f] = Cardinality(Refs(entry', f))
    BY <2>3 DEF RegisterNew, Counted, Types
  <2> QED
    BY <2>4, <2>5 DEF Counted
<1>6. Used'
  BY DEF RegisterNew, Types, Used
<1>7. Holding'
  BY NullsAssumption DEF RegisterNew, Types, Holding, Refs
<1> QED
  BY <1>1, <1>3, <1>4, <1>5, <1>6, <1>7

\* A client joins the users of the entry filed under its key.
LEMMA RegisterSharedIInv ==
  ASSUME IInv, NEW c \in Clients, NEW k \in Keys, RegisterShared(c, k)
  PROVE  IInv'
<1> USE DEF IInv
<1> DEFINE e == registry[k]
<1>1. e \in Entries /\ entry[c] = NoEntry
  BY DEF RegisterShared, Types, Referring
<1>2. Types'
  BY <1>1 DEF RegisterShared, Types, PCs
<1>3. Referring'
  BY <1>1, NullsAssumption DEF RegisterShared, Types, Referring
<1>4. Filed'
  BY DEF RegisterShared, Types, Filed
<1>5. Counted'
  <2>1. entry \in Holdings /\ entry' = [entry EXCEPT ![c] = e]
    BY DEF RegisterShared, Types, Holdings
  <2>2. /\ Cardinality(Refs(entry', e)) = Cardinality(Refs(entry, e)) + 1
        /\ \A f \in Entries \ {e} : Refs(entry', f) = Refs(entry, f)
    BY <1>1, <2>1, RefsAdd
  <2>3. ASSUME NEW f \in Entries PROVE users'[f] = Cardinality(Refs(entry', f))
    BY <1>1, <2>2 DEF RegisterShared, Counted, Types
  <2> QED
    BY <2>3 DEF Counted
<1>6. Used'
  BY DEF RegisterShared, Types, Used
<1>7. Holding'
  BY DEF RegisterShared, Types, Holding
<1> QED
  BY <1>2, <1>3, <1>4, <1>5, <1>6, <1>7

\* The lock is taken only when it is free, so by nobody else.
LEMMA AcquireIInv ==
  ASSUME IInv, NEW c \in Clients, Acquire(c)
  PROVE  IInv'
<1> USE DEF IInv
<1>1. entry[c] \in Entries
  BY DEF Acquire, Types, Referring
<1>2. Types'
  BY <1>1 DEF Acquire, Types, PCs
<1>3. Referring' /\ Filed' /\ Used'
  BY DEF Acquire, Types, Referring, Filed, Used
<1>4. Counted'
  BY DEF Acquire, Counted, Refs
<1>5. Holding'
  BY <1>1 DEF Acquire, Types, Holding, Referring
<1> QED
  BY <1>2, <1>3, <1>4, <1>5

\* The lock given back is held by no other client.
LEMMA ReleaseIInv ==
  ASSUME IInv, NEW c \in Clients, Release(c)
  PROVE  IInv'
<1> USE DEF IInv
<1>1. entry[c] \in Entries
  BY DEF Release, Types, Referring
<1>2. Types'
  BY <1>1 DEF Release, Types, PCs
<1>3. Referring' /\ Filed' /\ Used'
  BY DEF Release, Types, Referring, Filed, Used
<1>4. Counted'
  BY DEF Release, Counted, Refs
<1>5. Holding'
  BY <1>1 DEF Release, Types, Holding, Referring
<1> QED
  BY <1>2, <1>3, <1>4, <1>5

\* The entry is deleted exactly when its last user leaves, so no remaining
\* client loses the entry filed under its key.
LEMMA UnregisterIInv ==
  ASSUME IInv, NEW c \in Clients, Unregister(c)
  PROVE  IInv'
<1> USE DEF IInv
<1> DEFINE e == entry[c]
<1>1. e \in Entries /\ registry[key[c]] = e
  BY DEF Unregister, Types, Referring, Filed
<1>2. /\ Cardinality(Refs(entry', e)) = Cardinality(Refs(entry, e)) - 1
      /\ \A f \in Entries \ {e} : Refs(entry', f) = Refs(entry, f)
  <2>1. entry \in Holdings /\ entry' = [entry EXCEPT ![c] = NoEntry]
    BY DEF Unregister, Types, Holdings
  <2> QED
    BY <1>1, <2>1, RefsRemove
<1>3. Dropped(c) <=> \A d \in Clients \ {c} : entry[d] # e
  <2>1. Dropped(c) <=> Cardinality(Refs(entry, e)) - 1 <= 0
    BY <1>1 DEF Dropped, Counted
  <2> QED
    BY <2>1, RefsLast
<1>4. Types'
  BY <1>1 DEF Unregister, Types, PCs
<1>5. Referring'
  BY NullsAssumption DEF Unregister, Types, Referring
<1>6. Filed'
  BY <1>1, <1>3 DEF Unregister, Types, Filed, Referring
<1>7. Counted'
  <2>1. ASSUME NEW f \in Entries PROVE users'[f] = Cardinality(Refs(entry', f))
    BY <1>1, <1>2 DEF Unregister, Counted, Types
  <2> QED
    BY <2>1 DEF Counted
<1>8. Used'
  BY <1>1, <1>3 DEF Unregister, Types, Used, Filed, Referring
<1>9. Holding'
  BY NullsAssumption DEF Unregister, Types, Holding, Referring
<1> QED
  BY <1>4, <1>5, <1>6, <1>7, <1>8, <1>9

\* Every step preserves the inductive invariant.
LEMMA NextIInv == IInv /\ [Next]_vars => IInv'
<1> SUFFICES ASSUME IInv, [Next]_vars PROVE IInv'
  OBVIOUS
<1>1. CASE UNCHANGED vars
  BY <1>1 DEF vars, IInv, Types, Referring, Filed, Counted, Used, Holding, Refs
<1>2. ASSUME NEW c \in Clients, NEW k \in Keys, NEW e \in Entries,
             RegisterNew(c, k, e)
      PROVE  IInv'
  BY <1>2, RegisterNewIInv
<1>3. ASSUME NEW c \in Clients, NEW k \in Keys, RegisterShared(c, k)
      PROVE  IInv'
  BY <1>3, RegisterSharedIInv
<1>4. ASSUME NEW c \in Clients, Acquire(c) PROVE IInv'
  BY <1>4, AcquireIInv
<1>5. ASSUME NEW c \in Clients, Release(c) PROVE IInv'
  BY <1>5, ReleaseIInv
<1>6. ASSUME NEW c \in Clients, Unregister(c) PROVE IInv'
  BY <1>6, UnregisterIInv
<1> QED
  BY <1>1, <1>2, <1>3, <1>4, <1>5, <1>6 DEF Next

\* The inductive invariant holds in every reachable state.
THEOREM Invariance == Spec => []IInv
BY InitIInv, NextIInv, PTL DEF Spec

\* Type correctness: in particular no count is ever negative or exceeds the
\* number of activations, so "users <= 0" can be read as "users = 0".
THEOREM TypeCorrect == Spec => []TypeOK
<1>1. IInv => TypeOK
  <2> SUFFICES ASSUME IInv PROVE TypeOK
    OBVIOUS
  <2>1. users \in [Entries -> 0..Cardinality(Clients)]
    BY RefsFinite DEF IInv, Types, Counted
  <2> QED
    BY <2>1 DEF IInv, Types, TypeOK
<1> QED
  BY <1>1, Invariance, PTL

\* The block of a key is never run twice at a time (account lock, notice
\* lock, add lock), whichever entries the registry recycles.
THEOREM Exclusion == Spec => []MutualExclusion
<1>1. IInv => MutualExclusion
  BY DEF IInv, Filed, Holding, MutualExclusion
<1> QED
  BY <1>1, Invariance, PTL

\* active_lock_count() counts exactly the keys in use.
THEOREM Exactness == Spec => []RegistryExact
<1>1. IInv => RegistryExact
  BY NullsAssumption DEF IInv, Types, Referring, Filed, Used, RegistryExact
<1> QED
  BY <1>1, Invariance, PTL
-----------------------------------------------------------------------------
\* The owner of a key is the client inside its block, if there is one.
Owned ==
  /\ ownerBar \in [Keys -> Clients \cup {NoClient}]
  /\ \A k \in Keys, c \in Clients : ownerBar[k] = c <=> pc[c] = "critical" /\ key[c] = k

\* Mutual exclusion makes the owner well defined.
LEMMA OwnerDefined == MutualExclusion => Owned
<1> SUFFICES ASSUME MutualExclusion PROVE Owned
  OBVIOUS
<1> DEFINE inside(k) == {c \in Clients : pc[c] = "critical" /\ key[c] = k}
<1>1. ASSUME NEW k \in Keys, inside(k) = {} PROVE ownerBar[k] = NoClient
  BY <1>1 DEF ownerBar
<1>2. ASSUME NEW k \in Keys, NEW c \in inside(k) PROVE ownerBar[k] = c
  BY <1>2 DEF ownerBar, MutualExclusion
<1>3. ownerBar \in [Keys -> Clients \cup {NoClient}]
  <2>1. \A k \in Keys : ownerBar[k] \in Clients \cup {NoClient}
    BY <1>1, <1>2
  <2> QED
    BY <2>1 DEF ownerBar
<1>4. ASSUME NEW k \in Keys, NEW c \in Clients
      PROVE  ownerBar[k] = c <=> c \in inside(k)
  BY <1>1, <1>2, NullsAssumption
<1> QED
  BY <1>3, <1>4 DEF Owned

\* A step inside lock_for that changes nobody's being inside a block is a
\* stutter of the abstract lock.
LEMMA Stutter ==
  ASSUME Owned, Owned',
         \A c \in Clients, k \in Keys :
           (pc[c] = "critical" /\ key[c] = k) <=> (pc'[c] = "critical" /\ key'[c] = k)
  PROVE  ownerBar' = ownerBar
<1>1. ASSUME NEW k \in Keys PROVE ownerBar'[k] = ownerBar[k]
  <2>1. \A c \in Clients : ownerBar'[k] = c <=> ownerBar[k] = c
    BY DEF Owned
  <2>2. ownerBar[k] \in Clients \cup {NoClient} /\ ownerBar'[k] \in Clients \cup {NoClient}
    BY DEF Owned
  <2> QED
    BY <2>1, <2>2
<1> QED
  BY <1>1 DEF Owned

\* Acquiring the lock of a key takes the key.
LEMMA AcquireTakes ==
  ASSUME IInv, Owned, Owned', NEW c \in Clients, Acquire(c)
  PROVE  Abstract!Take(c, key[c])
<1>1. \A d \in Clients : pc[d] = "critical" => key[d] # key[c]
  BY DEF Acquire, IInv, Types, Filed, Holding
<1>2. key[c] \in Keys /\ key' = key
  BY DEF Acquire, IInv, Types
<1>3. ownerBar[key[c]] = NoClient
  BY <1>1, <1>2 DEF Owned
<1>4. \A d \in Clients : pc'[d] = "critical" <=> (pc[d] = "critical" \/ d = c)
  BY DEF Acquire, IInv, Types
<1>5. ASSUME NEW k \in Keys PROVE ownerBar'[k] = IF k = key[c] THEN c ELSE ownerBar[k]
  <2>1. \A d \in Clients : ownerBar'[k] = d
                              <=> (ownerBar[k] = d \/ (d = c /\ k = key[c]))
    BY <1>2, <1>4 DEF Owned
  <2>2. ownerBar[k] \in Clients \cup {NoClient} /\ ownerBar'[k] \in Clients \cup {NoClient}
    BY DEF Owned
  <2> QED
    BY <2>1, <2>2, <1>3
<1>6. ownerBar' = [ownerBar EXCEPT ![key[c]] = c]
  BY <1>5 DEF Owned
<1> QED
  BY <1>3, <1>6 DEF Abstract!Take

\* Releasing the lock of a key gives the key back.
LEMMA ReleaseGives ==
  ASSUME IInv, MutualExclusion, Owned, Owned', NEW c \in Clients, Release(c)
  PROVE  Abstract!Give(c, key[c])
<1>1. key[c] \in Keys /\ key' = key
  BY DEF Release, IInv, Types
<1>2. ownerBar[key[c]] = c
  BY <1>1 DEF Owned, Release
<1>3. \A d \in Clients : pc'[d] = "critical" <=> (pc[d] = "critical" /\ d # c)
  BY DEF Release, IInv, Types
<1>4. ASSUME NEW k \in Keys PROVE ownerBar'[k] = IF k = key[c] THEN NoClient ELSE ownerBar[k]
  <2>1. \A d \in Clients : ownerBar'[k] = d <=> (ownerBar[k] = d /\ d # c)
    BY <1>1, <1>3 DEF Owned
  <2>2. ownerBar[k] \in Clients \cup {NoClient} /\ ownerBar'[k] \in Clients \cup {NoClient}
    BY DEF Owned
  <2>3. k # key[c] => ownerBar[k] # c
    BY <1>1, <1>2 DEF Owned
  <2> QED
    BY <2>1, <2>2, <2>3, <1>2
<1>5. ownerBar' = [ownerBar EXCEPT ![key[c]] = NoClient]
  BY <1>4 DEF Owned
<1> QED
  BY <1>2, <1>5 DEF Abstract!Give

\* lock_for implements one plain mutex per key.
THEOREM Refinement == Spec => ImplementsKeyedLock
<1>1. Init => Abstract!Init
  BY DEF Init, Abstract!Init, ownerBar
<1>2. ASSUME IInv, MutualExclusion, Owned, Owned', [Next]_vars
      PROVE  [Abstract!Next]_ownerBar
  <2>1. CASE UNCHANGED vars
    BY <1>2, <2>1, Stutter DEF vars
  <2>2. ASSUME NEW c \in Clients, NEW k \in Keys, NEW e \in Entries, RegisterNew(c, k, e)
        PROVE  ownerBar' = ownerBar
    BY <1>2, <2>2, Stutter DEF RegisterNew, IInv, Types
  <2>3. ASSUME NEW c \in Clients, NEW k \in Keys, RegisterShared(c, k)
        PROVE  ownerBar' = ownerBar
    BY <1>2, <2>3, Stutter DEF RegisterShared, IInv, Types
  <2>4. ASSUME NEW c \in Clients, Acquire(c) PROVE Abstract!Next
    <3>1. key[c] \in Keys
      BY <1>2 DEF IInv, Types
    <3> QED
      BY <1>2, <2>4, <3>1, AcquireTakes DEF Abstract!Next
  <2>5. ASSUME NEW c \in Clients, Release(c) PROVE Abstract!Next
    <3>1. key[c] \in Keys
      BY <1>2 DEF IInv, Types
    <3> QED
      BY <1>2, <2>5, <3>1, ReleaseGives DEF Abstract!Next
  <2>6. ASSUME NEW c \in Clients, Unregister(c) PROVE ownerBar' = ownerBar
    BY <1>2, <2>6, Stutter DEF Unregister, IInv, Types
  <2> QED
    BY <1>2, <2>1, <2>2, <2>3, <2>4, <2>5, <2>6 DEF Next
<1> QED
  BY <1>1, <1>2, Invariance, Exclusion, OwnerDefined, PTL
     DEF Spec, ImplementsKeyedLock, Abstract!Spec
=============================================================================
