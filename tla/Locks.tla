-------------------------------- MODULE Locks --------------------------------
(***************************************************************************)
(* app/locks.py: the in-process registry of reference-counted locks.       *)
(*                                                                         *)
(* A client is one activation of "with lock_for(key)".  The two blocks     *)
(* under _registry are atomic and are one action each; acquiring the       *)
(* key's own lock and releasing it happen outside them, so another client  *)
(* may step in between, at every boundary.  The dict objects of the code   *)
(* ({"lock": Lock(), "users": n}) are the members of Entries; an object    *)
(* nobody refers to is garbage and its identity may be used again.         *)
(***************************************************************************)
EXTENDS Integers, FiniteSets

CONSTANTS Clients, Keys, Entries, NoClient, NoEntry

ASSUME NullsAssumption == NoClient \notin Clients /\ NoEntry \notin Entries
ASSUME FiniteAssumption == IsFiniteSet(Clients)

VARIABLES
  registry,  \* _locks: the entry filed under a key, or NoEntry
  users,     \* entry["users"]
  locked,    \* entry["lock"].locked()
  pc,        \* where a client is in lock_for
  key,       \* the argument of its current (or last) call
  entry      \* its local variable "entry"; NoEntry outside lock_for

vars == <<registry, users, locked, pc, key, entry>>

PCs == {"idle", "waiting", "critical", "leaving"}

TypeOK ==
  /\ registry \in [Keys -> Entries \cup {NoEntry}]
  /\ users \in [Entries -> 0..Cardinality(Clients)]
  /\ locked \in [Entries -> BOOLEAN]
  /\ pc \in [Clients -> PCs]
  /\ key \in [Clients -> Keys]
  /\ entry \in [Clients -> Entries \cup {NoEntry}]

Init ==
  /\ registry = [k \in Keys |-> NoEntry]
  /\ users = [e \in Entries |-> 0]
  /\ locked = [e \in Entries |-> FALSE]
  /\ pc = [c \in Clients |-> "idle"]
  /\ key \in [Clients -> Keys]
  /\ entry = [c \in Clients |-> NoEntry]
-----------------------------------------------------------------------------
\* The clients whose local variable, given by held, refers to e.
Refs(held, e) == {c \in Clients : held[c] = e}

\* setdefault found no entry: a new dict with a new, unlocked lock is filed.
RegisterNew(c, k, e) ==
  /\ pc[c] = "idle"
  /\ registry[k] = NoEntry
  /\ Refs(entry, e) = {} /\ \A j \in Keys : registry[j] # e
  /\ registry' = [registry EXCEPT ![k] = e]
  /\ users' = [users EXCEPT ![e] = 1]
  /\ locked' = [locked EXCEPT ![e] = FALSE]
  /\ pc' = [pc EXCEPT ![c] = "waiting"]
  /\ key' = [key EXCEPT ![c] = k]
  /\ entry' = [entry EXCEPT ![c] = e]

\* setdefault found the entry other clients are using.
RegisterShared(c, k) ==
  /\ pc[c] = "idle"
  /\ registry[k] # NoEntry
  /\ users' = [users EXCEPT ![registry[k]] = @ + 1]
  /\ pc' = [pc EXCEPT ![c] = "waiting"]
  /\ key' = [key EXCEPT ![c] = k]
  /\ entry' = [entry EXCEPT ![c] = registry[k]]
  /\ UNCHANGED <<registry, locked>>

\* lock.acquire() returns.
Acquire(c) ==
  /\ pc[c] = "waiting"
  /\ ~locked[entry[c]]
  /\ locked' = [locked EXCEPT ![entry[c]] = TRUE]
  /\ pc' = [pc EXCEPT ![c] = "critical"]
  /\ UNCHANGED <<registry, users, key, entry>>

\* Mutant: the body's exception path forgets to release the lock.
ReleaseForgotten(c) ==
  /\ pc[c] = "critical"
  /\ pc' = [pc EXCEPT ![c] = "leaving"]
  /\ UNCHANGED <<registry, users, locked, key, entry>>

\* The body is over, by return or by exception: lock.release().
Release(c) ==
  /\ pc[c] = "critical"
  /\ locked' = [locked EXCEPT ![entry[c]] = FALSE]
  /\ pc' = [pc EXCEPT ![c] = "leaving"]
  /\ UNCHANGED <<registry, users, key, entry>>

\* Mutant: the entry is deleted although others still wait on its lock.
DroppedEarly(c) == registry[key[c]] = entry[c]

\* Mutant: the count is compared before it is decremented.
DroppedLate(c) ==
  /\ users[entry[c]] <= 0
  /\ registry[key[c]] = entry[c]

\* The entry leaves the registry with its last user.
Dropped(c) ==
  /\ users[entry[c]] - 1 <= 0
  /\ registry[key[c]] = entry[c]

\* Mutant: the count is not decremented.
UnregisterUncounted(c) ==
  /\ pc[c] = "leaving"
  /\ registry' = IF Dropped(c) THEN [registry EXCEPT ![key[c]] = NoEntry]
                               ELSE registry
  /\ pc' = [pc EXCEPT ![c] = "idle"]
  /\ entry' = [entry EXCEPT ![c] = NoEntry]
  /\ UNCHANGED <<users, locked, key>>

\* users -= 1, and the entry is deleted when nobody uses it any more.
Unregister(c) ==
  /\ pc[c] = "leaving"
  /\ users' = [users EXCEPT ![entry[c]] = @ - 1]
  /\ registry' = IF Dropped(c) THEN [registry EXCEPT ![key[c]] = NoEntry]
                               ELSE registry
  /\ pc' = [pc EXCEPT ![c] = "idle"]
  /\ entry' = [entry EXCEPT ![c] = NoEntry]
  /\ UNCHANGED <<locked, key>>

Next ==
  \E c \in Clients :
    \/ \E k \in Keys, e \in Entries : RegisterNew(c, k, e)
    \/ \E k \in Keys : RegisterShared(c, k)
    \/ Acquire(c)
    \/ Release(c)
    \/ Unregister(c)

Spec == Init /\ [][Next]_vars

(***************************************************************************)
(* A thread that can run is run by the interpreter sooner or later, and    *)
(* the bodies of the locked blocks end (every upstream call in them has a  *)
(* timeout).  threading.Lock is not a queue: nothing promises that a given *)
(* waiter is the one who gets the lock, so there is no strong fairness,    *)
(* and no client is obliged to call lock_for.                              *)
(***************************************************************************)
Fairness ==
  \A c \in Clients : WF_vars(Acquire(c)) /\ WF_vars(Release(c)) /\ WF_vars(Unregister(c))

FairSpec == Spec /\ Fairness
-----------------------------------------------------------------------------
(* Properties. *)

\* Two activations never run the block of one key at the same time: the
\* account lock around run_checkin, resolve_verification and the account
\* mutations rests on this, whatever entries are recycled in between.
MutualExclusion ==
  \A c, d \in Clients :
    (pc[c] = "critical" /\ pc[d] = "critical" /\ key[c] = key[d]) => c = d

\* active_lock_count(): the registry lists exactly the keys somebody is
\* using, so it neither leaks an entry nor drops one under a waiter.
RegistryExact ==
  \A k \in Keys :
    (registry[k] # NoEntry) <=> (\E c \in Clients : pc[c] # "idle" /\ key[c] = k)

\* When somebody waits for a key, somebody gets into its block: no lost
\* hand-over between a release and a late registration.
KeyServed ==
  \A k \in Keys :
    (\E c \in Clients : pc[c] = "waiting" /\ key[c] = k)
      ~> (\E c \in Clients : pc[c] = "critical" /\ key[c] = k)

\* The owner of a key as its callers see it.
ownerBar ==
  [k \in Keys |->
     IF \E c \in Clients : pc[c] = "critical" /\ key[c] = k
     THEN CHOOSE c \in Clients : pc[c] = "critical" /\ key[c] = k
     ELSE NoClient]

Abstract == INSTANCE KeyedLock WITH owner <- ownerBar

\* lock_for implements one plain mutex per key.
ImplementsKeyedLock == Abstract!Spec
=============================================================================
