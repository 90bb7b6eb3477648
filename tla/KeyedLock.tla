------------------------------ MODULE KeyedLock ------------------------------
(***************************************************************************)
(* What callers of lock_for(key) rely on: for each key, at most one        *)
(* activation of the "with" block at a time, and a key that is given back  *)
(* can be taken by anyone.  The registry of reference-counted locks behind *)
(* that promise is module Locks, which is shown to implement this one.     *)
(***************************************************************************)
CONSTANTS Clients,   \* activations of "with lock_for(key)"
          Keys,      \* the strings that are locked, e.g. "account:7"
          NoClient   \* the owner of a key nobody holds

VARIABLE owner       \* owner[k]: the activation inside the block of key k

OwnerOK == owner \in [Keys -> Clients \cup {NoClient}]

Init == owner = [k \in Keys |-> NoClient]

\* An activation enters the block of a free key.
Take(c, k) ==
  /\ owner[k] = NoClient
  /\ owner' = [owner EXCEPT ![k] = c]

\* The activation inside the block leaves it, normally or by an exception.
Give(c, k) ==
  /\ owner[k] = c
  /\ owner' = [owner EXCEPT ![k] = NoClient]

Next == \E c \in Clients, k \in Keys : Take(c, k) \/ Give(c, k)

Spec == Init /\ [][Next]_owner
=============================================================================
