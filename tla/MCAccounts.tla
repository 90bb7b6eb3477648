----------------------------- MODULE MCAccounts -----------------------------
(* An instance of Accounts for TLC. *)
EXTENDS Accounts, TLC

\* A start time that does not go with the first window, is the end of the second, and goes
\* with the third, which is over midnight.
Three == {[from |-> 1, to |-> 3], [from |-> 2, to |-> 4], [from |-> 4, to |-> 2]}
Times == {4}
Alike == Permutations(Threads) \cup Permutations(Users) \cup Permutations(Students)
=============================================================================
