---------------------------- MODULE MCLoginGuard ----------------------------
(***************************************************************************)
(* LoginGuard for TLC: logins of different students of one user.  The key  *)
(* u is the user's; those of the students, which no two of the logins      *)
(* share, are left out.                                                    *)
(***************************************************************************)
EXTENDS LoginGuard, TLC

CONSTANT u

AllKeys == {u}
Limits == [k \in AllKeys |-> 2]
Create == [keys |-> {u}, user |-> TRUE, cookie |-> FALSE, password |-> TRUE]
Refresh == [keys |-> {u}, user |-> FALSE, cookie |-> TRUE, password |-> TRUE]
Logins == {Create, Refresh}
Symmetry == Permutations(Threads)
=============================================================================
