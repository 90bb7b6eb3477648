------------------------------- MODULE MCLocks -------------------------------
(***************************************************************************)
(* Locks for TLC: clients and entries are model values, the keys are the   *)
(* account lock and the notice lock of one account, which the code takes   *)
(* one inside the other.                                                   *)
(***************************************************************************)
EXTENDS Locks

AccountKeys == {"account:1", "notice:1"}
=============================================================================
