------------------------------ MODULE MCNotices ------------------------------
(***************************************************************************)
(* Notices for TLC: two accounts, which compete for the one notice of each *)
(* kind that a tick takes.                                                 *)
(***************************************************************************)
EXTENDS Notices

TwoAccounts == {1, 2}
=============================================================================
