---------------------------- MODULE MCLoginCodes ----------------------------
(***************************************************************************)
(* LoginCodes for TLC.  The requests are alike.                            *)
(***************************************************************************)
EXTENDS LoginCodes, TLC

Symmetry == Permutations(Threads)
=============================================================================
