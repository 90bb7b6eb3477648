---------------------------- MODULE MCBuildings ----------------------------
(* Instances of Buildings for TLC. *)
EXTENDS Buildings, TLC

Anyone == Permutations(Students)
=============================================================================
