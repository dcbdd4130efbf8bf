------------------------------ MODULE GroupsMC ------------------------------
(***************************************************************************)
(* Instances of Groups for TLC.                                            *)
(***************************************************************************)
EXTENDS Groups, TLC

RequestSymmetry == Permutations(Requests)
=============================================================================
