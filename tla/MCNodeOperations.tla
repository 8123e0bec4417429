-------------------------- MODULE MCNodeOperations --------------------------
(* Instances of NodeOperations for TLC. *)
EXTENDS NodeOperationsAccess, TLC

UserSymmetry == Permutations(Users)
=============================================================================
