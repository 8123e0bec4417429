---------------------------- MODULE MCNodeUsage ----------------------------
(* Instances of NodeUsage for TLC. *)
EXTENDS NodeUsageLedger, TLC

UserSymmetry == Permutations(Users)
=============================================================================
