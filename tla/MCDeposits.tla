---------------------------- MODULE MCDeposits ----------------------------
(* Instances of Deposits for TLC. *)
EXTENDS Deposits, TLC

SymmetricDeposits == Permutations(Stays) \cup Permutations(Workers)
=============================================================================
