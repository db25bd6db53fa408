------------------------------ MODULE MCTenancy -----------------------------
(* Instances of Tenancy for TLC. *)
EXTENDS Tenancy, TLC
CONSTANTS t1, u1, u2, w1, w2
Lists == {{"Owner"}, {"Custom"}}
Symmetry == Permutations(Workers) \cup Permutations(Users)
=============================================================================
