---------------------------- MODULE MCVouchers ------------------------------
(* Instances of Vouchers for TLC: one batch, and every voucher in it. *)
EXTENDS Vouchers, TLC
CONSTANTS v1, v2, b1, w1, w2
OneBatch == [v \in Vouchers |-> b1]
Symmetry == Permutations(Workers) \cup Permutations(Vouchers)
=============================================================================
