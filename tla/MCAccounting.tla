---------------------------- MODULE MCAccounting ----------------------------
(* Instances of Accounting for TLC. *)
EXTENDS Accounting
CONSTANTS s1, w1, w2
=============================================================================
