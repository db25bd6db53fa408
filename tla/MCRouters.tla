---------------------------- MODULE MCRouters -------------------------------
(* Instances of Routers for TLC. *)
EXTENDS Routers, TLC
CONSTANTS r1, r2, w1, w2
=============================================================================
