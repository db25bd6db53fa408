-------------------------- MODULE MCSessionControl --------------------------
(* Instances of SessionControl for TLC. *)
EXTENDS SessionControl
CONSTANTS s1, w1, w2
=============================================================================
