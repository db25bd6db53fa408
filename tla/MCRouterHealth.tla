--------------------------- MODULE MCRouterHealth ---------------------------
(* An instance of RouterHealth for TLC. *)
EXTENDS RouterHealth
CONSTANTS beat, w1
=============================================================================
