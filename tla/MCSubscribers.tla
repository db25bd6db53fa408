--------------------------- MODULE MCSubscribers ----------------------------
(* Instances of Subscribers for TLC: two requests and the task. *)
EXTENDS Subscribers, TLC
CONSTANTS s1, w1, w2
Symmetry == Permutations(Workers)
=============================================================================
