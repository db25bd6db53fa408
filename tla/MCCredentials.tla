--------------------------- MODULE MCCredentials ----------------------------
(* An instance of Credentials for TLC: two jobs at a time on two names. *)
EXTENDS Credentials
CONSTANTS a, b, blank, w1, w2

Row1(n, flaw, generate) == [name |-> n, flaw |-> flaw, generate |-> generate]
Given(n) == Row1(n, "none", FALSE)
Missing(n) == Row1(n, "none", TRUE)

\* Both orders of the names, and rows with every flaw, after and before others.
MCFiles == { <<Missing(a), Missing(b)>>, <<Given(b), Given(a)>>,
             <<Missing(a), Row1(b, "undated", FALSE)>>,
             <<Row1(a, "disabled", TRUE), Missing(b)>>,
             <<Row1(b, "unnamed", FALSE), Row1(a, "wrong", FALSE)>> }

MCRequests == {Missing(a), Given(b), Missing(blank), Row1(blank, "disabled", FALSE)}
=============================================================================
