---------------------------- MODULE UsageLedger -----------------------------
(***************************************************************************)
(* What accounting ingestion promises to billing: every report fingerprint *)
(* is charged at most once, in one step together with its own record, and  *)
(* a report never charges more than the cumulative counter it carries.     *)
(* A fingerprint is <<session, kind, cumulative bytes, seconds>>.          *)
(***************************************************************************)
EXTENDS Integers

CONSTANT Sessions

VARIABLES
  counted,  \* the fingerprints charged so far
  charged   \* bytes charged for each session

Init ==
  /\ counted = {}
  /\ charged = [s \in Sessions |-> 0]

\* One new fingerprint, of one session, charges that session alone.
Charge(s) ==
  \E key \in counted' \ counted :
    /\ counted' = counted \cup {key}
    /\ key[1] = s
    /\ charged' = [charged EXCEPT ![s] = charged'[s]]
    /\ charged'[s] \in charged[s]..(charged[s] + key[3])

Next == \E s \in Sessions : Charge(s)

Spec == Init /\ [][Next]_<<counted, charged>>
=============================================================================
