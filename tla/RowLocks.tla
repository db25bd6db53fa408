------------------------------ MODULE RowLocks ------------------------------
(***************************************************************************)
(* PostgreSQL row locks as the backend's transactions use them (external): *)
(* a lock is exclusive, is kept until the transaction ends, and a cycle of *)
(* waiting transactions is broken by aborting one of its members.          *)
(***************************************************************************)
CONSTANT Processes

VARIABLE held   \* the rows each process has locked

Holders(r) == {p \in Processes : r \in held[p]}

Free(p, r) == Holders(r) \subseteq {p}

\* wanted[p] are the rows any of which would let p go on.
Waits(p, wanted) == wanted[p] # {} /\ \A r \in wanted[p] : ~Free(p, r)

\* Each member of the cycle waits only for rows members hold, and is waited for.
Deadlocked(p, wanted) ==
  \E D \in SUBSET Processes :
    /\ p \in D
    /\ \A q \in D :
         /\ Waits(q, wanted)
         /\ \A r \in wanted[q] : Holders(r) \cap D # {}
         /\ \E o \in D \ {q} : held[q] \cap wanted[o] # {}
=============================================================================
