-------------------------- MODULE MCUsageCounters ---------------------------
(* Instances of UsageCounters for TLC: days of 2 hours, weeks of 6, months of *)
(* 3, 2 and 4 days, and packages with one to two policies.                   *)
EXTENDS UsageCounters, TLC
CONSTANTS w1, w2
Months == <<3, 2, 4>>
Symmetry == Permutations(Threads)

Throttle(n, s) == [threshold |-> n, block |-> FALSE, speed |-> s]
Block(n) == [threshold |-> n, block |-> TRUE, speed |-> 0]

\* Throttled, then blocked, by the day; throttled in the end, after a stage that is
\* faster than the package has become.
Tight == [c \in Scopes |-> CASE c = "daily"        -> <<Throttle(1, 4), Block(2)>>
                             [] c = "subscription" -> <<Throttle(1, 6), Throttle(2, 3)>>
                             [] OTHER              -> <<>>]
\* A block stage below a throttle stage, which the serializer accepts.
BlockThenThrottle ==
  [c \in Scopes |-> IF c = "daily" THEN <<Block(1), Throttle(2, 4)>> ELSE <<>>]
=============================================================================
