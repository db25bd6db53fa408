-------------------------- MODULE EffectivePolicy ---------------------------
(***************************************************************************)
(* calculate_effective_policy of subscribers/policy.py (and its twin in    *)
(* vouchers/policy.py) as a function of the bytes counted in each scope.   *)
(* Download and upload speeds are treated alike: one speed stands for both.*)
(***************************************************************************)
EXTENDS Integers, Sequences

CONSTANTS
  BaseSpeed,   \* the package's speed
  Stages       \* of each scope, in the order of their thresholds; <<>> if none

Stage == [threshold : Nat, block : BOOLEAN, speed : Nat]

\* What the serializers of a package let through: positive and distinct
\* thresholds, a speed for a throttle and none for a block.
Accepted(stages) ==
  /\ stages \in Seq(Stage)
  /\ \A i \in DOMAIN stages :
       /\ stages[i].threshold > 0
       /\ stages[i].block <=> stages[i].speed = 0
       /\ \A j \in DOMAIN stages \ {i} : stages[i].threshold # stages[j].threshold

\* They come in ascending order (Meta.ordering).  A throttle may be faster than
\* the package: the two are compared only when a request sends the policies, not
\* when a later one lowers the package's speed.
ASSUME StagesAssumption ==
  \A scope \in DOMAIN Stages :
    /\ Accepted(Stages[scope])
    /\ \A i, j \in DOMAIN Stages[scope] :
         i < j => Stages[scope][i].threshold < Stages[scope][j].threshold

\* Mutant of Reached: a threshold counts as reached one byte too early.
ReachedEarly(stage, used) == used + 1 >= stage.threshold

Reached(stage, used) == used >= stage.threshold

\* The loop over the stages stops at the first one that is not reached, and
\* the last one it passed is the matched one; 0 if there is none.
Matched(scope, used) ==
  LET stages == Stages[scope] IN
  CHOOSE n \in 0 .. Len(stages) :
    /\ \A i \in 1 .. n : Reached(stages[i], used)
    /\ n = Len(stages) \/ ~Reached(stages[n + 1], used)

\* The matched stages, one of each scope that has one.
MatchedStages(usage) ==
  {Stages[scope][Matched(scope, usage[scope])] :
     scope \in {c \in DOMAIN Stages : Matched(c, usage[c]) > 0}}

Blocked(usage) == \E stage \in MatchedStages(usage) : stage.block

Speed(usage) ==
  LET speeds == {BaseSpeed} \cup {stage.speed : stage \in {m \in MatchedStages(usage) : ~m.block}}
  IN CHOOSE s \in speeds : \A other \in speeds : s <= other

-----------------------------------------------------------------------------
(* docs/phase-4 of the same: every stage whose threshold is reached counts. *)

ReachedStages(usage) ==
  UNION {{stage \in {Stages[scope][i] : i \in DOMAIN Stages[scope]} :
            usage[scope] >= stage.threshold} : scope \in DOMAIN Stages}

MostRestrictive(usage) ==
  /\ Blocked(usage) <=> \E stage \in ReachedStages(usage) : stage.block
  /\ ~Blocked(usage) =>
       \A stage \in ReachedStages(usage) : Speed(usage) <= stage.speed

\* Each stage of a scope is at least as strict as those below it.
Escalating ==
  \A scope \in DOMAIN Stages : \A i, j \in DOMAIN Stages[scope] :
    LET lower == Stages[scope][i]
        upper == Stages[scope][j]
    IN i < j => upper.block \/ (~lower.block /\ upper.speed <= lower.speed)
=============================================================================
