--------------------------- MODULE UsageCounters ----------------------------
(***************************************************************************)
(* The usage counters of one subscription (subscribers/policy.py) or of one *)
(* voucher (vouchers/policy.py, the same but for the periods): one row per *)
(* scope, added to by record_usage_delta for accounting packets whose      *)
(* event time may lie in the past, rolled over to a new period by whoever  *)
(* touches the row first, and read by calculate_effective_policy.          *)
(*                                                                         *)
(* record_usage_delta locks the subscription and then the counter rows;    *)
(* calculate_effective_policy locks nothing, and rolls a row over by saving*)
(* the object it has read.                                                 *)
(***************************************************************************)
EXTENDS Periods, EffectivePolicy, FiniteSets

CONSTANTS
  Threads,      \* request threads
  Starts,       \* the subscription's possible started_at
  Duration,     \* expires_at - started_at
  MaxTime,      \* bound: the clock stops here
  MaxDelay,     \* bound: how late an accounting packet is ingested
  MaxRecords    \* bound: accounting deltas

ASSUME BoundsAssumption ==
  /\ MaxTime \in Nat /\ MaxDelay \in Nat /\ MaxRecords \in Nat
  /\ Starts \subseteq 0 .. MaxTime /\ Duration \in Nat \ {0}
ASSUME PackageAssumption == BaseSpeed \in Nat \ {0} /\ DOMAIN Stages = Scopes

VARIABLES
  start,      \* Subscription.started_at
  periods,    \* period_bounds of each scope and time
  now,
  counters,   \* SubscriptionUsageCounter rows, NoCounter before they exist
  recorded,   \* history: the times that deltas were charged to, in order
  locks,      \* the thread in record_usage_delta, which holds every row
  pc, at, copy   \* each thread's step, reference time and counters in memory

counter_vars == <<start, periods, now, counters, recorded, locks, pc, at, copy>>

Times == 0 .. MaxTime
Counter == [from : Times, to : Int, bytes : Nat, exists : BOOLEAN]
NoCounter == [from |-> 0, to |-> 0, bytes |-> 0, exists |-> FALSE]
NoCopy == [scope \in Scopes |-> NoCounter]

end == start + Duration
Bounds(scope, t) == periods[scope][t]

CountersInit ==
  /\ start \in Starts
  /\ \/ periods = [c \in Scopes |-> [t \in Times |-> PeriodBounds(start, end, c, t)]]
     \/ periods = [c \in Scopes |-> [t \in Times |-> VoucherPeriodBounds(start, end, c, t)]]
  /\ now = start
  /\ counters = NoCopy
  /\ recorded = <<>>
  /\ locks = {}
  /\ pc = [w \in Threads |-> "idle"]
  /\ at = [w \in Threads |-> start]
  /\ copy = [w \in Threads |-> NoCopy]

-----------------------------------------------------------------------------
Fresh(scope, t) ==
  [from |-> Bounds(scope, t)[1], to |-> Bounds(scope, t)[2], bytes |-> 0, exists |-> TRUE]

\* _usage_time: what is reported after the end is charged to the last moment.
UsageTime(t) == Least(t, end - 1)

InPeriod(counter, scope, t) == <<counter.from, counter.to>> = Bounds(scope, t)

\* Mutant of Rolled: the bytes of the old period are carried over.
RolledWithBytes(counter, scope, t) == [Fresh(scope, t) EXCEPT !.bytes = counter.bytes]

\* _counter_for: created if missing, and reset when it is of another period.
Rolled(counter, scope, t) ==
  IF counter.exists /\ InPeriod(counter, scope, t) THEN counter ELSE Fresh(scope, t)

Answer(w) ==
  /\ pc' = [pc EXCEPT ![w] = "idle"]
  /\ at' = [at EXCEPT ![w] = start]
  /\ copy' = [copy EXCEPT ![w] = NoCopy]

\* How much was recorded with an event time of T.
Recorded(T) == Cardinality({i \in DOMAIN recorded : recorded[i] \in T})

-----------------------------------------------------------------------------
(* record_usage_delta: SELECT ... FOR UPDATE on the subscription, then on   *)
(* each counter, which is rolled over in memory.                           *)

\* Mutant of LockCounters: the rows are read without FOR UPDATE.
ReadCounters(w, t) ==
  /\ pc[w] = "idle"
  /\ t \in (now - MaxDelay) .. now
  /\ Len(recorded) < MaxRecords
  /\ at' = [at EXCEPT ![w] = UsageTime(t)]
  /\ copy' = [copy EXCEPT ![w] = [c \in Scopes |-> Rolled(counters[c], c, UsageTime(t))]]
  /\ pc' = [pc EXCEPT ![w] = "add"]
  /\ UNCHANGED <<start, periods, now, counters, recorded, locks>>

LockCounters(w, t) ==
  /\ pc[w] = "idle"
  /\ locks = {}
  /\ t \in (now - MaxDelay) .. now
  /\ Len(recorded) < MaxRecords
  /\ locks' = {w}
  /\ at' = [at EXCEPT ![w] = UsageTime(t)]
  /\ copy' = [copy EXCEPT ![w] = [c \in Scopes |-> Rolled(counters[c], c, UsageTime(t))]]
  /\ pc' = [pc EXCEPT ![w] = "add"]
  /\ UNCHANGED <<start, periods, now, counters, recorded>>

AddDelta(w) ==
  /\ pc[w] = "add"
  /\ counters' = [c \in Scopes |-> [copy[w][c] EXCEPT !.bytes = @ + 1]]
  /\ recorded' = Append(recorded, at[w])
  /\ locks' = locks \ {w}
  /\ Answer(w)
  /\ UNCHANGED <<start, periods, now>>

-----------------------------------------------------------------------------
(* calculate_effective_policy, for an authorization or a policy refresh: the *)
(* policies of the package one after the other, in no fixed order.          *)

BeginEvaluate(w) ==
  /\ pc[w] = "idle"
  /\ pc' = [pc EXCEPT ![w] = "evaluate"]
  /\ at' = [at EXCEPT ![w] = now]
  /\ UNCHANGED <<start, periods, now, counters, recorded, locks, copy>>

\* A missing row is inserted, which waits for a transaction inserting it too.
CreateCounter(w, c) ==
  /\ pc[w] = "evaluate"
  /\ Stages[c] # <<>>
  /\ ~counters[c].exists
  /\ locks = {}
  /\ counters' = [counters EXCEPT ![c] = Fresh(c, at[w])]
  /\ UNCHANGED <<start, periods, now, recorded, locks, pc, at, copy>>

\* A row of the right period is used as it is; one of another period is reset
\* in memory, to be saved.
ReadCounter(w, c) ==
  /\ pc[w] = "evaluate"
  /\ Stages[c] # <<>>
  /\ counters[c].exists
  /\ IF InPeriod(counters[c], c, at[w])
       THEN UNCHANGED <<pc, copy>>
       ELSE /\ copy' = [copy EXCEPT ![w] = [NoCopy EXCEPT ![c] = Fresh(c, at[w])]]
            /\ pc' = [pc EXCEPT ![w] = "reset"]
  /\ UNCHANGED <<start, periods, now, counters, recorded, locks, at>>

\* save(): an UPDATE that waits for a transaction holding the row.
SaveReset(w) ==
  /\ pc[w] = "reset"
  /\ locks = {}
  /\ counters' = [c \in Scopes |-> IF copy[w][c].exists THEN copy[w][c] ELSE counters[c]]
  /\ copy' = [copy EXCEPT ![w] = NoCopy]
  /\ pc' = [pc EXCEPT ![w] = "evaluate"]
  /\ UNCHANGED <<start, periods, now, recorded, locks, at>>

EndEvaluate(w) ==
  /\ pc[w] = "evaluate"
  /\ Answer(w)
  /\ UNCHANGED <<start, periods, now, counters, recorded, locks>>

-----------------------------------------------------------------------------
Tick ==
  /\ now < MaxTime
  /\ now' = now + 1
  /\ UNCHANGED <<start, periods, counters, recorded, locks, pc, at, copy>>

CountersNext ==
  \/ \E w \in Threads :
       \/ \E t \in Times : LockCounters(w, t)
       \/ AddDelta(w) \/ BeginEvaluate(w) \/ SaveReset(w) \/ EndEvaluate(w)
       \/ \E c \in Scopes : CreateCounter(w, c) \/ ReadCounter(w, c)
  \/ Tick

CountersSpec == CountersInit /\ [][CountersNext]_counter_vars

-----------------------------------------------------------------------------
CountersTypeOK ==
  /\ start \in Starts
  /\ now \in Times
  /\ counters \in [Scopes -> Counter]
  /\ recorded \in Seq(Times)
  /\ locks = {w \in Threads : pc[w] = "add"}
  /\ pc \in [Threads -> {"idle", "add", "evaluate", "reset"}]
  /\ at \in [Threads -> Times]
  /\ copy \in [Threads -> [Scopes -> Counter]]

\* Nobody's quota is charged for bytes of another period, or twice: whatever
\* order packets and evaluations come in, a counter holds at most what was
\* recorded with event times of its own period.
NeverOvercounted ==
  \A c \in Scopes :
    counters[c].exists =>
      counters[c].bytes <= Recorded({t \in Times : InPeriod(counters[c], c, t)})

\* The quota of the whole subscription, the one whose end is final, is exact:
\* deltas recorded at the same time are all added and no evaluation resets it.
SubscriptionScopeExact ==
  counters["subscription"].bytes = Len(recorded)

\* Every moment of a subscription has, in each scope, the period the calendar
\* gives it, also where an anniversary falls on a day the month does not have.
PeriodIsNearest ==
  now < end =>
    \A c \in Scopes : IsPeriodOf(start, end, c, now, Bounds(c, now))

\* What an evaluation at this moment would read, and what it should.
Counted == [c \in Scopes |-> Rolled(counters[c], c, now).bytes]
Used == [c \in Scopes |-> Recorded({t \in Times : Bounds(c, t) = Bounds(c, now)})]

\* Nobody is blocked or slowed down beyond what the period's usage warrants:
\* late packets, rollovers and lost updates err on the customer's side only.
NeverTooStrict ==
  /\ Blocked(Counted) => \E stage \in ReachedStages(Used) : stage.block
  /\ Speed(Counted) < BaseSpeed =>
       \E stage \in ReachedStages(Used) : ~stage.block /\ stage.speed <= Speed(Counted)

\* docs/phase-4: the speed is the most restrictive of all reached stages, and
\* any reached block stage wins over throttling.
ReachedStagesApply == MostRestrictive(Counted)

\* It does where a later stage is never milder than an earlier one: the policy of
\* such a package is the most restrictive of what the counters hold.
EscalatingStagesApply == Escalating => ReachedStagesApply
=============================================================================
