------------------------------ MODULE Periods -------------------------------
(***************************************************************************)
(* period_bounds of subscribers/policy.py and of vouchers/policy.py: the   *)
(* usage period of each scope that a point in time falls into, clipped to  *)
(* the subscription, or to the voucher's time.                             *)
(*                                                                         *)
(* Time is an integer number of hours; the calendar repeats a table of     *)
(* month lengths; the tenant's zone is a fixed offset (no daylight saving).*)
(***************************************************************************)
EXTENDS Integers, Sequences

CONSTANTS
  DayLength,      \* hours of a day
  WeekLength,     \* hours of a week
  MonthLengths,   \* days of the months, repeated
  ZoneOffset      \* local time minus UTC

ASSUME CalendarAssumption ==
  /\ DayLength \in Nat \ {0} /\ WeekLength \in Nat \ {0} /\ ZoneOffset \in Nat
  /\ Len(MonthLengths) > 0
  /\ \A m \in DOMAIN MonthLengths : MonthLengths[m] \in Nat \ {0}

Scopes == {"daily", "weekly", "monthly", "subscription"}

Least(a, b) == IF a <= b THEN a ELSE b
Greatest(a, b) == IF a >= b THEN a ELSE b

Local(t) == t + ZoneOffset
Utc(l) == l - ZoneOffset
Day(l) == l \div DayLength
Midnight(d) == Utc(d * DayLength)

\* Months are counted through, without years.
LengthOf(k) == MonthLengths[(k % Len(MonthLengths)) + 1]
FirstDay[k \in Nat] == IF k = 0 THEN 0 ELSE FirstDay[k - 1] + LengthOf(k - 1)
MonthOf(l) == CHOOSE k \in 0 .. Day(l) : FirstDay[k] <= Day(l) /\ Day(l) < FirstDay[k + 1]

\* The same day of a later month, or its last day; the time of day is kept.
AddMonths(l, m) ==
  LET k == MonthOf(l) + m
      day == Least(Day(l) - FirstDay[MonthOf(l)], LengthOf(k) - 1)
  IN (FirstDay[k] + day) * DayLength + (l % DayLength)

\* Mutant of MonthsElapsed: the anniversary within the month is forgotten.
MonthsApart(start, at) == MonthOf(Local(at)) - MonthOf(Local(start))

MonthsElapsed(start, at) ==
  LET months == Greatest(MonthOf(Local(at)) - MonthOf(Local(start)), 0)
  IN IF AddMonths(Local(start), months) > Local(at) /\ months > 0 THEN months - 1
                                                                  ELSE months

VoucherPeriodBounds(start, end, scope, at) ==
  LET week == start + (Greatest(at - start, 0) \div WeekLength) * WeekLength
      today == Day(Local(at))
      months == MonthsElapsed(start, at)
  IN CASE scope = "subscription" -> <<start, end>>
       [] scope = "weekly" -> <<week, Least(week + WeekLength, end)>>
       [] scope = "daily" -> <<Greatest(Midnight(today), start),
                               Least(Midnight(today + 1), end)>>
       [] scope = "monthly" -> <<Greatest(Utc(AddMonths(Local(start), months)), start),
                                 Least(Utc(AddMonths(Local(start), months + 1)), end)>>

\* Before the subscription began, it is in its first period.
PeriodBounds(start, end, scope, at) ==
  VoucherPeriodBounds(start, end, scope, Greatest(at, start))

-----------------------------------------------------------------------------
(* What docs/phase-4 says of the periods: they are reset at local midnight, *)
(* every week and every calendar month after the activation.               *)

IsReset(start, scope, t) ==
  CASE scope = "daily"        -> Local(t) % DayLength = 0
    [] scope = "weekly"       -> (t - start) % WeekLength = 0
    [] scope = "monthly"      -> \E m \in 0 .. MonthOf(Local(t)) :
                                   Local(t) = AddMonths(Local(start), m)
    [] scope = "subscription" -> FALSE

\* The period of t holds t, begins and ends at a reset or with the
\* subscription, and has no reset inside.
IsPeriodOf(start, end, scope, t, period) ==
  LET from == period[1]
      to == period[2]
  IN /\ from <= t /\ t < to
     /\ from = start \/ IsReset(start, scope, from)
     /\ to = end \/ IsReset(start, scope, to)
     /\ \A u \in (from + 1) .. (to - 1) : ~IsReset(start, scope, u)
=============================================================================
