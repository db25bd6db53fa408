---------------------------- MODULE PolicyProofs ----------------------------
(***************************************************************************)
(* From usage to the applied rate, proved for every calendar, package,     *)
(* number of request threads and number of sessions: the periods the usage *)
(* is counted in, the policy it makes, the counters that keep it, and the  *)
(* live sessions it is applied to.                                         *)
(***************************************************************************)
EXTENDS UsageCounters, SessionControl, WellFoundedInduction, SequenceTheorems,
        FiniteSetTheorems, TLAPS

-----------------------------------------------------------------------------
(* Numbers: least elements and induction.                                  *)

\* Every nonempty set of naturals has a least element.
LEMMA Minimum ==
  ASSUME NEW S \in SUBSET Nat, S # {}
  PROVE  \E n \in S : \A k \in S : n <= k
<1> DEFINE R == OpToRel(<, Nat)
<1>1. IsWellFoundedOn(R, Nat)
  BY NatLessThanWellFounded
<1>2. PICK n \in S : \A k \in S : ~(<<k, n>> \in R)
  BY <1>1, WFMin
<1>3. \A k \in S : ~(k < n)
  BY <1>2 DEF OpToRel
<1> QED
  BY <1>3

\* Induction over the naturals, for a set rather than a predicate.
LEMMA SetInduction ==
  ASSUME NEW S, 0 \in S, \A n \in Nat : n \in S => n + 1 \in S
  PROVE  Nat \subseteq S
<1> SUFFICES ASSUME Nat \ S # {} PROVE FALSE
  OBVIOUS
<1>1. PICK n \in Nat \ S : \A k \in Nat \ S : n <= k
  BY Minimum
<1>2. n # 0 /\ n - 1 \in Nat
  BY <1>1
<1>3. n - 1 \in S
  BY <1>1, <1>2
<1>4. (n - 1) + 1 = n
  BY <1>2
<1> QED
  BY <1>1, <1>2, <1>3, <1>4

\* Every month has a day.
LEMMA LengthPositive == \A k \in Nat : LengthOf(k) \in Nat \ {0}
<1> SUFFICES ASSUME NEW k \in Nat PROVE LengthOf(k) \in Nat \ {0}
  OBVIOUS
<1> USE CalendarAssumption
<1>1. Len(MonthLengths) \in Nat \ {0}
  OBVIOUS
<1> QED
  BY <1>1 DEF LengthOf

Partial(n) ==
  {f \in [0 .. n -> Nat] : f[0] = 0 /\ \A k \in 1 .. n : f[k] = f[k - 1] + LengthOf(k - 1)}

\* The first days of finitely many months can be tabulated,
LEMMA PartialExists == \A n \in Nat : Partial(n) # {}
<1> DEFINE S == {n \in Nat : Partial(n) # {}}
<1>1. 0 \in S
  <2>1. [k \in 0 .. 0 |-> 0] \in Partial(0)
    BY DEF Partial
  <2> QED
    BY <2>1
<1>2. ASSUME NEW n \in S PROVE n + 1 \in S
  <2>1. PICK f : f \in Partial(n)
    OBVIOUS
  <2> DEFINE g == [k \in 0 .. (n + 1) |-> IF k = n + 1 THEN f[n] + LengthOf(n) ELSE f[k]]
  <2>2. g \in [0 .. (n + 1) -> Nat]
    <3>1. f \in [0 .. n -> Nat] /\ n \in Nat
      BY <2>1 DEF Partial
    <3>2. f[n] + LengthOf(n) \in Nat
      <4>1. n \in 0 .. n
        BY <3>1
      <4>2. f[n] \in Nat /\ LengthOf(n) \in Nat
        BY <3>1, <4>1, LengthPositive
      <4> QED
        BY <4>2
    <3>3. \A k \in 0 .. (n + 1) : k # n + 1 => k \in 0 .. n
      BY <3>1
    <3> QED
      BY <3>1, <3>2, <3>3
  <2>3. g \in Partial(n + 1)
    <3>1. g[0] = 0
      BY <2>1 DEF Partial
    <3>2. ASSUME NEW k \in 1 .. (n + 1) PROVE g[k] = g[k - 1] + LengthOf(k - 1)
      BY <2>1 DEF Partial
    <3> QED
      BY <2>2, <3>1, <3>2 DEF Partial
  <2> QED
    BY <2>3
<1>3. Nat \subseteq S
  <2> HIDE DEF S
  <2> QED
    BY <1>1, <1>2, SetInduction
<1> QED
  BY <1>3

\* and two such tables agree.
LEMMA PartialUnique ==
  ASSUME NEW m \in Nat, NEW n \in Nat, NEW f \in Partial(m), NEW g \in Partial(n)
  PROVE  \A k \in Nat : k <= m /\ k <= n => f[k] = g[k]
<1> DEFINE S == {k \in Nat : k <= m /\ k <= n => f[k] = g[k]}
<1>1. 0 \in S
  BY DEF Partial
<1>2. ASSUME NEW k \in Nat, k \in S PROVE k + 1 \in S
  <2> SUFFICES ASSUME k + 1 <= m, k + 1 <= n PROVE f[k + 1] = g[k + 1]
    OBVIOUS
  <2>1. f[k] = g[k]
    BY <1>2
  <2>2. k + 1 \in 1 .. m /\ k + 1 \in 1 .. n /\ (k + 1) - 1 = k
    OBVIOUS
  <2>3. f[k + 1] = f[k] + LengthOf(k) /\ g[k + 1] = g[k] + LengthOf(k)
    BY <2>2 DEF Partial
  <2> QED
    BY <2>1, <2>3
<1>3. Nat \subseteq S
  <2> HIDE DEF S
  <2> QED
    BY <1>1, <1>2, SetInduction
<1> QED
  BY <1>3

\* The recursive definition of FirstDay has a solution.
LEMMA FirstDayDef ==
  FirstDay = [k \in Nat |-> IF k = 0 THEN 0 ELSE FirstDay[k - 1] + LengthOf(k - 1)]
<1> DEFINE part == [n \in Nat |-> CHOOSE h : h \in Partial(n)]
           f == [n \in Nat |-> part[n][n]]
<1> SUFFICES f = [k \in Nat |-> IF k = 0 THEN 0 ELSE f[k - 1] + LengthOf(k - 1)]
  BY DEF FirstDay
<1>1. \A n \in Nat : part[n] \in Partial(n)
  BY PartialExists
<1> HIDE DEF part
<1>2. ASSUME NEW k \in Nat PROVE f[k] = IF k = 0 THEN 0 ELSE f[k - 1] + LengthOf(k - 1)
  <2>1. CASE k = 0
    BY <1>1, <2>1 DEF Partial
  <2>2. CASE k # 0
    <3>1. k - 1 \in Nat /\ k \in 1 .. k /\ k - 1 <= k
      BY <2>2
    <3>2. part[k] \in Partial(k) /\ part[k - 1] \in Partial(k - 1)
      BY <1>1, <3>1
    <3>3. part[k][k] = part[k][k - 1] + LengthOf(k - 1)
      BY <3>1, <3>2 DEF Partial
    <3>4. part[k][k - 1] = part[k - 1][k - 1]
      BY <3>1, <3>2, PartialUnique
    <3> QED
      BY <2>2, <3>1, <3>3, <3>4
  <2> QED
    BY <2>1, <2>2
<1> QED
  BY <1>2

-----------------------------------------------------------------------------
(* Days and months.                                                         *)

\* Division with remainder, both ways.
LEMMA Quotient ==
  ASSUME NEW D \in Nat \ {0}, NEW q \in Nat, NEW r \in 0 .. (D - 1)
  PROVE  (q * D + r) \div D = q /\ (q * D + r) % D = r
  OBVIOUS

LEMMA Division ==
  ASSUME NEW D \in Nat \ {0}, NEW n \in Nat
  PROVE  /\ n \div D \in Nat /\ n % D \in 0 .. (D - 1)
         /\ n = (n \div D) * D + (n % D)
  OBVIOUS

\* Multiples of a number are that number apart.
LEMMA Multiples ==
  ASSUME NEW D \in Nat \ {0}, NEW a \in Nat, NEW b \in Nat, a < b
  PROVE  a * D + D <= b * D
<1>1. PICK k \in Nat : b = a + 1 + k
  <2>1. b - a - 1 \in Nat /\ b = a + 1 + (b - a - 1)
    OBVIOUS
  <2> QED
    BY <2>1
<1>2. b * D = a * D + D + k * D
  BY <1>1
<1>3. k * D \in Nat
  OBVIOUS
<1> QED
  BY <1>2, <1>3

\* What FirstDay computes.
LEMMA FirstDays ==
  /\ FirstDay \in [Nat -> Nat]
  /\ FirstDay[0] = 0
  /\ \A k \in Nat : FirstDay[k + 1] = FirstDay[k] + LengthOf(k)
<1>1. \A k \in Nat : FirstDay[k + 1] = FirstDay[k] + LengthOf(k)
  <2> SUFFICES ASSUME NEW k \in Nat PROVE FirstDay[k + 1] = FirstDay[k] + LengthOf(k)
    OBVIOUS
  <2>1. k + 1 \in Nat /\ k + 1 # 0 /\ (k + 1) - 1 = k
    OBVIOUS
  <2> QED
    BY <2>1, FirstDayDef
<1>2. FirstDay[0] = 0 /\ DOMAIN FirstDay = Nat
  BY FirstDayDef
<1>3. Nat \subseteq {k \in Nat : FirstDay[k] \in Nat}
  <2> DEFINE S == {k \in Nat : FirstDay[k] \in Nat}
  <2>1. 0 \in S
    BY <1>2
  <2>2. \A k \in Nat : k \in S => k + 1 \in S
    BY <1>1, LengthPositive
  <2> HIDE DEF S
  <2>3. Nat \subseteq S
    BY <2>1, <2>2, SetInduction
  <2> QED
    BY <2>3 DEF S
<1>4. FirstDay \in [Nat -> Nat]
  <2>1. FirstDay = [k \in Nat |-> FirstDay[k]]
    BY <1>2, FirstDayDef
  <2> QED
    BY <1>3, <2>1
<1> QED
  BY <1>1, <1>2, <1>4

\* A month begins at the earliest where any month before it ends.
LEMMA FirstDayGrows ==
  ASSUME NEW j \in Nat, NEW k \in Nat, j < k
  PROVE  FirstDay[j + 1] <= FirstDay[k]
<1> DEFINE S == {n \in Nat : FirstDay[j + 1] <= FirstDay[j + 1 + n]}
<1>1. 0 \in S
  BY FirstDays
<1>2. \A n \in Nat : n \in S => n + 1 \in S
  <2> SUFFICES ASSUME NEW n \in Nat, n \in S PROVE n + 1 \in S
    OBVIOUS
  <2>1. FirstDay[(j + 1 + n) + 1] = FirstDay[j + 1 + n] + LengthOf(j + 1 + n)
    BY FirstDays
  <2>2. LengthOf(j + 1 + n) \in Nat /\ FirstDay[j + 1 + n] \in Nat /\ FirstDay[j + 1] \in Nat
    BY LengthPositive, FirstDays
  <2>3. j + 1 + (n + 1) = (j + 1 + n) + 1
    OBVIOUS
  <2> QED
    BY <2>1, <2>2, <2>3
<1>3. Nat \subseteq S
  <2> HIDE DEF S
  <2> QED
    BY <1>1, <1>2, SetInduction
<1>4. k - j - 1 \in S /\ j + 1 + (k - j - 1) = k
  <2> HIDE DEF S
  <2> QED
    BY <1>3
<1> QED
  BY <1>4

\* A month begins no earlier than its number, so that MonthOf need not look further.
LEMMA FirstDayBound == \A k \in Nat : FirstDay[k] >= k
<1> DEFINE S == {k \in Nat : FirstDay[k] >= k}
<1>1. 0 \in S
  BY FirstDays
<1>2. \A k \in Nat : k \in S => k + 1 \in S
  <2> SUFFICES ASSUME NEW k \in Nat, FirstDay[k] >= k PROVE FirstDay[k + 1] >= k + 1
    OBVIOUS
  <2>1. FirstDay[k + 1] = FirstDay[k] + LengthOf(k) /\ FirstDay[k] \in Nat
    BY FirstDays
  <2>2. LengthOf(k) \in Nat \ {0}
    BY LengthPositive
  <2> QED
    BY <2>1, <2>2
<1>3. Nat \subseteq S
  <2> HIDE DEF S
  <2> QED
    BY <1>1, <1>2, SetInduction
<1> QED
  BY <1>3

\* A day lies in one month.
InMonth(d, k) == FirstDay[k] <= d /\ d < FirstDay[k + 1]

LEMMA OneMonth ==
  ASSUME NEW d \in Nat, NEW j \in Nat, NEW k \in Nat, InMonth(d, j), InMonth(d, k)
  PROVE  j = k
<1>1. \A m \in Nat : FirstDay[m] \in Nat
  BY FirstDays
<1>2. ~(j < k)
  BY <1>1, FirstDayGrows DEF InMonth
<1>3. ~(k < j)
  BY <1>1, FirstDayGrows DEF InMonth
<1> QED
  BY <1>2, <1>3

\* Every day lies in a month.
LEMMA SomeMonth ==
  ASSUME NEW d \in Nat
  PROVE  \E k \in 0 .. d : InMonth(d, k)
<1> DEFINE T == {k \in Nat : d < FirstDay[k + 1]}
<1>1. d \in T
  BY FirstDays, FirstDayBound
<1>2. PICK k \in T : \A j \in T : k <= j
  BY <1>1, Minimum
<1>3. k <= d
  BY <1>1, <1>2
<1>4. FirstDay[k] <= d
  <2>1. CASE k = 0
    BY <2>1, FirstDays
  <2>2. CASE k # 0
    <3>1. k - 1 \in Nat /\ (k - 1) + 1 = k /\ k - 1 \notin T
      BY <1>2, <2>2
    <3> QED
      BY <3>1, FirstDays
  <2> QED
    BY <2>1, <2>2
<1> QED
  BY <1>2, <1>3, <1>4 DEF InMonth

\* The day and the time of day of a moment.
LEMMA DayType ==
  ASSUME NEW l \in Nat
  PROVE  /\ Day(l) \in Nat /\ l % DayLength \in 0 .. (DayLength - 1)
         /\ l = Day(l) * DayLength + (l % DayLength)
  BY CalendarAssumption, Division DEF Day

\* The day of a moment given by its day and time of day.
LEMMA DayOf ==
  ASSUME NEW d \in Nat, NEW r \in 0 .. (DayLength - 1)
  PROVE  Day(d * DayLength + r) = d /\ (d * DayLength + r) % DayLength = r
  BY CalendarAssumption, Quotient DEF Day

\* MonthOf is the month the day lies in.
LEMMA MonthOfDay ==
  ASSUME NEW l \in Nat
  PROVE  MonthOf(l) \in 0 .. Day(l) /\ MonthOf(l) \in Nat /\ InMonth(Day(l), MonthOf(l))
<1>1. Day(l) \in Nat
  BY DayType
<1>2. \E k \in 0 .. Day(l) : FirstDay[k] <= Day(l) /\ Day(l) < FirstDay[k + 1]
  BY <1>1, SomeMonth DEF InMonth
<1> QED
  BY <1>1, <1>2 DEF MonthOf, InMonth

\* Days and months order moments.
LEMMA EarlierDay ==
  ASSUME NEW a \in Nat, NEW b \in Nat, Day(a) < Day(b)
  PROVE  a < b
<1>1. Day(a) \in Nat /\ Day(b) \in Nat /\ DayLength \in Nat \ {0}
  BY DayType, CalendarAssumption
<1>2. Day(a) * DayLength + DayLength <= Day(b) * DayLength
  BY <1>1, Multiples
<1>3. /\ a < Day(a) * DayLength + DayLength
      /\ Day(b) * DayLength <= b
  <2>1. Day(a) * DayLength \in Nat /\ Day(b) * DayLength \in Nat
    BY <1>1
  <2>2. /\ a % DayLength \in 0 .. (DayLength - 1) /\ a = Day(a) * DayLength + (a % DayLength)
        /\ b % DayLength \in 0 .. (DayLength - 1) /\ b = Day(b) * DayLength + (b % DayLength)
    BY DayType
  <2> QED
    BY <1>1, <2>1, <2>2
<1>4. Day(a) * DayLength \in Nat /\ Day(b) * DayLength \in Nat
  BY <1>1
<1> QED
  BY <1>1, <1>2, <1>3, <1>4

LEMMA EarlierMonth ==
  ASSUME NEW a \in Nat, NEW b \in Nat, MonthOf(a) < MonthOf(b)
  PROVE  a < b
<1>1. /\ MonthOf(a) \in Nat /\ InMonth(Day(a), MonthOf(a))
      /\ MonthOf(b) \in Nat /\ InMonth(Day(b), MonthOf(b))
      /\ Day(a) \in Nat /\ Day(b) \in Nat
  BY MonthOfDay, DayType
<1>2. FirstDay[MonthOf(a) + 1] <= FirstDay[MonthOf(b)]
  BY <1>1, FirstDayGrows
<1>3. FirstDay[MonthOf(a) + 1] \in Nat /\ FirstDay[MonthOf(b)] \in Nat
  BY <1>1, FirstDays
<1>4. Day(a) < Day(b)
  BY <1>1, <1>2, <1>3 DEF InMonth
<1> QED
  BY <1>4, EarlierDay

-----------------------------------------------------------------------------
(* Anniversaries.                                                           *)

\* An anniversary lies in its month, and the first is the day itself.
LEMMA Anniversary ==
  ASSUME NEW l \in Nat, NEW m \in Nat
  PROVE  /\ AddMonths(l, m) \in Nat
         /\ MonthOf(AddMonths(l, m)) = MonthOf(l) + m
         /\ AddMonths(l, 0) = l
<1> DEFINE k == MonthOf(l) + m
           into == Day(l) - FirstDay[MonthOf(l)]
           day == Least(into, LengthOf(k) - 1)
           a == (FirstDay[k] + day) * DayLength + (l % DayLength)
<1>1. AddMonths(l, m) = a
  BY DEF AddMonths
<1>2. /\ MonthOf(l) \in Nat /\ k \in Nat /\ FirstDay[k] \in Nat
      /\ FirstDay[k + 1] = FirstDay[k] + LengthOf(k) /\ LengthOf(k) \in Nat \ {0}
  <2>1. MonthOf(l) \in Nat
    BY MonthOfDay
  <2>2. k \in Nat
    BY <2>1
  <2> HIDE DEF k
  <2> QED
    BY <2>1, <2>2, FirstDays, LengthPositive
<1>3. into \in Nat /\ day \in 0 .. (LengthOf(k) - 1)
  <2>1. FirstDay[MonthOf(l)] <= Day(l) /\ FirstDay[MonthOf(l)] \in Nat /\ Day(l) \in Nat
    BY MonthOfDay, FirstDays, DayType DEF InMonth
  <2>2. into \in Nat
    BY <2>1
  <2> QED
    BY <1>2, <2>2 DEF Least
<1>4. FirstDay[k] + day \in Nat /\ l % DayLength \in 0 .. (DayLength - 1)
  BY <1>2, <1>3, DayType
<1>5. a \in Nat /\ Day(a) = FirstDay[k] + day
  <2>1. Day(a) = FirstDay[k] + day
    BY <1>4, DayOf
  <2>2. (FirstDay[k] + day) * DayLength \in Nat
    BY <1>4, CalendarAssumption
  <2> QED
    BY <1>4, <2>1, <2>2
<1>6. MonthOf(a) = k
  <2>1. InMonth(Day(a), k)
    BY <1>2, <1>3, <1>5 DEF InMonth
  <2>2. MonthOf(a) \in Nat /\ InMonth(Day(a), MonthOf(a)) /\ Day(a) \in Nat
    BY <1>5, MonthOfDay, DayType
  <2> QED
    BY <1>2, <2>1, <2>2, OneMonth
<1>7. AddMonths(l, 0) = l
  <2>1. MonthOf(l) + 0 = MonthOf(l)
    BY <1>2
  <2>2. into < LengthOf(MonthOf(l))
    <3>1. Day(l) < FirstDay[MonthOf(l) + 1] /\ Day(l) \in Nat
      BY MonthOfDay, DayType DEF InMonth
    <3>2. /\ FirstDay[MonthOf(l) + 1] = FirstDay[MonthOf(l)] + LengthOf(MonthOf(l))
          /\ FirstDay[MonthOf(l)] \in Nat /\ LengthOf(MonthOf(l)) \in Nat
      BY <1>2, FirstDays, LengthPositive
    <3> QED
      BY <3>1, <3>2
  <2>3. Least(into, LengthOf(MonthOf(l)) - 1) = into
    BY <1>2, <1>3, <2>2, LengthPositive DEF Least
  <2>4. FirstDay[MonthOf(l)] + into = Day(l)
    BY <1>2, FirstDays, DayType
  <2> QED
    BY <2>1, <2>3, <2>4, DayType DEF AddMonths
<1> QED
  BY <1>1, <1>5, <1>6, <1>7

\* A later anniversary is later, also where both fall on the last day of a month.
LEMMA AnniversariesAscend ==
  ASSUME NEW l \in Nat, NEW m \in Nat, NEW n \in Nat, m < n
  PROVE  AddMonths(l, m) < AddMonths(l, n)
<1>1. MonthOf(l) \in Nat
  BY MonthOfDay
<1>2. AddMonths(l, m) \in Nat /\ MonthOf(AddMonths(l, m)) = MonthOf(l) + m
  BY Anniversary
<1>3. AddMonths(l, n) \in Nat /\ MonthOf(AddMonths(l, n)) = MonthOf(l) + n
  BY Anniversary
<1>4. MonthOf(AddMonths(l, m)) < MonthOf(AddMonths(l, n))
  BY <1>1, <1>2, <1>3
<1> QED
  BY <1>2, <1>3, <1>4, EarlierMonth

\* The months elapsed name the last anniversary that is not after the moment.
LEMMA Elapsed ==
  ASSUME NEW first \in Nat, NEW t \in Nat
  PROVE  /\ MonthsElapsed(first, t) \in Nat
         /\ Local(t) < AddMonths(Local(first), MonthsElapsed(first, t) + 1)
         /\ \/ AddMonths(Local(first), MonthsElapsed(first, t)) <= Local(t)
            \/ MonthsElapsed(first, t) = 0
<1> DEFINE s == Local(first)
           a == Local(t)
           apart == MonthOf(a) - MonthOf(s)
           months == Greatest(apart, 0)
<1>1. s \in Nat /\ a \in Nat
  BY CalendarAssumption DEF Local
<1>2. MonthOf(s) \in Nat /\ MonthOf(a) \in Nat
  BY <1>1, MonthOfDay
<1>3. months \in Nat /\ MonthOf(a) <= MonthOf(s) + months /\ (months > 0 => months = apart)
  BY <1>2 DEF Greatest
<1>4. a < AddMonths(s, months + 1)
  <2>1. /\ AddMonths(s, months + 1) \in Nat
        /\ MonthOf(AddMonths(s, months + 1)) = MonthOf(s) + (months + 1)
    <3>1. months + 1 \in Nat
      BY <1>3
    <3> HIDE DEF months
    <3> QED
      BY <1>1, <3>1, Anniversary
  <2>2. MonthOf(a) < MonthOf(AddMonths(s, months + 1))
    BY <1>2, <1>3, <2>1
  <2> QED
    BY <1>1, <2>1, <2>2, EarlierMonth
<1>5. CASE AddMonths(s, months) > a /\ months > 0
  <2>1. MonthsElapsed(first, t) = months - 1 /\ months - 1 \in Nat /\ (months - 1) + 1 = months
    BY <1>3, <1>5 DEF MonthsElapsed
  <2>2. AddMonths(s, months - 1) \in Nat /\ MonthOf(AddMonths(s, months - 1)) = MonthOf(s) + (months - 1)
    BY <1>1, <2>1, Anniversary
  <2>3. MonthOf(AddMonths(s, months - 1)) < MonthOf(a)
    BY <1>2, <1>3, <1>5, <2>2
  <2>4. AddMonths(s, months - 1) < a
    BY <1>1, <2>2, <2>3, EarlierMonth
  <2>5. AddMonths(s, months) \in Nat
    BY <1>1, <1>3, Anniversary
  <2> QED
    BY <1>1, <1>5, <2>1, <2>2, <2>4, <2>5
<1>6. CASE ~(AddMonths(s, months) > a /\ months > 0)
  <2>1. MonthsElapsed(first, t) = months
    BY <1>6 DEF MonthsElapsed
  <2>2. AddMonths(s, months) \in Nat
    BY <1>1, <1>3, Anniversary
  <2> QED
    BY <1>1, <1>3, <1>4, <1>6, <2>1, <2>2
<1> QED
  BY <1>5, <1>6

-----------------------------------------------------------------------------
(* The periods.                                                             *)

\* Nothing between two multiples of a divisor is one.
LEMMA NoneBetween ==
  ASSUME NEW D \in Nat \ {0}, NEW q \in Nat, NEW n \in Nat, q * D < n, n < q * D + D
  PROVE  n % D # 0
<1>1. q * D \in Nat
  OBVIOUS
<1>2. n - q * D \in 1 .. (D - 1) /\ n = q * D + (n - q * D)
  BY <1>1
<1>3. n % D = n - q * D
  <2> DEFINE r == n - q * D
  <2>1. r \in 0 .. (D - 1)
    BY <1>2
  <2>2. (q * D + r) % D = r
    <3> HIDE DEF r
    <3> QED
      BY <2>1, Quotient
  <2> QED
    BY <1>2, <2>2
<1> QED
  BY <1>2, <1>3

\* Every multiple of a divisor is one.
LEMMA MultipleIsReset ==
  ASSUME NEW D \in Nat \ {0}, NEW q \in Nat
  PROVE  (q * D) % D = 0 /\ q * D \in Nat
<1>1. (q * D + 0) % D = 0
  BY Quotient
<1>2. q * D \in Nat
  OBVIOUS
<1> QED
  BY <1>1, <1>2

\* The bounds of each scope are the period of the calendar.
LEMMA DailyPeriod ==
  ASSUME NEW first \in Nat, NEW last \in Nat, NEW t \in first .. (last - 1)
  PROVE  IsPeriodOf(first, last, "daily", t, VoucherPeriodBounds(first, last, "daily", t))
<1> DEFINE d == Day(Local(t))
           from == Greatest(Midnight(d), first)
           to == Least(Midnight(d + 1), last)
<1>1. VoucherPeriodBounds(first, last, "daily", t) = <<from, to>>
  BY DEF VoucherPeriodBounds
<1>2. DayLength \in Nat \ {0} /\ ZoneOffset \in Nat /\ t \in Nat
  BY CalendarAssumption
<1>3. Local(t) = t + ZoneOffset /\ Local(t) \in Nat
  BY <1>2 DEF Local
<1>4. d \in Nat /\ d + 1 \in Nat
  BY <1>3, DayType
<1>5. d * DayLength \in Nat /\ (d + 1) * DayLength = d * DayLength + DayLength
  BY <1>2, <1>4
<1>6. d * DayLength <= Local(t) /\ Local(t) < d * DayLength + DayLength
  <2>1. Local(t) % DayLength \in 0 .. (DayLength - 1) /\ Local(t) = d * DayLength + (Local(t) % DayLength)
    BY <1>3, DayType
  <2> HIDE DEF d
  <2> QED
    BY <1>2, <1>5, <2>1
<1> HIDE DEF d
<1>7. /\ Midnight(d) = d * DayLength - ZoneOffset
      /\ Midnight(d + 1) = d * DayLength + DayLength - ZoneOffset
  BY <1>2, <1>4, <1>5 DEF Midnight, Utc
<1>8. from <= t /\ t < to
  BY <1>2, <1>3, <1>5, <1>6, <1>7 DEF Greatest, Least
<1>9. from = first \/ IsReset(first, "daily", from)
  <2>1. CASE from = Midnight(d)
    <3>1. Local(from) = d * DayLength
      BY <1>2, <1>5, <1>7, <2>1 DEF Local
    <3> QED
      BY <1>2, <1>4, <3>1, MultipleIsReset DEF IsReset
  <2> QED
    BY <2>1 DEF Greatest
<1>10. to = last \/ IsReset(first, "daily", to)
  <2>1. CASE to = Midnight(d + 1)
    <3>1. Local(to) = (d + 1) * DayLength
      BY <1>2, <1>5, <1>7, <2>1 DEF Local
    <3> QED
      BY <1>2, <1>4, <3>1, MultipleIsReset DEF IsReset
  <2> QED
    BY <2>1 DEF Least
<1>11. ASSUME NEW u \in (from + 1) .. (to - 1) PROVE ~IsReset(first, "daily", u)
  <2>1. from \in Int /\ to \in Int /\ Midnight(d) <= from /\ first <= from /\ to <= Midnight(d + 1)
    BY <1>2, <1>5, <1>7 DEF Greatest, Least
  <2>2. u \in Nat /\ Midnight(d) < u /\ u < Midnight(d + 1)
    BY <1>2, <1>5, <1>7, <2>1
  <2>3. Local(u) \in Nat /\ d * DayLength < Local(u) /\ Local(u) < d * DayLength + DayLength
    BY <1>2, <1>5, <1>7, <2>2 DEF Local
  <2> QED
    BY <1>2, <1>4, <2>3, NoneBetween DEF IsReset
<1> QED
  BY <1>1, <1>8, <1>9, <1>10, <1>11 DEF IsPeriodOf

LEMMA WeeklyPeriod ==
  ASSUME NEW first \in Nat, NEW last \in Nat, NEW t \in first .. (last - 1)
  PROVE  IsPeriodOf(first, last, "weekly", t, VoucherPeriodBounds(first, last, "weekly", t))
<1> DEFINE q == Greatest(t - first, 0) \div WeekLength
           from == first + q * WeekLength
           to == Least(from + WeekLength, last)
<1>1. VoucherPeriodBounds(first, last, "weekly", t) = <<from, to>>
  BY DEF VoucherPeriodBounds
<1>2. WeekLength \in Nat \ {0} /\ t - first \in Nat /\ Greatest(t - first, 0) = t - first
  BY CalendarAssumption DEF Greatest
<1>3. /\ q \in Nat /\ (t - first) % WeekLength \in 0 .. (WeekLength - 1)
      /\ t - first = q * WeekLength + ((t - first) % WeekLength)
  BY <1>2, Division
<1> HIDE DEF q
<1>4. q * WeekLength \in Nat /\ (q + 1) * WeekLength = q * WeekLength + WeekLength /\ q + 1 \in Nat
  BY <1>2, <1>3
<1>5. q * WeekLength <= t - first /\ t - first < q * WeekLength + WeekLength
  BY <1>2, <1>3, <1>4
<1>6. from <= t /\ t < to
  BY <1>2, <1>4, <1>5 DEF Least
<1>7. IsReset(first, "weekly", from)
  <2>1. from - first = q * WeekLength
    BY <1>4
  <2> QED
    BY <1>2, <1>3, <2>1, MultipleIsReset DEF IsReset
<1>8. to = last \/ IsReset(first, "weekly", to)
  <2>1. CASE to = from + WeekLength
    <3>1. to - first = (q + 1) * WeekLength
      BY <1>2, <1>4, <2>1
    <3> QED
      BY <1>2, <1>4, <3>1, MultipleIsReset DEF IsReset
  <2> QED
    BY <2>1 DEF Least
<1>9. ASSUME NEW u \in (from + 1) .. (to - 1) PROVE ~IsReset(first, "weekly", u)
  <2>1. from \in Int /\ to \in Int /\ to <= from + WeekLength
    BY <1>2, <1>4 DEF Least
  <2>2. /\ u - first \in Nat /\ q * WeekLength < u - first
        /\ u - first < q * WeekLength + WeekLength
    BY <1>2, <1>4, <2>1
  <2> QED
    BY <1>2, <1>3, <2>2, NoneBetween DEF IsReset
<1> QED
  BY <1>1, <1>6, <1>7, <1>8, <1>9 DEF IsPeriodOf

LEMMA MonthlyPeriod ==
  ASSUME NEW first \in Nat, NEW last \in Nat, NEW t \in first .. (last - 1)
  PROVE  IsPeriodOf(first, last, "monthly", t, VoucherPeriodBounds(first, last, "monthly", t))
<1> DEFINE s == Local(first)
           e == MonthsElapsed(first, t)
           from == Greatest(Utc(AddMonths(s, e)), first)
           to == Least(Utc(AddMonths(s, e + 1)), last)
<1>1. VoucherPeriodBounds(first, last, "monthly", t) = <<from, to>>
  BY DEF VoucherPeriodBounds
<1>2. ZoneOffset \in Nat /\ t \in Nat /\ s \in Nat /\ s = first + ZoneOffset /\ first <= t
  BY CalendarAssumption DEF Local
<1>3. /\ e \in Nat /\ e + 1 \in Nat /\ Local(t) < AddMonths(s, e + 1)
      /\ AddMonths(s, e) <= Local(t) \/ e = 0
  <2>1. /\ e \in Nat /\ Local(t) < AddMonths(s, e + 1)
        /\ AddMonths(s, e) <= Local(t) \/ e = 0
    BY ONLY Elapsed, <1>2
  <2> QED
    BY <2>1
<1> HIDE DEF s, e
<1>4. AddMonths(s, e) \in Nat /\ AddMonths(s, e + 1) \in Nat /\ AddMonths(s, 0) = s
  BY <1>2, <1>3, Anniversary
<1>5. AddMonths(s, e) <= Local(t)
  BY <1>2, <1>3, <1>4 DEF Local
<1>6. Local(t) = t + ZoneOffset
  BY DEF Local
<1>7. from <= t /\ t < to
  BY <1>2, <1>3, <1>4, <1>5, <1>6 DEF Greatest, Least, Utc
<1>8. ASSUME NEW m \in Nat, NEW u \in Nat, u = Utc(AddMonths(s, m))
      PROVE  IsReset(first, "monthly", u)
  <2>1. AddMonths(s, m) \in Nat /\ MonthOf(AddMonths(s, m)) = MonthOf(s) + m /\ MonthOf(s) \in Nat
    BY <1>2, Anniversary, MonthOfDay
  <2>2. Local(u) = AddMonths(s, m)
    BY <1>2, <1>8, <2>1 DEF Local, Utc
  <2>3. m \in 0 .. MonthOf(Local(u))
    BY <2>1, <2>2
  <2> QED
    BY <2>2, <2>3 DEF IsReset, s
<1>9. from = first \/ IsReset(first, "monthly", from)
  <2>1. CASE from = Utc(AddMonths(s, e)) /\ from \in Nat
    BY <1>3, <1>8, <2>1
  <2> QED
    BY <1>2, <1>4, <2>1 DEF Greatest, Utc
<1>10. to = last \/ IsReset(first, "monthly", to)
  <2>1. CASE to = Utc(AddMonths(s, e + 1)) /\ to \in Nat
    BY <1>3, <1>8, <2>1
  <2>2. to \in Nat
    BY <1>2, <1>3, <1>4, <1>6 DEF Least, Utc
  <2> QED
    BY <2>1, <2>2 DEF Least
<1>11. ASSUME NEW u \in (from + 1) .. (to - 1) PROVE ~IsReset(first, "monthly", u)
  <2>1. /\ from \in Int /\ to \in Int /\ first <= from
        /\ AddMonths(s, e) - ZoneOffset <= from /\ to <= AddMonths(s, e + 1) - ZoneOffset
    BY <1>2, <1>4 DEF Greatest, Least, Utc
  <2>2. u \in Nat /\ Local(u) \in Nat /\ AddMonths(s, e) < Local(u) /\ Local(u) < AddMonths(s, e + 1)
    BY <1>2, <1>4, <2>1 DEF Local
  <2>3. MonthOf(Local(u)) \in Nat
    BY <2>2, MonthOfDay
  <2> SUFFICES ASSUME NEW m \in 0 .. MonthOf(Local(u)), Local(u) = AddMonths(s, m) PROVE FALSE
    BY DEF IsReset, s
  <2>4. m \in Nat
    BY <2>3
  <2>5. m <= e \/ e + 1 <= m
    BY <1>3, <2>4
  <2>6. CASE m <= e
    <3>1. m = e \/ AddMonths(s, m) < AddMonths(s, e)
      BY <1>2, <1>3, <2>4, <2>6, AnniversariesAscend
    <3> QED
      BY <1>4, <2>2, <3>1
  <2>7. CASE e + 1 <= m
    <3>1. m = e + 1 \/ AddMonths(s, e + 1) < AddMonths(s, m)
      BY <1>2, <1>3, <2>4, <2>7, AnniversariesAscend
    <3> QED
      BY <1>4, <2>2, <3>1
  <2> QED
    BY <2>5, <2>6, <2>7
<1> QED
  BY <1>1, <1>7, <1>9, <1>10, <1>11 DEF IsPeriodOf

\* Both period_bounds give each moment of a subscription the period the calendar
\* gives it, for any calendar, zone and anniversary.
THEOREM PeriodsAreRight ==
  ASSUME NEW first \in Nat, NEW last \in Nat, NEW t \in first .. (last - 1), NEW scope \in Scopes
  PROVE  /\ IsPeriodOf(first, last, scope, t, VoucherPeriodBounds(first, last, scope, t))
         /\ IsPeriodOf(first, last, scope, t, PeriodBounds(first, last, scope, t))
<1>1. VoucherPeriodBounds(first, last, "subscription", t) = <<first, last>>
  BY DEF VoucherPeriodBounds
<1>2. IsPeriodOf(first, last, "subscription", t, VoucherPeriodBounds(first, last, "subscription", t))
  BY <1>1 DEF IsPeriodOf, IsReset
<1>3. Greatest(t, first) = t
  BY DEF Greatest
<1> QED
  BY <1>2, <1>3, DailyPeriod, WeeklyPeriod, MonthlyPeriod DEF Scopes, PeriodBounds

-----------------------------------------------------------------------------
(* The policy, as a function of what is counted.                            *)

Usage == [Scopes -> Nat]

\* The stages of a scope are those a package serializer accepts, in ascending order.
LEMMA StageTypes ==
  ASSUME NEW scope \in Scopes
  PROVE  /\ Stages[scope] \in Seq(Stage)
         /\ \A i \in DOMAIN Stages[scope] :
              /\ Stages[scope][i].threshold \in Nat /\ Stages[scope][i].speed \in Nat
              /\ Stages[scope][i].block \in BOOLEAN
         /\ \A i, j \in DOMAIN Stages[scope] :
              i < j => Stages[scope][i].threshold < Stages[scope][j].threshold
         /\ Len(Stages[scope]) \in Nat /\ DOMAIN Stages[scope] = 1 .. Len(Stages[scope])
<1>1. Accepted(Stages[scope])
  BY StagesAssumption, PackageAssumption
<1>2. Stages[scope] \in Seq(Stage)
  BY <1>1 DEF Accepted
<1>3. Len(Stages[scope]) \in Nat /\ DOMAIN Stages[scope] = 1 .. Len(Stages[scope])
  BY <1>2
<1>4. \A i \in DOMAIN Stages[scope] : Stages[scope][i] \in Stage
  BY <1>2
<1> QED
  BY <1>2, <1>3, <1>4, StagesAssumption, PackageAssumption DEF Stage

\* The loop passes exactly the stages up to the matched one, which are reached.
LEMMA MatchedStage ==
  ASSUME NEW scope \in Scopes, NEW used \in Nat
  PROVE  /\ Matched(scope, used) \in 0 .. Len(Stages[scope])
         /\ \A i \in 1 .. Len(Stages[scope]) :
              used >= Stages[scope][i].threshold <=> i <= Matched(scope, used)
<1> DEFINE stages == Stages[scope]
           Stop(n) == n = Len(stages) \/ ~Reached(stages[n + 1], used)
           T == {n \in 0 .. Len(stages) : Stop(n)}
           matched == Matched(scope, used)
<1>1. /\ Len(stages) \in Nat
      /\ \A i \in 1 .. Len(stages) : stages[i].threshold \in Nat
      /\ \A i, j \in 1 .. Len(stages) : i < j => stages[i].threshold < stages[j].threshold
  BY StageTypes
<1> HIDE DEF stages
<1>2. \E n \in T : \A k \in T : n <= k
  <2>1. T \in SUBSET Nat /\ Len(stages) \in T
    BY <1>1
  <2> QED
    BY <2>1, Minimum
<1>3. \E n \in 0 .. Len(stages) : (\A i \in 1 .. n : Reached(stages[i], used)) /\ Stop(n)
  <2>1. PICK n \in T : \A k \in T : n <= k
    BY <1>2
  <2>2. ASSUME NEW i \in 1 .. n PROVE Reached(stages[i], used)
    <3>1. n \in 0 .. Len(stages)
      BY <2>1
    <3>2. i - 1 \in 0 .. Len(stages) /\ ~(n <= i - 1) /\ (i - 1) + 1 = i
      BY <1>1, <3>1
    <3>3. i - 1 \notin T
      BY <2>1, <3>2
    <3> QED
      BY <3>2, <3>3
  <2> QED
    BY <2>1, <2>2
<1>4. /\ matched \in 0 .. Len(stages)
      /\ \A i \in 1 .. matched : Reached(stages[i], used)
      /\ Stop(matched)
  BY <1>3 DEF Matched, stages
<1> HIDE DEF matched
<1>5. ASSUME NEW i \in 1 .. Len(stages), used >= stages[i].threshold PROVE i <= matched
  <2> SUFFICES ASSUME matched < i PROVE FALSE
    BY <1>1, <1>4
  <2>1. matched + 1 \in 1 .. Len(stages) /\ matched + 1 <= i /\ ~Reached(stages[matched + 1], used)
    BY <1>1, <1>4
  <2>2. stages[matched + 1].threshold <= stages[i].threshold
    BY <1>1, <2>1
  <2> QED
    BY <1>1, <1>5, <2>1, <2>2 DEF Reached
<1>6. ASSUME NEW i \in 1 .. Len(stages), i <= matched PROVE used >= stages[i].threshold
  BY <1>1, <1>4, <1>6 DEF Reached
<1> QED
  BY <1>4, <1>5, <1>6 DEF stages, matched

\* A matched stage is one whose threshold is reached, now or with more usage.
LEMMA MatchedIsReached ==
  ASSUME NEW usage \in Usage, NEW more \in Usage, \A c \in Scopes : usage[c] <= more[c]
  PROVE  MatchedStages(usage) \subseteq ReachedStages(more)
<1> SUFFICES ASSUME NEW scope \in Scopes, Matched(scope, usage[scope]) > 0
             PROVE  Stages[scope][Matched(scope, usage[scope])] \in ReachedStages(more)
  BY PackageAssumption DEF MatchedStages
<1> DEFINE n == Matched(scope, usage[scope])
<1>1. usage[scope] \in Nat /\ more[scope] \in Nat /\ usage[scope] <= more[scope]
  BY DEF Usage
<1>2. n \in 1 .. Len(Stages[scope]) /\ usage[scope] >= Stages[scope][n].threshold
  <2>1. /\ n \in 0 .. Len(Stages[scope])
        /\ \A i \in 1 .. Len(Stages[scope]) : usage[scope] >= Stages[scope][i].threshold <=> i <= n
    BY <1>1, MatchedStage
  <2>2. Len(Stages[scope]) \in Nat /\ n > 0
    BY StageTypes
  <2> HIDE DEF n
  <2> QED
    BY <2>1, <2>2
<1>3. n \in DOMAIN Stages[scope] /\ Stages[scope][n].threshold \in Nat
  BY <1>2, StageTypes
<1>4. more[scope] >= Stages[scope][n].threshold
  BY <1>1, <1>2, <1>3
<1> QED
  BY <1>3, <1>4, PackageAssumption DEF ReachedStages

\* A matched stage is a stage.
LEMMA MatchedStageTypes ==
  ASSUME NEW usage \in Usage
  PROVE  \A stage \in MatchedStages(usage) : stage.block \in BOOLEAN /\ stage.speed \in Nat
<1> SUFFICES ASSUME NEW scope \in Scopes, Matched(scope, usage[scope]) > 0
             PROVE  LET stage == Stages[scope][Matched(scope, usage[scope])]
                    IN  stage.block \in BOOLEAN /\ stage.speed \in Nat
  BY PackageAssumption DEF MatchedStages
<1>1. usage[scope] \in Nat
  BY DEF Usage
<1>2. Matched(scope, usage[scope]) \in DOMAIN Stages[scope]
  BY <1>1, MatchedStage, StageTypes
<1> QED
  BY <1>2, StageTypes

\* The speed is the least of the package's and the matched throttles'.
LEMMA LeastSpeed ==
  ASSUME NEW usage \in Usage
  PROVE  /\ \/ Speed(usage) = BaseSpeed
            \/ \E stage \in MatchedStages(usage) : ~stage.block /\ Speed(usage) = stage.speed
         /\ \A stage \in MatchedStages(usage) : ~stage.block => Speed(usage) <= stage.speed
         /\ Speed(usage) \in Nat
<1> DEFINE speeds == {BaseSpeed} \cup
                       {stage.speed : stage \in {m \in MatchedStages(usage) : ~m.block}}
<1>1. speeds \in SUBSET Nat /\ speeds # {}
  BY PackageAssumption, MatchedStageTypes
<1>2. \E s \in speeds : \A other \in speeds : s <= other
  <2> HIDE DEF speeds
  <2> QED
    BY <1>1, Minimum
<1>3. Speed(usage) \in speeds /\ \A other \in speeds : Speed(usage) <= other
  BY <1>2 DEF Speed
<1> QED
  BY <1>1, <1>3

\* For packages whose later stages are the stricter ones, the matched stages are
\* as restrictive as all the reached ones together.
THEOREM EscalationIsRestrictive ==
  ASSUME Escalating, NEW usage \in Usage
  PROVE  MostRestrictive(usage)
<1>1. ASSUME NEW stage \in ReachedStages(usage)
      PROVE  \E m \in MatchedStages(usage) : m.block \/ (~stage.block /\ m.speed <= stage.speed)
  <2>0. PICK scope \in Scopes : \E i \in DOMAIN Stages[scope] :
          stage = Stages[scope][i] /\ usage[scope] >= stage.threshold
    BY <1>1, PackageAssumption DEF ReachedStages
  <2>1. PICK i \in DOMAIN Stages[scope] :
          stage = Stages[scope][i] /\ usage[scope] >= stage.threshold
    BY <2>0
  <2> DEFINE n == Matched(scope, usage[scope])
  <2>2. usage[scope] \in Nat
    BY DEF Usage
  <2>3. i <= n /\ n \in DOMAIN Stages[scope] /\ i \in Nat /\ n \in Nat
    <3>1. /\ n \in 0 .. Len(Stages[scope])
          /\ \A j \in 1 .. Len(Stages[scope]) : usage[scope] >= Stages[scope][j].threshold <=> j <= n
      BY <2>2, MatchedStage
    <3>2. Len(Stages[scope]) \in Nat /\ DOMAIN Stages[scope] = 1 .. Len(Stages[scope])
      BY StageTypes
    <3> HIDE DEF n
    <3> QED
      BY <2>1, <3>1, <3>2
  <2>4. Stages[scope][n] \in MatchedStages(usage)
    BY <2>3, StageTypes, PackageAssumption DEF MatchedStages
  <2>5. CASE i = n
    BY <2>1, <2>3, <2>4, <2>5, StageTypes
  <2>6. CASE i < n
    BY <2>1, <2>3, <2>4, <2>6, PackageAssumption DEF Escalating
  <2> QED
    BY <2>3, <2>5, <2>6
<1>2. MatchedStages(usage) \subseteq ReachedStages(usage)
  BY MatchedIsReached DEF Usage
<1>3. Blocked(usage) <=> \E stage \in ReachedStages(usage) : stage.block
  BY <1>1, <1>2 DEF Blocked
<1>4. ASSUME ~Blocked(usage), NEW stage \in ReachedStages(usage)
      PROVE  Speed(usage) <= stage.speed
  <2>1. PICK m \in MatchedStages(usage) : ~m.block /\ m.speed <= stage.speed
    BY <1>1, <1>4 DEF Blocked
  <2>2. Speed(usage) <= m.speed /\ m.speed \in Nat /\ Speed(usage) \in Nat
    BY <2>1, LeastSpeed, MatchedStageTypes
  <2>3. stage.speed \in Nat
    BY <1>4, PackageAssumption, StageTypes DEF ReachedStages
  <2> QED
    BY <2>1, <2>2, <2>3
<1> QED
  BY <1>3, <1>4 DEF MostRestrictive

-----------------------------------------------------------------------------
(* The inductive invariant of the counters.                                 *)

\* The table of period bounds is one of the two of the code.
CalendarPeriods ==
  \/ periods = [c \in Scopes |-> [t \in Times |-> PeriodBounds(start, end, c, t)]]
  \/ periods = [c \in Scopes |-> [t \in Times |-> VoucherPeriodBounds(start, end, c, t)]]

\* A delta being added is the only one, and is added to the counters as they are.
Adding ==
  \A w \in Threads : pc[w] = "add" =>
    /\ locks = {w}
    /\ copy[w] = [c \in Scopes |-> Rolled(counters[c], c, at[w])]

\* A reset sets a counter to zero, and never that of the whole subscription.
Resetting ==
  \A w \in Threads : pc[w] = "reset" =>
    /\ ~copy[w]["subscription"].exists
    /\ \A c \in Scopes : copy[w][c].exists => copy[w][c].bytes = 0

\* As long as a counter does not exist, nothing was recorded.
NoneYet ==
  \A c \in Scopes : ~counters[c].exists => recorded = <<>> /\ counters[c] = NoCounter

SubscriptionPeriod ==
  LET counter == counters["subscription"]
  IN counter.exists => counter.from = start /\ counter.to = end

CountersInv ==
  /\ CountersTypeOK
  /\ start <= now
  /\ CalendarPeriods
  /\ Adding
  /\ Resetting
  /\ NoneYet
  /\ SubscriptionPeriod
  /\ NeverOvercounted
  /\ SubscriptionScopeExact

-----------------------------------------------------------------------------
(* How much of a history lies in a period.                                  *)

Occurrences(q, T) == Cardinality({i \in DOMAIN q : q[i] \in T})

\* Occurrences are counted,
LEMMA OccurrencesType ==
  ASSUME NEW q \in Seq(Times), NEW T
  PROVE  Occurrences(q, T) \in Nat
<1>1. DOMAIN q = 1 .. Len(q) /\ Len(q) \in Nat
  BY LenProperties
<1>2. IsFiniteSet(1 .. Len(q))
  BY <1>1, FS_Interval
<1>3. {i \in DOMAIN q : q[i] \in T} \in SUBSET (1 .. Len(q))
  BY <1>1
<1> QED
  BY <1>2, <1>3, FS_Subset, FS_CardinalityType DEF Occurrences

\* and appending a time of the period adds one.
LEMMA OccurrencesAppend ==
  ASSUME NEW q \in Seq(Times), NEW t \in Times, NEW T
  PROVE  Occurrences(Append(q, t), T) = Occurrences(q, T) + (IF t \in T THEN 1 ELSE 0)
<1> DEFINE n == Len(q)
           before == {i \in DOMAIN q : q[i] \in T}
           after == {i \in DOMAIN Append(q, t) : Append(q, t)[i] \in T}
<1>1. DOMAIN q = 1 .. n /\ n \in Nat
  BY LenProperties
<1>2. /\ DOMAIN Append(q, t) = 1 .. (n + 1)
      /\ \A i \in 1 .. n : Append(q, t)[i] = q[i]
      /\ Append(q, t)[n + 1] = t
  BY AppendProperties, LenProperties
<1>3. IsFiniteSet(before) /\ n + 1 \notin before /\ Cardinality(before) \in Nat
  <2>1. before \in SUBSET (1 .. n) /\ IsFiniteSet(1 .. n)
    BY <1>1, FS_Interval
  <2> QED
    BY <1>1, <2>1, FS_Subset, FS_CardinalityType
<1>4. after = IF t \in T THEN before \cup {n + 1} ELSE before
  BY <1>1, <1>2
<1>5. Cardinality(before \cup {n + 1}) = Cardinality(before) + 1
  <2> HIDE DEF before
  <2> QED
    BY <1>3, FS_AddElement
<1>6. Occurrences(Append(q, t), T) = Cardinality(after) /\ Occurrences(q, T) = Cardinality(before)
  BY DEF Occurrences
<1> HIDE DEF before, after
<1> QED
  BY <1>3, <1>4, <1>5, <1>6

-----------------------------------------------------------------------------
(* The period bounds of any time on the clock.                              *)

\* The bounds begin within the time elapsed, also before the subscription does.
LEMMA VoucherBoundsType ==
  ASSUME NEW first \in Nat, NEW last \in Nat, NEW scope \in Scopes, NEW t \in Nat
  PROVE  /\ VoucherPeriodBounds(first, last, scope, t)[1] \in first .. Greatest(first, t)
         /\ VoucherPeriodBounds(first, last, scope, t)[2] \in Int
         /\ VoucherPeriodBounds(first, last, scope, t)
              = <<VoucherPeriodBounds(first, last, scope, t)[1],
                  VoucherPeriodBounds(first, last, scope, t)[2]>>
         /\ scope = "subscription" => VoucherPeriodBounds(first, last, scope, t) = <<first, last>>
<1> DEFINE result == VoucherPeriodBounds(first, last, scope, t)
<1>1. CASE scope = "subscription"
  <2>1. result = <<first, last>>
    BY <1>1 DEF VoucherPeriodBounds
  <2> HIDE DEF result
  <2>2. /\ result[1] \in first .. Greatest(first, t) /\ result[2] \in Int
        /\ result = <<result[1], result[2]>>
    BY <2>1 DEF Greatest
  <2> QED
    BY <2>1, <2>2 DEF result
<1>2. CASE scope = "weekly"
  <2> DEFINE age == Greatest(t - first, 0)
             q == age \div WeekLength
  <2>1. WeekLength \in Nat \ {0} /\ age \in Nat /\ age <= Greatest(first, t) - first
    BY CalendarAssumption DEF Greatest
  <2>3. result = <<first + q * WeekLength, Least(first + q * WeekLength + WeekLength, last)>>
    BY <1>2 DEF VoucherPeriodBounds
  <2> HIDE DEF age
  <2>2. /\ q \in Nat /\ age % WeekLength \in 0 .. (WeekLength - 1)
        /\ age = q * WeekLength + (age % WeekLength)
    BY <2>1, Division
  <2> HIDE DEF q
  <2>4. q * WeekLength \in Nat
    BY <2>1, <2>2
  <2>5. q * WeekLength <= age
    BY <2>1, <2>2, <2>4
  <2>6. first + q * WeekLength \in first .. Greatest(first, t)
    BY <2>1, <2>4, <2>5 DEF Greatest
  <2>7. Least(first + q * WeekLength + WeekLength, last) \in Int
    BY <2>1, <2>4 DEF Least
  <2> QED
    BY <1>2, <2>3, <2>6, <2>7
<1>3. CASE scope = "daily"
  <2> DEFINE today == Day(Local(t))
  <2>1. /\ ZoneOffset \in Nat /\ DayLength \in Nat \ {0}
        /\ Local(t) = t + ZoneOffset /\ Local(t) \in Nat
    BY CalendarAssumption DEF Local
  <2>2. /\ today \in Nat /\ Local(t) % DayLength \in 0 .. (DayLength - 1)
        /\ Local(t) = today * DayLength + (Local(t) % DayLength)
    BY <2>1, DayType
  <2>3. result = <<Greatest(Midnight(today), first), Least(Midnight(today + 1), last)>>
    BY <1>3 DEF VoucherPeriodBounds
  <2> HIDE DEF today
  <2>4. today * DayLength \in Nat /\ (today + 1) * DayLength \in Nat
    BY <2>1, <2>2, MultipleIsReset
  <2>5. Midnight(today) \in Int /\ Midnight(today) <= t /\ Midnight(today + 1) \in Int
    BY <2>1, <2>2, <2>4 DEF Midnight, Utc
  <2>6. Greatest(Midnight(today), first) \in first .. Greatest(first, t)
    BY <2>5 DEF Greatest
  <2>7. Least(Midnight(today + 1), last) \in Int
    BY <2>5 DEF Least
  <2> QED
    BY <1>3, <2>3, <2>6, <2>7
<1>4. CASE scope = "monthly"
  <2> DEFINE s == Local(first)
             e == MonthsElapsed(first, t)
  <2>1. /\ ZoneOffset \in Nat /\ Local(t) = t + ZoneOffset /\ Local(t) \in Nat
        /\ s = first + ZoneOffset /\ s \in Nat
    BY CalendarAssumption DEF Local
  <2>2. e \in Nat /\ (AddMonths(s, e) <= Local(t) \/ e = 0)
    BY Elapsed
  <2>3. result = <<Greatest(Utc(AddMonths(s, e)), first), Least(Utc(AddMonths(s, e + 1)), last)>>
    BY <1>4 DEF VoucherPeriodBounds
  <2> HIDE DEF s, e
  <2>4. AddMonths(s, e) \in Nat /\ AddMonths(s, e + 1) \in Nat /\ AddMonths(s, 0) = s
    <3>1. e + 1 \in Nat
      BY <2>2
    <3> QED
      BY <2>1, <2>2, <3>1, Anniversary
  <2>5. Utc(AddMonths(s, e)) \in Int /\ Utc(AddMonths(s, e)) <= Greatest(first, t)
    BY <2>1, <2>2, <2>4 DEF Utc, Greatest
  <2>6. Greatest(Utc(AddMonths(s, e)), first) \in first .. Greatest(first, t)
    BY <2>5 DEF Greatest
  <2>7. Least(Utc(AddMonths(s, e + 1)), last) \in Int
    BY <2>1, <2>4 DEF Least, Utc
  <2> QED
    BY <1>4, <2>3, <2>6, <2>7
<1> QED
  BY <1>1, <1>2, <1>3, <1>4 DEF Scopes

\* The table of period bounds holds those bounds.
LEMMA BoundsType ==
  ASSUME CountersTypeOK, CalendarPeriods, NEW c \in Scopes, NEW t \in Times
  PROVE  /\ Bounds(c, t)[1] \in Times /\ Bounds(c, t)[2] \in Int
         /\ Bounds(c, t) = <<Bounds(c, t)[1], Bounds(c, t)[2]>>
         /\ c = "subscription" => Bounds(c, t) = <<start, end>>
<1>1. start \in Nat /\ start <= MaxTime /\ end \in Nat /\ MaxTime \in Nat /\ t \in Nat /\ t <= MaxTime
  BY BoundsAssumption DEF CountersTypeOK, Times, end
<1>2. PICK u \in Nat : u <= MaxTime /\ Bounds(c, t) = VoucherPeriodBounds(start, end, c, u)
  <2>1. Greatest(t, start) \in Nat /\ Greatest(t, start) <= MaxTime
    BY <1>1 DEF Greatest
  <2>2. CASE periods = [d \in Scopes |-> [v \in Times |-> PeriodBounds(start, end, d, v)]]
    <3>1. Bounds(c, t) = VoucherPeriodBounds(start, end, c, Greatest(t, start))
      BY <2>2 DEF Bounds, PeriodBounds
    <3> QED
      BY <2>1, <3>1
  <2>3. CASE periods = [d \in Scopes |-> [v \in Times |-> VoucherPeriodBounds(start, end, d, v)]]
    <3>1. Bounds(c, t) = VoucherPeriodBounds(start, end, c, t)
      BY <2>3 DEF Bounds
    <3> QED
      BY <1>1, <3>1
  <2> QED
    BY <2>2, <2>3 DEF CalendarPeriods
<1> DEFINE bounds == VoucherPeriodBounds(start, end, c, u)
<1>3. /\ bounds[1] \in start .. Greatest(start, u) /\ bounds[2] \in Int
      /\ bounds = <<bounds[1], bounds[2]>> /\ (c = "subscription" => bounds = <<start, end>>)
  BY <1>1, VoucherBoundsType
<1>4. start .. Greatest(start, u) \subseteq Times
  BY <1>1, <1>2 DEF Greatest, Times
<1> HIDE DEF bounds
<1> QED
  BY <1>2, <1>3, <1>4 DEF bounds

\* A counter rolled to a time exists and is of the time's period; it is the counter
\* as it was, or empty.
LEMMA RolledType ==
  ASSUME CountersTypeOK, CalendarPeriods, NEW c \in Scopes, NEW t \in Times, NEW counter \in Counter
  PROVE  /\ Rolled(counter, c, t) \in Counter /\ Rolled(counter, c, t).exists
         /\ InPeriod(Rolled(counter, c, t), c, t)
         /\ \/ counter.exists /\ InPeriod(counter, c, t) /\ Rolled(counter, c, t) = counter
            \/ Rolled(counter, c, t) = Fresh(c, t)
<1>1. /\ Bounds(c, t)[1] \in Times /\ Bounds(c, t)[2] \in Int
      /\ Bounds(c, t) = <<Bounds(c, t)[1], Bounds(c, t)[2]>>
  BY BoundsType
<1> DEFINE b == Bounds(c, t)
<1> HIDE DEF b
<1>2. CASE counter.exists /\ InPeriod(counter, c, t)
  BY <1>2 DEF Rolled
<1>3. CASE ~(counter.exists /\ InPeriod(counter, c, t))
  <2>1. Rolled(counter, c, t) = Fresh(c, t)
    BY <1>3 DEF Rolled
  <2>2. Fresh(c, t) \in Counter /\ Fresh(c, t).exists /\ InPeriod(Fresh(c, t), c, t)
    BY <1>1 DEF Fresh, Counter, InPeriod
  <2> QED
    BY <2>1, <2>2
<1> QED
  BY <1>2, <1>3

\* A missing counter has the type of a counter.
LEMMA NoCounterType == NoCounter \in Counter /\ ~NoCounter.exists /\ NoCopy \in [Scopes -> Counter]
  BY BoundsAssumption DEF NoCounter, NoCopy, Counter, Times

\* The invariant holds when the subscription starts.
LEMMA CountersStart == CountersInit => CountersInv
<1> SUFFICES ASSUME CountersInit PROVE CountersInv
  OBVIOUS
<1>1. start \in Times /\ start \in Nat
  BY BoundsAssumption DEF CountersInit, Times
<1>2. CountersTypeOK
  BY <1>1, NoCounterType DEF CountersInit, CountersTypeOK
<1>3. CalendarPeriods
  BY DEF CountersInit, CalendarPeriods
<1>4. \A c \in Scopes : counters[c] = NoCounter
  BY DEF CountersInit, NoCopy
<1>5. start <= now /\ Adding /\ Resetting /\ NoneYet /\ SubscriptionPeriod /\ NeverOvercounted
  BY <1>1, <1>4, NoCounterType
     DEF CountersInit, Adding, Resetting, NoneYet, SubscriptionPeriod, NeverOvercounted, Scopes
<1>6. SubscriptionScopeExact
  BY <1>4 DEF CountersInit, SubscriptionScopeExact, Scopes, NoCounter
<1> QED
  BY <1>2, <1>3, <1>5, <1>6 DEF CountersInv

\* A reported time, moved before the end, is on the clock.
LEMMA UsageTimeType ==
  ASSUME CountersTypeOK, NEW t \in Times
  PROVE  UsageTime(t) \in Times
<1>1. start \in Nat /\ Duration \in Nat \ {0} /\ t \in Nat /\ t <= MaxTime /\ MaxTime \in Nat
  BY BoundsAssumption DEF CountersTypeOK, Times
<1> QED
  BY <1>1 DEF UsageTime, Least, Times, end

\* Adding a delta changes the bytes alone.
LEMMA OneMore ==
  ASSUME NEW counter \in Counter
  PROVE  LET more == [counter EXCEPT !.bytes = @ + 1]
         IN  /\ more \in Counter /\ more.exists = counter.exists
             /\ more.from = counter.from /\ more.to = counter.to
             /\ more.bytes = counter.bytes + 1 /\ counter.bytes \in Nat
  BY DEF Counter

\* The counters a delta will be added to are read under the lock.
LEMMA LockCountersStep ==
  ASSUME CountersInv, NEW w \in Threads, NEW t \in Times, LockCounters(w, t)
  PROVE  CountersInv'
<1> DEFINE u == UsageTime(t)
<1>1. /\ pc[w] = "idle" /\ locks = {} /\ locks' = {w}
      /\ at' = [at EXCEPT ![w] = u]
      /\ copy' = [copy EXCEPT ![w] = [c \in Scopes |-> Rolled(counters[c], c, u)]]
      /\ pc' = [pc EXCEPT ![w] = "add"]
      /\ UNCHANGED <<start, periods, now, counters, recorded>>
  BY DEF LockCounters
<1>2. u \in Times
  BY UsageTimeType DEF CountersInv
<1> HIDE DEF u
<1>3. [c \in Scopes |-> Rolled(counters[c], c, u)] \in [Scopes -> Counter]
  BY <1>2, RolledType DEF CountersInv, CountersTypeOK
<1>4. CountersTypeOK'
  BY <1>1, <1>2, <1>3 DEF CountersInv, CountersTypeOK
<1>5. ~\E v \in Threads : pc[v] = "add"
  BY <1>1 DEF CountersInv, CountersTypeOK
<1>7. Adding'
  <2> SUFFICES ASSUME NEW v \in Threads, pc'[v] = "add"
               PROVE  locks' = {v} /\ copy'[v] = [c \in Scopes |-> Rolled(counters[c], c, at[v])]'
    BY DEF Adding
  <2>1. v = w
    BY <1>1, <1>5 DEF CountersInv, CountersTypeOK
  <2>2. at'[w] = u /\ copy'[w] = [c \in Scopes |-> Rolled(counters[c], c, u)]
    BY <1>1 DEF CountersInv, CountersTypeOK
  <2>3. \A c \in Scopes : Rolled(counters[c], c, at[w])' = Rolled(counters[c], c, u)
    BY <1>1, <2>2 DEF Rolled, InPeriod, Fresh, Bounds
  <2> QED
    BY <1>1, <2>1, <2>2, <2>3
<1>8. Resetting'
  BY <1>1 DEF CountersInv, CountersTypeOK, Resetting
<1>9. (start <= now)' /\ CalendarPeriods' /\ NoneYet' /\ SubscriptionPeriod'
  BY <1>1 DEF CountersInv, CalendarPeriods, NoneYet, SubscriptionPeriod, end
<1>10. NeverOvercounted' /\ SubscriptionScopeExact'
  BY <1>1 DEF CountersInv, NeverOvercounted, SubscriptionScopeExact, Recorded, InPeriod, Bounds
<1> QED
  BY <1>4, <1>7, <1>8, <1>9, <1>10 DEF CountersInv

\* The delta is one more of the period the counter is of.
LEMMA AddDeltaStep ==
  ASSUME CountersInv, NEW w \in Threads, AddDelta(w)
  PROVE  CountersInv'
<1>1. /\ pc[w] = "add"
      /\ counters' = [c \in Scopes |-> [copy[w][c] EXCEPT !.bytes = @ + 1]]
      /\ recorded' = Append(recorded, at[w]) /\ locks' = locks \ {w}
      /\ pc' = [pc EXCEPT ![w] = "idle"] /\ at' = [at EXCEPT ![w] = start]
      /\ copy' = [copy EXCEPT ![w] = NoCopy]
      /\ UNCHANGED <<start, periods, now>>
  BY DEF AddDelta, Answer
<1> DEFINE u == at[w]
           rolled(c) == Rolled(counters[c], c, u)
<1>2. /\ u \in Times /\ recorded \in Seq(Times) /\ start \in Times
      /\ counters \in [Scopes -> Counter] /\ CountersTypeOK /\ CalendarPeriods
  BY BoundsAssumption DEF CountersInv, CountersTypeOK, Times
<1>3. locks = {w} /\ \A v \in Threads : pc[v] = "add" => v = w
  BY <1>1 DEF CountersInv, Adding
<1>4. \A c \in Scopes : counters'[c] = [rolled(c) EXCEPT !.bytes = @ + 1]
  BY <1>1 DEF CountersInv, Adding
<1>5. \A c \in Scopes :
        /\ rolled(c) \in Counter /\ rolled(c).exists /\ InPeriod(rolled(c), c, u)
        /\ (counters[c].exists /\ rolled(c) = counters[c]) \/ rolled(c).bytes = 0
  <2> TAKE c \in Scopes
  <2>1. counters[c] \in Counter
    BY <1>2
  <2> QED
    BY <1>2, <2>1, RolledType DEF Fresh
<1>6. \A c \in Scopes :
        /\ counters'[c] \in Counter /\ counters'[c].exists
        /\ counters'[c].from = rolled(c).from /\ counters'[c].to = rolled(c).to
        /\ counters'[c].bytes = rolled(c).bytes + 1 /\ rolled(c).bytes \in Nat
  <2> TAKE c \in Scopes
  <2> DEFINE r == rolled(c)
  <2>1. r \in Counter /\ r.exists /\ counters'[c] = [r EXCEPT !.bytes = @ + 1]
    BY <1>4, <1>5
  <2> HIDE DEF r
  <2>2. /\ counters'[c] \in Counter /\ counters'[c].exists = r.exists
        /\ counters'[c].from = r.from /\ counters'[c].to = r.to
        /\ counters'[c].bytes = r.bytes + 1 /\ r.bytes \in Nat
    BY <2>1, OneMore
  <2> QED
    BY <2>1, <2>2 DEF r
<1>7. CountersTypeOK'
  <2>1. counters' \in [Scopes -> Counter]
    BY <1>1, <1>6
  <2>2. recorded' \in Seq(Times)
    BY <1>1, <1>2
  <2>3. locks' = {v \in Threads : pc'[v] = "add"}
    BY <1>1, <1>3 DEF CountersInv, CountersTypeOK
  <2> QED
    BY <1>1, <1>2, <2>1, <2>2, <2>3, NoCounterType DEF CountersTypeOK
<1>8. Adding' /\ Resetting'
  <2>1. \A v \in Threads : pc'[v] # "add"
    BY <1>1, <1>3 DEF CountersTypeOK, CountersInv
  <2>2. \A v \in Threads : pc'[v] = "reset" => pc[v] = "reset" /\ copy'[v] = copy[v]
    BY <1>1 DEF CountersTypeOK, CountersInv
  <2> QED
    BY <2>1, <2>2 DEF Adding, Resetting, CountersInv
<1>9. (start <= now)' /\ CalendarPeriods'
  BY <1>1 DEF CountersInv, CalendarPeriods, end
<1>10. NoneYet'
  BY <1>6 DEF NoneYet
<1>11. SubscriptionPeriod'
  <2>1. Bounds("subscription", u) = <<start, end>> /\ end' = end
    BY <1>1, <1>2, BoundsType DEF Scopes, end
  <2> HIDE DEF rolled
  <2>2. rolled("subscription").from = start /\ rolled("subscription").to = end
    BY <1>5, <2>1 DEF InPeriod, Scopes
  <2> QED
    BY <1>1, <1>6, <2>1, <2>2 DEF SubscriptionPeriod, Scopes
<1>12. NeverOvercounted'
  <2> SUFFICES ASSUME NEW c \in Scopes
               PROVE  counters'[c].bytes
                        <= Recorded({t \in Times : InPeriod(counters[c], c, t)})'
    BY DEF NeverOvercounted
  <2> DEFINE T == {t \in Times : InPeriod(rolled(c), c, t)}
  <2> DEFINE P == {t \in Times : <<counters[c].from, counters[c].to>> = Bounds(c, t)}
  <2>1. P' = T
    <3>1. \A t \in Times : Bounds(c, t)' = Bounds(c, t)
      BY <1>1 DEF Bounds
    <3> QED
      BY <1>6, <3>1 DEF InPeriod
  <2>2. Recorded({t \in Times : InPeriod(counters[c], c, t)})' = Occurrences(recorded', T)
    <3> HIDE DEF T
    <3> QED
      BY <2>1 DEF Recorded, Occurrences, InPeriod
  <2>3. u \in T
    BY <1>2, <1>5
  <2>4. /\ Occurrences(recorded', T) = Occurrences(recorded, T) + 1
        /\ Occurrences(recorded, T) \in Nat
    <3> HIDE DEF T, u
    <3> QED
      BY <1>1, <1>2, <2>3, OccurrencesAppend, OccurrencesType DEF u
  <2>5. rolled(c).bytes <= Occurrences(recorded, T)
    <3>1. CASE counters[c].exists /\ rolled(c) = counters[c]
      BY <3>1 DEF CountersInv, NeverOvercounted, Recorded, Occurrences
    <3>2. CASE rolled(c).bytes = 0
      BY <2>4, <3>2
    <3> QED
      BY <1>5, <3>1, <3>2
  <2> HIDE DEF T, rolled
  <2> QED
    BY <1>6, <2>2, <2>4, <2>5
<1>13. SubscriptionScopeExact'
  <2> DEFINE total == counters["subscription"]
  <2>1. Len(recorded') = Len(recorded) + 1 /\ Len(recorded) \in Nat
    BY <1>1, <1>2
  <2>2. rolled("subscription").bytes = total.bytes
    <3>1. Bounds("subscription", u) = <<start, end>>
      BY <1>2, BoundsType DEF Scopes
    <3>2. CASE total.exists
      <4>1. InPeriod(total, "subscription", u)
        BY <3>1, <3>2 DEF CountersInv, SubscriptionPeriod, InPeriod
      <4> QED
        BY <3>2, <4>1 DEF Rolled
    <3>3. CASE ~total.exists
      BY <3>3 DEF Rolled, Fresh, CountersInv, NoneYet, NoCounter, Scopes
    <3> QED
      BY <3>2, <3>3
  <2>3. total.bytes = Len(recorded)
    BY DEF CountersInv, SubscriptionScopeExact
  <2> HIDE DEF rolled, total
  <2> QED
    BY <1>6, <2>1, <2>2, <2>3 DEF SubscriptionScopeExact, Scopes
<1> QED
  BY <1>7, <1>8, <1>9, <1>10, <1>11, <1>12, <1>13 DEF CountersInv

\* A step that leaves the counters and the locks alone leaves a delta to be added.
LEMMA AddingKept ==
  ASSUME CountersInv, UNCHANGED <<periods, counters, locks>>,
         \A v \in Threads : pc'[v] = "add" => pc[v] = "add" /\ at'[v] = at[v] /\ copy'[v] = copy[v]
  PROVE  Adding'
<1> SUFFICES ASSUME NEW v \in Threads, pc'[v] = "add"
             PROVE  locks' = {v} /\ copy'[v] = [c \in Scopes |-> Rolled(counters[c], c, at[v])]'
  BY DEF Adding
<1>1. pc[v] = "add" /\ at'[v] = at[v] /\ copy'[v] = copy[v]
  OBVIOUS
<1>2. locks = {v} /\ copy[v] = [c \in Scopes |-> Rolled(counters[c], c, at[v])]
  BY <1>1 DEF CountersInv, Adding
<1>3. \A c \in Scopes : Rolled(counters[c], c, at[v])' = Rolled(counters[c], c, at[v])
  BY <1>1 DEF Rolled, InPeriod, Fresh, Bounds
<1> QED
  BY <1>1, <1>2, <1>3

\* A step that changes nothing keeps the invariant.
LEMMA CountersStutter == CountersInv /\ UNCHANGED counter_vars => CountersInv'
<1> SUFFICES ASSUME CountersInv, UNCHANGED counter_vars PROVE CountersInv'
  OBVIOUS
<1>1. CountersTypeOK'
  BY DEF counter_vars, CountersInv, CountersTypeOK
<1>2. Adding'
  BY AddingKept DEF counter_vars
<1>3. Resetting' /\ (start <= now)' /\ CalendarPeriods' /\ NoneYet' /\ SubscriptionPeriod'
  BY DEF counter_vars, CountersInv, Resetting, CalendarPeriods, NoneYet, SubscriptionPeriod, end
<1>4. NeverOvercounted' /\ SubscriptionScopeExact'
  BY DEF counter_vars, CountersInv, NeverOvercounted, SubscriptionScopeExact, Recorded, InPeriod, Bounds
<1> QED
  BY <1>1, <1>2, <1>3, <1>4 DEF CountersInv

\* A request that starts, or ends, an evaluation leaves the counters alone.
LEMMA BeginEvaluateStep ==
  ASSUME CountersInv, NEW w \in Threads, BeginEvaluate(w)
  PROVE  CountersInv'
<1>1. /\ pc[w] = "idle" /\ pc' = [pc EXCEPT ![w] = "evaluate"] /\ at' = [at EXCEPT ![w] = now]
      /\ UNCHANGED <<start, periods, now, counters, recorded, locks, copy>>
  BY DEF BeginEvaluate
<1>2. CountersTypeOK'
  BY <1>1 DEF CountersInv, CountersTypeOK
<1>3. \A v \in Threads : pc'[v] \in {"add", "reset"} => pc'[v] = pc[v] /\ at'[v] = at[v]
  BY <1>1 DEF CountersInv, CountersTypeOK
<1>4. Adding'
  BY <1>1, <1>3, AddingKept
<1>5. Resetting' /\ (start <= now)' /\ CalendarPeriods' /\ NoneYet' /\ SubscriptionPeriod'
  BY <1>1, <1>3 DEF CountersInv, Resetting, CalendarPeriods, NoneYet, SubscriptionPeriod, end
<1>6. NeverOvercounted' /\ SubscriptionScopeExact'
  BY <1>1 DEF CountersInv, NeverOvercounted, SubscriptionScopeExact, Recorded, InPeriod, Bounds
<1> QED
  BY <1>2, <1>4, <1>5, <1>6 DEF CountersInv

LEMMA EndEvaluateStep ==
  ASSUME CountersInv, NEW w \in Threads, EndEvaluate(w)
  PROVE  CountersInv'
<1>1. /\ pc[w] = "evaluate" /\ pc' = [pc EXCEPT ![w] = "idle"] /\ at' = [at EXCEPT ![w] = start]
      /\ copy' = [copy EXCEPT ![w] = NoCopy]
      /\ UNCHANGED <<start, periods, now, counters, recorded, locks>>
  BY DEF EndEvaluate, Answer
<1>2. CountersTypeOK'
  <2>1. start \in Times
    BY BoundsAssumption DEF CountersInv, CountersTypeOK, Times
  <2> QED
    BY <1>1, <2>1, NoCounterType DEF CountersInv, CountersTypeOK
<1>3. \A v \in Threads : pc'[v] \in {"add", "reset"} =>
        pc'[v] = pc[v] /\ at'[v] = at[v] /\ copy'[v] = copy[v]
  BY <1>1 DEF CountersInv, CountersTypeOK
<1>4. Adding'
  BY <1>1, <1>3, AddingKept
<1>5. Resetting' /\ (start <= now)' /\ CalendarPeriods' /\ NoneYet' /\ SubscriptionPeriod'
  BY <1>1, <1>3 DEF CountersInv, Resetting, CalendarPeriods, NoneYet, SubscriptionPeriod, end
<1>6. NeverOvercounted' /\ SubscriptionScopeExact'
  BY <1>1 DEF CountersInv, NeverOvercounted, SubscriptionScopeExact, Recorded, InPeriod, Bounds
<1> QED
  BY <1>2, <1>4, <1>5, <1>6 DEF CountersInv

\* What writes a counter without a delta leaves it empty: of an empty counter
\* nothing is overcounted, and no delta is being added meanwhile.
LEMMA EmptiedStep ==
  ASSUME CountersInv, locks = {}, UNCHANGED <<start, periods, now, recorded>>,
         counters' \in [Scopes -> Counter],
         \A c \in Scopes : counters'[c] = counters[c]
                             \/ (counters'[c].exists /\ counters'[c].bytes = 0),
         \/ counters'["subscription"] = counters["subscription"]
         \/ /\ ~counters["subscription"].exists
            /\ counters'["subscription"] = Fresh("subscription", start)
  PROVE  /\ (start <= now)' /\ CalendarPeriods' /\ NoneYet' /\ SubscriptionPeriod'
         /\ NeverOvercounted' /\ SubscriptionScopeExact'
<1>1. (start <= now)' /\ CalendarPeriods' /\ NoneYet'
  BY DEF CountersInv, CalendarPeriods, NoneYet, end
<1>2. SubscriptionPeriod'
  <2>1. Bounds("subscription", start) = <<start, end>> /\ end' = end
    <3>1. start \in Times
      BY BoundsAssumption DEF CountersInv, CountersTypeOK, Times
    <3> QED
      BY <3>1, BoundsType DEF Scopes, CountersInv, end
  <2> QED
    BY <2>1 DEF CountersInv, SubscriptionPeriod, Fresh
<1>3. NeverOvercounted'
  <2> SUFFICES ASSUME NEW c \in Scopes, counters'[c].exists
               PROVE  counters'[c].bytes
                        <= Recorded({t \in Times : InPeriod(counters[c], c, t)})'
    BY DEF NeverOvercounted
  <2> DEFINE T == {t \in Times : <<counters'[c].from, counters'[c].to>> = Bounds(c, t)}
  <2>1. Recorded({t \in Times : InPeriod(counters[c], c, t)})' = Occurrences(recorded, T)
    BY DEF Recorded, Occurrences, InPeriod, Bounds
  <2>2. Occurrences(recorded, T) \in Nat
    <3> HIDE DEF T
    <3> QED
      BY OccurrencesType DEF CountersInv, CountersTypeOK
  <2>3. CASE counters'[c] = counters[c]
    BY <2>1, <2>3 DEF CountersInv, NeverOvercounted, Recorded, Occurrences, InPeriod
  <2>4. CASE counters'[c].bytes = 0
    BY <2>1, <2>2, <2>4
  <2> QED
    BY <2>3, <2>4
<1>4. SubscriptionScopeExact'
  BY DEF CountersInv, SubscriptionScopeExact, NoneYet, Fresh, NoCounter, Scopes
<1> QED
  BY <1>1, <1>2, <1>3, <1>4

\* A missing counter is created only while nothing has been recorded in it.
LEMMA CreateCounterStep ==
  ASSUME CountersInv, NEW w \in Threads, NEW d \in Scopes, CreateCounter(w, d)
  PROVE  CountersInv'
<1>1. /\ pc[w] = "evaluate" /\ locks = {} /\ ~counters[d].exists
      /\ counters' = [counters EXCEPT ![d] = Fresh(d, at[w])]
      /\ UNCHANGED <<start, periods, now, recorded, locks, pc, at, copy>>
  BY DEF CreateCounter
<1>2. /\ CountersTypeOK /\ CalendarPeriods /\ at[w] \in Times
      /\ counters[d] \in Counter /\ counters \in [Scopes -> Counter] /\ start \in Times
  BY BoundsAssumption DEF CountersInv, CountersTypeOK, Times
<1>3. Fresh(d, at[w]) \in Counter /\ Fresh(d, at[w]).exists /\ Fresh(d, at[w]).bytes = 0
  <2>1. Rolled(counters[d], d, at[w]) \in Counter /\ Rolled(counters[d], d, at[w]) = Fresh(d, at[w])
    BY <1>1, <1>2, RolledType DEF Rolled
  <2> QED
    BY <2>1 DEF Fresh
<1>4. counters' \in [Scopes -> Counter]
  BY <1>1, <1>2, <1>3
<1>5. \A c \in Scopes : counters'[c] = counters[c] \/ (counters'[c].exists /\ counters'[c].bytes = 0)
  BY <1>1, <1>2, <1>3
<1>6. d = "subscription" => Fresh(d, at[w]) = Fresh("subscription", start)
  BY <1>2, BoundsType DEF Fresh
<1>7. /\ (start <= now)' /\ CalendarPeriods' /\ NoneYet' /\ SubscriptionPeriod'
      /\ NeverOvercounted' /\ SubscriptionScopeExact'
  BY <1>1, <1>2, <1>4, <1>5, <1>6, EmptiedStep DEF Scopes
<1>8. CountersTypeOK'
  BY <1>1, <1>4 DEF CountersInv, CountersTypeOK
<1>9. Adding' /\ Resetting'
  BY <1>1 DEF CountersInv, Adding, Resetting
<1> QED
  BY <1>7, <1>8, <1>9 DEF CountersInv

\* The counter of the whole subscription is of the right period at any time.
LEMMA ReadCounterStep ==
  ASSUME CountersInv, NEW w \in Threads, NEW d \in Scopes, ReadCounter(w, d)
  PROVE  CountersInv'
<1>1. CASE UNCHANGED counter_vars
  BY <1>1, CountersStutter
<1>2. CASE ~InPeriod(counters[d], d, at[w])
  <2>1. /\ pc[w] = "evaluate" /\ counters[d].exists
        /\ copy' = [copy EXCEPT ![w] = [NoCopy EXCEPT ![d] = Fresh(d, at[w])]]
        /\ pc' = [pc EXCEPT ![w] = "reset"]
        /\ UNCHANGED <<start, periods, now, counters, recorded, locks, at>>
    BY <1>2 DEF ReadCounter
  <2>2. /\ CountersTypeOK /\ CalendarPeriods /\ at[w] \in Times
        /\ counters[d] \in Counter /\ counters \in [Scopes -> Counter]
    BY DEF CountersInv, CountersTypeOK
  <2>3. Fresh(d, at[w]) \in Counter /\ Fresh(d, at[w]).bytes = 0
    <3>1. Rolled(counters[d], d, at[w]) \in Counter /\ Rolled(counters[d], d, at[w]) = Fresh(d, at[w])
      BY <1>2, <2>2, RolledType DEF Rolled
    <3> QED
      BY <3>1 DEF Fresh
  <2>4. d # "subscription"
    <3>1. d = "subscription" => Bounds(d, at[w]) = <<start, end>>
      BY <2>2, BoundsType
    <3> QED
      BY <1>2, <2>1, <3>1 DEF CountersInv, SubscriptionPeriod, InPeriod
  <2> DEFINE reset == [NoCopy EXCEPT ![d] = Fresh(d, at[w])]
  <2>5. /\ reset \in [Scopes -> Counter] /\ ~reset["subscription"].exists
        /\ \A c \in Scopes : reset[c].exists => reset[c].bytes = 0
    <3>1. NoCopy \in [Scopes -> Counter] /\ \A c \in Scopes : NoCopy[c] = NoCounter
      BY NoCounterType DEF NoCopy
    <3> QED
      BY <2>3, <2>4, <3>1, NoCounterType DEF Scopes
  <2> HIDE DEF reset
  <2>6. copy' = [copy EXCEPT ![w] = reset]
    BY <2>1 DEF reset
  <2>7. CountersTypeOK'
    BY <2>1, <2>5, <2>6 DEF CountersInv, CountersTypeOK
  <2>8. \A v \in Threads : pc'[v] = "add" => pc[v] = "add" /\ at'[v] = at[v] /\ copy'[v] = copy[v]
    BY <2>1, <2>6 DEF CountersInv, CountersTypeOK
  <2>9. Adding'
    BY <2>1, <2>8, AddingKept
  <2>10. Resetting'
    <3> SUFFICES ASSUME NEW v \in Threads, pc'[v] = "reset"
                 PROVE  /\ ~copy'[v]["subscription"].exists
                        /\ \A c \in Scopes : copy'[v][c].exists => copy'[v][c].bytes = 0
      BY DEF Resetting
    <3>1. CASE v = w
      BY <2>5, <2>6, <3>1 DEF CountersInv, CountersTypeOK
    <3>2. CASE v # w
      BY <2>1, <2>6, <3>2 DEF CountersInv, CountersTypeOK, Resetting
    <3> QED
      BY <3>1, <3>2
  <2>11. (start <= now)' /\ CalendarPeriods' /\ NoneYet' /\ SubscriptionPeriod'
    BY <2>1 DEF CountersInv, CalendarPeriods, NoneYet, SubscriptionPeriod, end
  <2>12. NeverOvercounted' /\ SubscriptionScopeExact'
    BY <2>1 DEF CountersInv, NeverOvercounted, SubscriptionScopeExact, Recorded, InPeriod, Bounds
  <2> QED
    BY <2>7, <2>9, <2>10, <2>11, <2>12 DEF CountersInv
<1> QED
  BY <1>1, <1>2 DEF ReadCounter, counter_vars

\* Saving a reset empties a counter, never that of the whole subscription.
LEMMA SaveResetStep ==
  ASSUME CountersInv, NEW w \in Threads, SaveReset(w)
  PROVE  CountersInv'
<1>1. /\ pc[w] = "reset" /\ locks = {}
      /\ counters' = [c \in Scopes |-> IF copy[w][c].exists THEN copy[w][c] ELSE counters[c]]
      /\ copy' = [copy EXCEPT ![w] = NoCopy] /\ pc' = [pc EXCEPT ![w] = "evaluate"]
      /\ UNCHANGED <<start, periods, now, recorded, locks, at>>
  BY DEF SaveReset
<1>2. counters \in [Scopes -> Counter] /\ copy[w] \in [Scopes -> Counter]
  BY DEF CountersInv, CountersTypeOK
<1>3. counters' \in [Scopes -> Counter]
  BY <1>1, <1>2
<1>4. \A c \in Scopes : counters'[c] = counters[c] \/ (counters'[c].exists /\ counters'[c].bytes = 0)
  BY <1>1 DEF CountersInv, Resetting
<1>5. counters'["subscription"] = counters["subscription"]
  BY <1>1 DEF CountersInv, Resetting, Scopes
<1>6. /\ (start <= now)' /\ CalendarPeriods' /\ NoneYet' /\ SubscriptionPeriod'
      /\ NeverOvercounted' /\ SubscriptionScopeExact'
  BY <1>1, <1>3, <1>4, <1>5, EmptiedStep
<1>7. CountersTypeOK'
  BY <1>1, <1>3, NoCounterType DEF CountersInv, CountersTypeOK
<1>8. Adding'
  BY <1>1 DEF CountersInv, CountersTypeOK, Adding
<1>9. Resetting'
  <2>1. \A v \in Threads : pc'[v] = "reset" => pc[v] = "reset" /\ copy'[v] = copy[v]
    BY <1>1 DEF CountersInv, CountersTypeOK
  <2> QED
    BY <2>1 DEF CountersInv, Resetting
<1> QED
  BY <1>6, <1>7, <1>8, <1>9 DEF CountersInv

\* The passing of time changes no counter.
LEMMA TickStep ==
  ASSUME CountersInv, Tick
  PROVE  CountersInv'
<1>1. now < MaxTime /\ now' = now + 1 /\ UNCHANGED <<start, periods, counters, recorded, locks, pc, at, copy>>
  BY DEF Tick
<1>2. now' \in Times /\ start <= now'
  BY <1>1, BoundsAssumption DEF CountersInv, CountersTypeOK, Times
<1>3. CountersTypeOK'
  BY <1>1, <1>2 DEF CountersInv, CountersTypeOK
<1>4. Adding'
  BY <1>1, AddingKept
<1>5. Resetting' /\ CalendarPeriods' /\ NoneYet' /\ SubscriptionPeriod'
  BY <1>1 DEF CountersInv, Resetting, CalendarPeriods, NoneYet, SubscriptionPeriod, end
<1>6. NeverOvercounted' /\ SubscriptionScopeExact'
  BY <1>1 DEF CountersInv, NeverOvercounted, SubscriptionScopeExact, Recorded, InPeriod, Bounds
<1> QED
  BY <1>1, <1>2, <1>3, <1>4, <1>5, <1>6 DEF CountersInv

\* The invariant holds throughout.
LEMMA CountersInvariant == CountersSpec => []CountersInv
<1>1. CountersInv /\ [CountersNext]_counter_vars => CountersInv'
  <2> SUFFICES ASSUME CountersInv, [CountersNext]_counter_vars PROVE CountersInv'
    OBVIOUS
  <2>1. ASSUME NEW w \in Threads, NEW t \in Times, LockCounters(w, t) PROVE CountersInv'
    BY <2>1, LockCountersStep
  <2>2. ASSUME NEW w \in Threads, AddDelta(w) PROVE CountersInv'
    BY <2>2, AddDeltaStep
  <2>3. ASSUME NEW w \in Threads, BeginEvaluate(w) PROVE CountersInv'
    BY <2>3, BeginEvaluateStep
  <2>4. ASSUME NEW w \in Threads, SaveReset(w) PROVE CountersInv'
    BY <2>4, SaveResetStep
  <2>5. ASSUME NEW w \in Threads, EndEvaluate(w) PROVE CountersInv'
    BY <2>5, EndEvaluateStep
  <2>6. ASSUME NEW w \in Threads, NEW c \in Scopes, CreateCounter(w, c) PROVE CountersInv'
    BY <2>6, CreateCounterStep
  <2>7. ASSUME NEW w \in Threads, NEW c \in Scopes, ReadCounter(w, c) PROVE CountersInv'
    BY <2>7, ReadCounterStep
  <2>8. CASE Tick
    BY <2>8, TickStep
  <2>9. CASE UNCHANGED counter_vars
    BY <2>9, CountersStutter
  <2> QED
    BY <2>1, <2>2, <2>3, <2>4, <2>5, <2>6, <2>7, <2>8, <2>9 DEF CountersNext
<1> QED
  BY <1>1, CountersStart, PTL DEF CountersSpec

\* The counters keep their types.
THEOREM CountersTypeCorrect == CountersSpec => []CountersTypeOK
<1>1. CountersInv => CountersTypeOK
  BY DEF CountersInv
<1> QED
  BY <1>1, CountersInvariant, PTL

\* Nobody's quota is charged for bytes of another period, or twice.
THEOREM NeverOvercountedHolds == CountersSpec => []NeverOvercounted
<1>1. CountersInv => NeverOvercounted
  BY DEF CountersInv
<1> QED
  BY <1>1, CountersInvariant, PTL

\* The counter of the whole subscription holds all that was recorded.
THEOREM SubscriptionScopeExactHolds == CountersSpec => []SubscriptionScopeExact
<1>1. CountersInv => SubscriptionScopeExact
  BY DEF CountersInv
<1> QED
  BY <1>1, CountersInvariant, PTL

\* At any time of any subscription the period bounds are those of the calendar.
THEOREM PeriodIsNearestHolds == CountersSpec => []PeriodIsNearest
<1>1. CountersInv => PeriodIsNearest
  <2> SUFFICES ASSUME CountersInv, now < end, NEW c \in Scopes
               PROVE  IsPeriodOf(start, end, c, now, Bounds(c, now))
    BY DEF PeriodIsNearest
  <2>1. start \in Nat /\ end \in Nat /\ now \in start .. (end - 1) /\ now \in Times
    BY BoundsAssumption DEF CountersInv, CountersTypeOK, Times, end
  <2>2. \/ Bounds(c, now) = PeriodBounds(start, end, c, now)
        \/ Bounds(c, now) = VoucherPeriodBounds(start, end, c, now)
    BY <2>1 DEF CountersInv, CalendarPeriods, Bounds
  <2> QED
    BY <2>1, <2>2, PeriodsAreRight
<1> QED
  BY <1>1, CountersInvariant, PTL

\* What an evaluation reads is at most what was recorded in the period.
LEMMA CountedIsUsed ==
  ASSUME CountersInv
  PROVE  /\ Counted \in Usage /\ Used \in Usage
         /\ \A c \in Scopes : Counted[c] <= Used[c]
<1>1. ASSUME NEW c \in Scopes
      PROVE  /\ Rolled(counters[c], c, now).bytes \in Nat
             /\ Recorded({t \in Times : Bounds(c, t) = Bounds(c, now)}) \in Nat
             /\ Rolled(counters[c], c, now).bytes
                  <= Recorded({t \in Times : Bounds(c, t) = Bounds(c, now)})
  <2> DEFINE T == {t \in Times : Bounds(c, t) = Bounds(c, now)}
             rolled == Rolled(counters[c], c, now)
  <2>1. counters[c] \in Counter /\ now \in Times /\ recorded \in Seq(Times)
    BY DEF CountersInv, CountersTypeOK
  <2>2. /\ rolled \in Counter
        /\ \/ counters[c].exists /\ InPeriod(counters[c], c, now) /\ rolled = counters[c]
           \/ rolled = Fresh(c, now)
    BY <2>1, RolledType DEF CountersInv
  <2>3. Recorded(T) = Occurrences(recorded, T) /\ Occurrences(recorded, T) \in Nat
    <3> HIDE DEF T
    <3> QED
      BY <2>1, OccurrencesType DEF Recorded, Occurrences
  <2>4. CASE counters[c].exists /\ InPeriod(counters[c], c, now) /\ rolled = counters[c]
    <3>1. {t \in Times : InPeriod(counters[c], c, t)} = T
      BY <2>4 DEF InPeriod
    <3>2. counters[c].bytes <= Recorded({t \in Times : InPeriod(counters[c], c, t)})
      BY <2>4 DEF CountersInv, NeverOvercounted
    <3> QED
      BY <2>2, <2>3, <2>4, <3>1, <3>2 DEF Counter
  <2>5. CASE rolled = Fresh(c, now)
    <3>1. rolled.bytes = 0
      BY <2>5 DEF Fresh
    <3> HIDE DEF rolled, T
    <3> QED
      BY <2>3, <3>1 DEF rolled, T
  <2> QED
    BY <2>2, <2>4, <2>5
<1> QED
  BY <1>1 DEF Counted, Used, Usage

\* Nobody is blocked or slowed down beyond what the period's usage warrants, for
\* every package, calendar and order of packets and evaluations.
THEOREM NeverTooStrictHolds == CountersSpec => []NeverTooStrict
<1>1. CountersInv => NeverTooStrict
  <2> SUFFICES ASSUME CountersInv PROVE NeverTooStrict
    OBVIOUS
  <2>1. Counted \in Usage /\ Used \in Usage /\ MatchedStages(Counted) \subseteq ReachedStages(Used)
    BY CountedIsUsed, MatchedIsReached
  <2>2. /\ \/ Speed(Counted) = BaseSpeed
           \/ \E stage \in MatchedStages(Counted) : ~stage.block /\ Speed(Counted) = stage.speed
        /\ Speed(Counted) \in Nat /\ BaseSpeed \in Nat
    BY <2>1, LeastSpeed, PackageAssumption
  <2>3. Blocked(Counted) => \E stage \in ReachedStages(Used) : stage.block
    BY <2>1 DEF Blocked
  <2>4. Speed(Counted) < BaseSpeed =>
          \E stage \in ReachedStages(Used) : ~stage.block /\ stage.speed <= Speed(Counted)
    BY <2>1, <2>2
  <2> QED
    BY <2>3, <2>4 DEF NeverTooStrict
<1> QED
  BY <1>1, CountersInvariant, PTL

\* For a package whose later stages are the stricter ones, the policy is the most
\* restrictive of what the counters hold.
THEOREM EscalatingStagesApplyHolds == CountersSpec => []EscalatingStagesApply
<1>1. CountersInv => EscalatingStagesApply
  BY CountedIsUsed, EscalationIsRestrictive DEF EscalatingStagesApply, ReachedStagesApply
<1> QED
  BY <1>1, CountersInvariant, PTL

-----------------------------------------------------------------------------
(* Live sessions: what a row, a worker and the NAS may be.                 *)

\* Whom a worker is about: all but a listing work on a session that has a row.
JobOK(w) ==
  /\ ~At(w, "idle") => job[w].session \in Sessions
  /\ job[w].step \notin {"idle", "list"} => row[job[w].session].status # "NONE"

\* A row without a report has no subscription; a report needs a session.
RowOK(s) ==
  /\ row[s].status = "NONE" => row[s].sub = 0
  /\ row[s].status # "NONE" => nas[s].phase # "off"

\* While nothing is blurred, one worker at a time is about to record, and it will
\* record what the NAS applies.
Exchange(v, w) ==
  LET s == job[w].session IN
  /\ At(v, "record") /\ At(w, "record") /\ job[v].session = s
  /\ nas[s].phase = "up" /\ row[s].status = "ACTIVE" /\ s \notin blurred
  => v = w /\ job[w].rate = nas[s].rate

\* The two properties, of one session.
Applied(s) ==
  nas[s].phase = "up" /\ row[s].status = "ACTIVE" /\ s \notin blurred =>
    \/ \E w \in Workers : At(w, "record") /\ job[w].session = s
    \/ row[s].rate = nas[s].rate

Current(s) ==
  nas[s].phase = "up" /\ s \notin escaped =>
    \/ \E w \in Workers : job[w].session = s /\ (At(w, "list") \/ At(w, "cut"))
    \/ s \in enabled /\ row[s].sub \in {0, latest[s]}

IInv ==
  /\ TypeOK
  /\ \A w \in Workers : JobOK(w)
  /\ \A s \in Sessions : RowOK(s) /\ Applied(s) /\ Current(s)
  /\ \A v, w \in Workers : Exchange(v, w)

LEMMA InitIInv == Init => IInv
<1> SUFFICES ASSUME Init PROVE IInv
  OBVIOUS
<1>1. \A w \in Workers : job[w] = Idle /\ job[w].step = "idle" /\ job[w].session = NoSession
  BY DEF Init, Idle
<1>2. \A s \in Sessions : nas[s].phase = "off" /\ row[s].status = "NONE" /\ row[s].sub = 0
  BY DEF Init
<1>3. TypeOK
  <2>1. PICK r \in Rates : policy = [s \in Sessions |-> r]
    BY DEF Init
  <2>2. [phase |-> "off", rate |-> ""] \in NasStates /\ Idle \in Jobs
    BY DEF NasStates, Idle, Jobs, Steps
  <2>3. [status |-> "NONE", rate |-> "", sub |-> 0] \in Rows /\ 1 \in 1 .. MaxSub
    BY MaxSubAssumption DEF Rows
  <2> QED
    BY <2>1, <2>2, <2>3 DEF Init, TypeOK
<1>4. \A w \in Workers : JobOK(w)
  BY <1>1 DEF JobOK, At
<1>5. \A s \in Sessions : RowOK(s) /\ Applied(s) /\ Current(s)
  BY <1>2 DEF RowOK, Applied, Current
<1>6. \A v, w \in Workers : Exchange(v, w)
  BY <1>1 DEF Exchange, At
<1> QED
  BY <1>3, <1>4, <1>5, <1>6 DEF IInv

\* What Do and Finish do to the jobs.
LEMMA DoJob ==
  ASSUME job \in [Workers -> Jobs], NEW w \in Workers, NEW step \in Steps, NEW s \in Sessions,
         NEW rate \in Rates \cup {""}, Do(w, step, s, rate)
  PROVE  /\ job' \in [Workers -> Jobs]
         /\ job'[w].step = step /\ job'[w].session = s /\ job'[w].rate = rate
         /\ \A v \in Workers \ {w} : job'[v] = job[v]
<1>1. [step |-> step, session |-> s, rate |-> rate] \in Jobs
  BY DEF Jobs
<1>2. job' = [job EXCEPT ![w] = [step |-> step, session |-> s, rate |-> rate]]
  BY DEF Do
<1> QED
  BY <1>1, <1>2

LEMMA FinishJob ==
  ASSUME job \in [Workers -> Jobs], NEW w \in Workers, Finish(w)
  PROVE  /\ job' \in [Workers -> Jobs] /\ job'[w].step = "idle"
         /\ \A v \in Workers \ {w} : job'[v] = job[v]
<1>1. Idle \in Jobs /\ Idle.step = "idle"
  BY DEF Idle, Jobs, Steps
<1>2. job' = [job EXCEPT ![w] = Idle]
  BY DEF Finish
<1> QED
  BY <1>1, <1>2

\* What the assignments to the NAS and to the row do.
LEMMA NasRate ==
  ASSUME nas \in [Sessions -> NasStates], NEW s \in Sessions, NEW rate \in Rates \cup {""},
         nas' = [nas EXCEPT ![s].rate = rate]
  PROVE  /\ nas' \in [Sessions -> NasStates]
         /\ nas'[s].rate = rate /\ nas'[s].phase = nas[s].phase
         /\ \A t \in Sessions \ {s} : nas'[t] = nas[t]
  BY DEF NasStates

LEMMA NasDown ==
  ASSUME nas \in [Sessions -> NasStates], NEW s \in Sessions, nas' = [nas EXCEPT ![s] = Down]
  PROVE  /\ nas' \in [Sessions -> NasStates] /\ nas'[s].phase = "down"
         /\ \A t \in Sessions \ {s} : nas'[t] = nas[t]
  BY DEF NasStates, Down

LEMMA RowRate ==
  ASSUME row \in [Sessions -> Rows], NEW s \in Sessions, NEW rate \in Rates \cup {""},
         row' = [row EXCEPT ![s].rate = rate]
  PROVE  /\ row' \in [Sessions -> Rows]
         /\ row'[s].rate = rate /\ row'[s].status = row[s].status /\ row'[s].sub = row[s].sub
         /\ \A t \in Sessions \ {s} : row'[t] = row[t]
  BY DEF Rows

LEMMA RowStatus ==
  ASSUME row \in [Sessions -> Rows], NEW s \in Sessions,
         row' = [row EXCEPT ![s].status = "STOPPED"]
  PROVE  /\ row' \in [Sessions -> Rows]
         /\ row'[s].status = "STOPPED" /\ row'[s].sub = row[s].sub
         /\ \A t \in Sessions \ {s} : row'[t] = row[t]
  BY DEF Rows

LEMMA ConnectKeeps ==
  ASSUME IInv, NEW s \in Sessions, Connect(s)
  PROVE  IInv'
<1>t. TypeOK /\ nas \in [Sessions -> NasStates] /\ row \in [Sessions -> Rows]
      /\ job \in [Workers -> Jobs]
  BY DEF IInv, TypeOK
<1>1. /\ nas[s].phase = "off" /\ s \in enabled /\ nas'[s].phase = "up"
      /\ \A t \in Sessions \ {s} : nas'[t] = nas[t]
      /\ UNCHANGED <<row, job, blurred, escaped, enabled, latest>>
  BY <1>t DEF At, Connect, account
<1>2. TypeOK'
  BY <1>t, <1>1 DEF TypeOK, Connect, account, NasStates, Rows
<1>3. \A v \in Workers : JobOK(v)'
  BY <1>1 DEF IInv, JobOK, At
<1>4. \A t \in Sessions : RowOK(t)'
  BY <1>1 DEF IInv, RowOK, JobOK, At
<1>5. \A t \in Sessions : Applied(t)'
  BY <1>1 DEF IInv, Applied, Exchange, JobOK, RowOK, At
<1>6. \A t \in Sessions : Current(t)'
  BY <1>1 DEF IInv, Current, JobOK, RowOK, At
<1>7. \A u, v \in Workers : Exchange(u, v)'
  BY <1>1 DEF IInv, Exchange, Applied, JobOK, RowOK, At
<1> QED
  BY <1>2, <1>3, <1>4, <1>5, <1>6, <1>7 DEF IInv

LEMMA HangUpKeeps ==
  ASSUME IInv, NEW s \in Sessions, HangUp(s)
  PROVE  IInv'
<1>t. TypeOK /\ nas \in [Sessions -> NasStates] /\ row \in [Sessions -> Rows]
      /\ job \in [Workers -> Jobs]
  BY DEF IInv, TypeOK
<1>c. nas' = [nas EXCEPT ![s] = Down]
  BY <1>t DEF HangUp
<1>1. /\ nas[s].phase = "up" /\ nas'[s].phase = "down"
      /\ \A t \in Sessions \ {s} : nas'[t] = nas[t]
      /\ UNCHANGED <<row, job, blurred, escaped, enabled, latest>>
      /\ nas' \in [Sessions -> NasStates]
  BY <1>t, <1>c, NasDown DEF At, HangUp, account
<1>2. TypeOK'
  BY <1>t, <1>c, <1>1 DEF TypeOK, HangUp, account
<1>3. \A v \in Workers : JobOK(v)'
  BY <1>1 DEF IInv, JobOK, At
<1>4. \A t \in Sessions : RowOK(t)'
  BY <1>1 DEF IInv, RowOK, JobOK, At
<1>5. \A t \in Sessions : Applied(t)'
  BY <1>1 DEF IInv, Applied, Exchange, JobOK, RowOK, At
<1>6. \A t \in Sessions : Current(t)'
  BY <1>1 DEF IInv, Current, JobOK, RowOK, At
<1>7. \A u, v \in Workers : Exchange(u, v)'
  BY <1>1 DEF IInv, Exchange, Applied, JobOK, RowOK, At
<1> QED
  BY <1>2, <1>3, <1>4, <1>5, <1>6, <1>7 DEF IInv

LEMMA PolicyMovesKeeps ==
  ASSUME IInv, NEW s \in Sessions, PolicyMoves(s)
  PROVE  IInv'
<1>t. TypeOK /\ nas \in [Sessions -> NasStates] /\ row \in [Sessions -> Rows]
      /\ job \in [Workers -> Jobs]
  BY DEF IInv, TypeOK
<1>c. PICK r \in (Rates \cup {"blocked"}) \ {policy[s]} : policy' = [policy EXCEPT ![s] = r]
  BY <1>t DEF PolicyMoves
<1>1. /\ UNCHANGED <<nas, row, job, blurred, escaped, enabled, latest>>
  BY <1>t, <1>c DEF At, PolicyMoves, account
<1>2. TypeOK'
  BY <1>t, <1>c, <1>1 DEF TypeOK, PolicyMoves, account, NasStates, Rows
<1>3. \A v \in Workers : JobOK(v)'
  BY <1>1 DEF IInv, JobOK, At
<1>4. \A t \in Sessions : RowOK(t)'
  BY <1>1 DEF IInv, RowOK, JobOK, At
<1>5. \A t \in Sessions : Applied(t)'
  BY <1>1 DEF IInv, Applied, Exchange, JobOK, RowOK, At
<1>6. \A t \in Sessions : Current(t)'
  BY <1>1 DEF IInv, Current, JobOK, RowOK, At
<1>7. \A u, v \in Workers : Exchange(u, v)'
  BY <1>1 DEF IInv, Exchange, Applied, JobOK, RowOK, At
<1> QED
  BY <1>2, <1>3, <1>4, <1>5, <1>6, <1>7 DEF IInv

LEMMA IngestFirstKeeps ==
  ASSUME IInv, NEW s \in Sessions, IngestFirst(s)
  PROVE  IInv'
<1>t. TypeOK /\ nas \in [Sessions -> NasStates] /\ row \in [Sessions -> Rows]
      /\ job \in [Workers -> Jobs]
  BY DEF IInv, TypeOK
<1>c. PICK sub \in {0, latest[s]} :
        row' = [row EXCEPT ![s] = [status |-> "ACTIVE",
                                   sub |-> sub,
                                   rate |-> IF sub = 0 THEN "" ELSE InitialRate(s)]]
  BY <1>t DEF IngestFirst, Resolved
<1>i. InitialRate(s) \in Rates \cup {""}
  BY <1>t DEF TypeOK, InitialRate
<1>l. latest[s] \in 0 .. MaxSub /\ 0 \in 0 .. MaxSub
  <2>1. latest[s] \in 1 .. MaxSub
    BY <1>t DEF TypeOK
  <2> QED
    BY <2>1, MaxSubAssumption
<1>r. /\ row'[s].status = "ACTIVE" /\ row'[s].sub \in {0, latest[s]}
      /\ \A t \in Sessions \ {s} : row'[t] = row[t]
      /\ row' \in [Sessions -> Rows]
  BY <1>t, <1>c, <1>i, <1>l DEF Rows
<1>b. blurred' = IF row'[s].rate = nas[s].rate THEN blurred \ {s} ELSE blurred \cup {s}
  BY DEF IngestFirst
<1>1. /\ nas[s].phase # "off" /\ row[s].status = "NONE" /\ row'[s].status = "ACTIVE"
      /\ row'[s].sub \in {0, latest[s]}
      /\ \A t \in Sessions \ {s} : row'[t] = row[t]
      /\ s \in blurred' \/ row'[s].rate = nas[s].rate
      /\ \A t \in Sessions \ {s} : t \in blurred' <=> t \in blurred
      /\ UNCHANGED <<nas, job, escaped, enabled, latest>>
      /\ row' \in [Sessions -> Rows]
  BY <1>r, <1>b DEF IngestFirst, account
<1>2. TypeOK'
  BY <1>t, <1>1, <1>b DEF TypeOK, IngestFirst, account
<1>3. \A v \in Workers : JobOK(v)'
  BY <1>1 DEF IInv, JobOK, At
<1>4. \A t \in Sessions : RowOK(t)'
  BY <1>1 DEF IInv, RowOK, JobOK, At
<1>5. \A t \in Sessions : Applied(t)'
  BY <1>1 DEF IInv, Applied, Exchange, JobOK, RowOK, At
<1>6. \A t \in Sessions : Current(t)'
  BY <1>1 DEF IInv, Current, JobOK, RowOK, At
<1>7. \A u, v \in Workers : Exchange(u, v)'
  BY <1>1 DEF IInv, Exchange, Applied, JobOK, RowOK, At
<1> QED
  BY <1>2, <1>3, <1>4, <1>5, <1>6, <1>7 DEF IInv

LEMMA IngestStopKeeps ==
  ASSUME IInv, NEW s \in Sessions, IngestStop(s)
  PROVE  IInv'
<1>t. TypeOK /\ nas \in [Sessions -> NasStates] /\ row \in [Sessions -> Rows]
      /\ job \in [Workers -> Jobs]
  BY DEF IInv, TypeOK
<1>c. row' = [row EXCEPT ![s].status = "STOPPED"]
  BY <1>t DEF IngestStop
<1>1. /\ row[s].status = "ACTIVE" /\ row'[s].status = "STOPPED"
      /\ row'[s].sub = row[s].sub
      /\ \A t \in Sessions \ {s} : row'[t] = row[t]
      /\ UNCHANGED <<nas, job, blurred, escaped, enabled, latest>>
      /\ row' \in [Sessions -> Rows]
  BY <1>t, <1>c, RowStatus DEF At, IngestStop, account
<1>2. TypeOK'
  BY <1>t, <1>c, <1>1 DEF TypeOK, IngestStop, account
<1>3. \A v \in Workers : JobOK(v)'
  BY <1>1 DEF IInv, JobOK, At
<1>4. \A t \in Sessions : RowOK(t)'
  BY <1>1 DEF IInv, RowOK, JobOK, At
<1>5. \A t \in Sessions : Applied(t)'
  BY <1>1 DEF IInv, Applied, Exchange, JobOK, RowOK, At
<1>6. \A t \in Sessions : Current(t)'
  BY <1>1 DEF IInv, Current, JobOK, RowOK, At
<1>7. \A u, v \in Workers : Exchange(u, v)'
  BY <1>1 DEF IInv, Exchange, Applied, JobOK, RowOK, At
<1> QED
  BY <1>2, <1>3, <1>4, <1>5, <1>6, <1>7 DEF IInv

LEMMA EnableKeeps ==
  ASSUME IInv, NEW s \in Sessions, Enable(s)
  PROVE  IInv'
<1>t. TypeOK /\ nas \in [Sessions -> NasStates] /\ row \in [Sessions -> Rows]
      /\ job \in [Workers -> Jobs]
  BY DEF IInv, TypeOK
<1>1. /\ enabled \subseteq enabled'
      /\ UNCHANGED <<nas, row, job, blurred, escaped, latest>>
  BY <1>t DEF At, Enable, account
<1>2. TypeOK'
  BY <1>t, <1>1 DEF TypeOK, Enable, account, NasStates, Rows
<1>3. \A v \in Workers : JobOK(v)'
  BY <1>1 DEF IInv, JobOK, At
<1>4. \A t \in Sessions : RowOK(t)'
  BY <1>1 DEF IInv, RowOK, JobOK, At
<1>5. \A t \in Sessions : Applied(t)'
  BY <1>1 DEF IInv, Applied, Exchange, JobOK, RowOK, At
<1>6. \A t \in Sessions : Current(t)'
  BY <1>1 DEF IInv, Current, JobOK, RowOK, At
<1>7. \A u, v \in Workers : Exchange(u, v)'
  BY <1>1 DEF IInv, Exchange, Applied, JobOK, RowOK, At
<1> QED
  BY <1>2, <1>3, <1>4, <1>5, <1>6, <1>7 DEF IInv

LEMMA BeginKeeps ==
  ASSUME IInv, NEW w \in Workers, NEW s \in Sessions,
         NEW step \in {"evaluate", "disconnect"}, Begin(w, s, step)
  PROVE  IInv'
<1>t. TypeOK /\ nas \in [Sessions -> NasStates] /\ row \in [Sessions -> Rows]
      /\ job \in [Workers -> Jobs]
  BY DEF IInv, TypeOK
<1>d. PICK rate \in Rates \cup {""} : Do(w, step, s, rate)
  <2>1. row[s].rate \in Rates \cup {""}
    BY <1>t DEF Rows
  <2>2. Do(w, step, s, IF step = "evaluate" THEN row[s].rate ELSE "")
    BY DEF Begin
  <2> QED
    BY <2>1, <2>2
<1>x. step \in Steps /\ step \notin {"idle", "list", "record", "cut"}
  BY DEF Steps
<1>e. /\ job' \in [Workers -> Jobs]
      /\ job'[w].step = step
      /\ job'[w].session = s
      /\ \A v \in Workers \ {w} : job'[v] = job[v]
  BY <1>t, <1>d, <1>x, DoJob
<1>1. /\ At(w, "idle") /\ row[s].status = "ACTIVE"
      /\ UNCHANGED <<nas, row, blurred, escaped, enabled, latest>>
  BY <1>t, <1>e DEF At, Begin, account
<1>2. TypeOK'
  BY <1>t, <1>e, <1>1 DEF TypeOK, Begin, account, NasStates, Rows
<1>3. \A v \in Workers : JobOK(v)'
  BY <1>1, <1>e, <1>x DEF IInv, JobOK, At
<1>4. \A t \in Sessions : RowOK(t)'
  BY <1>1, <1>e, <1>x DEF IInv, RowOK, JobOK, At
<1>u. \A v \in Workers : ~At(v, "idle") => job'[v] = job[v]
  BY <1>1, <1>e DEF At
<1>5. ASSUME NEW t \in Sessions PROVE Applied(t)'
  <2>1. Applied(t)
    BY DEF IInv
  <2> QED
    BY <1>1, <1>u, <2>1 DEF Applied, At
<1>6. ASSUME NEW t \in Sessions PROVE Current(t)'
  <2>1. Current(t)
    BY DEF IInv
  <2> QED
    BY <1>1, <1>u, <2>1 DEF Current, At
<1>7. ASSUME NEW u \in Workers, NEW v \in Workers PROVE Exchange(u, v)'
  <2>1. CASE u = w \/ v = w
    BY <1>e, <1>x, <2>1 DEF Exchange, At
  <2>2. CASE u # w /\ v # w
    <3>1. Exchange(u, v) /\ job'[u] = job[u] /\ job'[v] = job[v]
      BY <1>e, <2>2 DEF IInv
    <3> QED
      BY <1>1, <3>1 DEF Exchange, At
  <2> QED
    BY <2>1, <2>2
<1> QED
  BY <1>2, <1>3, <1>4, <1>5, <1>6, <1>7 DEF IInv

LEMMA BeginRenewKeeps ==
  ASSUME IInv, NEW w \in Workers, NEW s \in Sessions, BeginRenew(w, s)
  PROVE  IInv'
<1>t. TypeOK /\ nas \in [Sessions -> NasStates] /\ row \in [Sessions -> Rows]
      /\ job \in [Workers -> Jobs]
  BY DEF IInv, TypeOK
<1>d. Do(w, "list", s, "")
  BY <1>t DEF BeginRenew
<1>e. /\ job' \in [Workers -> Jobs]
      /\ job'[w].step = "list"
      /\ job'[w].session = s
      /\ \A v \in Workers \ {w} : job'[v] = job[v]
  BY <1>t, <1>d, DoJob DEF Steps
<1>c. latest[s] + 1 \in 1 .. MaxSub /\ latest' = [latest EXCEPT ![s] = latest[s] + 1]
  <2>1. latest[s] \in 1 .. MaxSub
    BY <1>t DEF TypeOK
  <2>2. latest[s] < MaxSub /\ latest' = [latest EXCEPT ![s] = latest[s] + 1]
    BY DEF BeginRenew
  <2> QED
    BY <2>1, <2>2, MaxSubAssumption
<1>1. /\ At(w, "idle")
      /\ \A t \in Sessions \ {s} : latest'[t] = latest[t]
      /\ UNCHANGED <<nas, row, blurred, escaped, enabled>>
  BY <1>t, <1>c DEF TypeOK, BeginRenew
<1>2. TypeOK'
  <2>1. latest' \in [Sessions -> 1 .. MaxSub]
    BY <1>t, <1>c DEF TypeOK
  <2> QED
    BY <1>t, <1>e, <1>1, <2>1 DEF TypeOK, BeginRenew
<1>3. \A v \in Workers : JobOK(v)'
  BY <1>1, <1>e DEF IInv, JobOK, At
<1>4. \A t \in Sessions : RowOK(t)'
  BY <1>1, <1>e DEF IInv, RowOK, JobOK, At
<1>5. \A t \in Sessions : Applied(t)'
  BY <1>1, <1>e DEF IInv, Applied, Exchange, JobOK, RowOK, At
<1>6. \A t \in Sessions : Current(t)'
  BY <1>1, <1>e DEF IInv, Current, JobOK, RowOK, At
<1>7. \A u, v \in Workers : Exchange(u, v)'
  BY <1>1, <1>e DEF IInv, Exchange, Applied, JobOK, RowOK, At
<1> QED
  BY <1>2, <1>3, <1>4, <1>5, <1>6, <1>7 DEF IInv

LEMMA BeginDisableKeeps ==
  ASSUME IInv, NEW w \in Workers, NEW s \in Sessions, BeginDisable(w, s)
  PROVE  IInv'
<1>t. TypeOK /\ nas \in [Sessions -> NasStates] /\ row \in [Sessions -> Rows]
      /\ job \in [Workers -> Jobs]
  BY DEF IInv, TypeOK
<1>d. Do(w, "list", s, "")
  BY <1>t DEF TypeOK, Jobs, BeginDisable
<1>e. /\ job' \in [Workers -> Jobs]
      /\ job'[w].step = "list"
      /\ job'[w].session = s
      /\ \A v \in Workers \ {w} : job'[v] = job[v]
  BY <1>t, <1>d, DoJob DEF Steps
<1>1. /\ At(w, "idle")
      /\ \A t \in Sessions \ {s} : t \in enabled' <=> t \in enabled
      /\ UNCHANGED <<nas, row, blurred, escaped, latest>>
  BY <1>t, <1>e DEF At, BeginDisable
<1>2. TypeOK'
  BY <1>t, <1>e, <1>1 DEF TypeOK, BeginDisable, NasStates, Rows
<1>3. \A v \in Workers : JobOK(v)'
  BY <1>1, <1>e DEF IInv, JobOK, At
<1>4. \A t \in Sessions : RowOK(t)'
  BY <1>1, <1>e DEF IInv, RowOK, JobOK, At
<1>5. \A t \in Sessions : Applied(t)'
  BY <1>1, <1>e DEF IInv, Applied, Exchange, JobOK, RowOK, At
<1>6. \A t \in Sessions : Current(t)'
  BY <1>1, <1>e DEF IInv, Current, JobOK, RowOK, At
<1>7. \A u, v \in Workers : Exchange(u, v)'
  BY <1>1, <1>e DEF IInv, Exchange, Applied, JobOK, RowOK, At
<1> QED
  BY <1>2, <1>3, <1>4, <1>5, <1>6, <1>7 DEF IInv

LEMMA EvaluateKeeps ==
  ASSUME IInv, NEW w \in Workers, Evaluate(w)
  PROVE  IInv'
<1> DEFINE s == job[w].session
<1>s. s \in Sessions
  BY DEF IInv, JobOK, Evaluate, At
<1>t. TypeOK /\ nas \in [Sessions -> NasStates] /\ row \in [Sessions -> Rows]
      /\ job \in [Workers -> Jobs]
  BY DEF IInv, TypeOK
<1>d. \/ Finish(w)
      \/ Do(w, "disconnect", s, "")
      \/ policy[s] \in Rates /\ Do(w, "coa", s, policy[s])
  <2>1. policy[s] \in Rates \cup {"blocked"}
    BY <1>t, <1>s DEF TypeOK
  <2> QED
    BY <2>1 DEF Evaluate
<1>e. /\ job' \in [Workers -> Jobs]
      /\ \/ job'[w].step = "idle"
         \/ job'[w].step \in {"coa", "disconnect"} /\ job'[w].session = s
      /\ \A v \in Workers \ {w} : job'[v] = job[v]
  <2>1. CASE Finish(w)
    BY <1>t, <2>1, FinishJob
  <2>2. CASE Do(w, "disconnect", s, "")
    BY <1>t, <1>s, <2>2, DoJob DEF Steps
  <2>3. CASE policy[s] \in Rates /\ Do(w, "coa", s, policy[s])
    <3>1. PICK r \in Rates \cup {""} : Do(w, "coa", s, r)
      BY <2>3
    <3> QED
      BY <1>t, <1>s, <3>1, DoJob DEF Steps
  <2> QED
    BY <1>d, <2>1, <2>2, <2>3
<1>1. /\ At(w, "evaluate")
      /\ UNCHANGED <<nas, row, blurred, escaped, enabled, latest>>
  BY <1>s, <1>t, <1>e DEF At, Evaluate, account
<1>2. TypeOK'
  BY <1>s, <1>t, <1>e, <1>1 DEF TypeOK, Evaluate, account, NasStates, Rows
<1>3. \A v \in Workers : JobOK(v)'
  BY <1>1, <1>e, <1>s DEF IInv, JobOK, At
<1>4. \A t \in Sessions : RowOK(t)'
  BY <1>1, <1>e, <1>s DEF IInv, RowOK, JobOK, At
<1>5. \A t \in Sessions : Applied(t)'
  BY <1>1, <1>e, <1>s DEF IInv, Applied, Exchange, JobOK, RowOK, At
<1>6. \A t \in Sessions : Current(t)'
  BY <1>1, <1>e, <1>s DEF IInv, Current, JobOK, RowOK, At
<1>7. \A u, v \in Workers : Exchange(u, v)'
  BY <1>1, <1>e, <1>s DEF IInv, Exchange, Applied, JobOK, RowOK, At
<1> QED
  BY <1>2, <1>3, <1>4, <1>5, <1>6, <1>7 DEF IInv

LEMMA CoaAckedKeeps ==
  ASSUME IInv, NEW w \in Workers, CoaAcked(w)
  PROVE  IInv'
<1> DEFINE s == job[w].session
<1>s. s \in Sessions
  BY DEF IInv, JobOK, CoaAcked, At
<1>t. TypeOK /\ nas \in [Sessions -> NasStates] /\ row \in [Sessions -> Rows]
      /\ job \in [Workers -> Jobs]
  BY DEF IInv, TypeOK
<1>d. job[w].rate \in Rates \cup {""} /\ Do(w, "record", s, job[w].rate)
  BY <1>t, <1>s DEF TypeOK, Jobs, CoaAcked, account, Unrecorded
<1>e. /\ job' \in [Workers -> Jobs]
      /\ job'[w].step = "record"
      /\ job'[w].session = s /\ job'[w].rate = job[w].rate
      /\ \A v \in Workers \ {w} : job'[v] = job[v]
  <2>1. "record" \in Steps
    BY DEF Steps
  <2> QED
    BY <1>t, <1>d, <1>s, <2>1, DoJob
<1>c. job[w].rate \in Rates \cup {""} /\ nas' = [nas EXCEPT ![s].rate = job[w].rate]
  BY <1>s, <1>t DEF CoaAcked, Jobs
<1>1. /\ At(w, "coa") /\ nas[s].phase = "up" /\ nas'[s].phase = "up"
      /\ \A t \in Sessions \ {s} : nas'[t] = nas[t]
      /\ blurred \subseteq blurred' /\ blurred' \subseteq blurred \cup {s}
      /\ \A v \in Workers \ {w} : At(v, "record") /\ job[v].session = s => s \in blurred'
      /\ UNCHANGED <<row, escaped, enabled, latest>>
      /\ nas'[s].rate = job'[w].rate
      /\ nas' \in [Sessions -> NasStates]
  <2>1. /\ nas' \in [Sessions -> NasStates] /\ nas'[s].phase = nas[s].phase
        /\ nas'[s].rate = job'[w].rate /\ \A t \in Sessions \ {s} : nas'[t] = nas[t]
    BY <1>s, <1>t, <1>c, <1>e, NasRate
  <2> QED
    BY <2>1 DEF At, CoaAcked, account, Unrecorded
<1>2. TypeOK'
  BY <1>s, <1>t, <1>e, <1>c, <1>1 DEF TypeOK, CoaAcked, account
<1>3. \A v \in Workers : JobOK(v)'
  BY <1>1, <1>e, <1>s DEF IInv, JobOK, At
<1>4. \A t \in Sessions : RowOK(t)'
  BY <1>1, <1>e, <1>s DEF IInv, RowOK, JobOK, At
<1>5. \A t \in Sessions : Applied(t)'
  BY <1>1, <1>e, <1>s DEF IInv, Applied, Exchange, JobOK, RowOK, At
<1>6. \A t \in Sessions : Current(t)'
  BY <1>1, <1>e, <1>s DEF IInv, Current, JobOK, RowOK, At
<1>7. \A u, v \in Workers : Exchange(u, v)'
  BY <1>1, <1>e, <1>s DEF IInv, Exchange, Applied, JobOK, RowOK, At
<1> QED
  BY <1>2, <1>3, <1>4, <1>5, <1>6, <1>7 DEF IInv

LEMMA CoaFailedKeeps ==
  ASSUME IInv, NEW w \in Workers, CoaFailed(w)
  PROVE  IInv'
<1> DEFINE s == job[w].session
<1>s. s \in Sessions
  BY DEF IInv, JobOK, CoaFailed, At
<1>t. TypeOK /\ nas \in [Sessions -> NasStates] /\ row \in [Sessions -> Rows]
      /\ job \in [Workers -> Jobs]
  BY DEF IInv, TypeOK
<1>d. Do(w, "disconnect", s, "")
  BY <1>t, <1>s DEF TypeOK, Jobs, CoaFailed, account, MayApply
<1>e. /\ job' \in [Workers -> Jobs]
      /\ job'[w].step = "disconnect"
      /\ job'[w].session = s
      /\ \A v \in Workers \ {w} : job'[v] = job[v]
  BY <1>t, <1>d, <1>s, DoJob DEF Steps
<1>c. /\ job[w].rate \in Rates \cup {""}
      /\ nas' = nas \/ nas' = [nas EXCEPT ![s].rate = job[w].rate]
  BY <1>s, <1>t DEF CoaFailed, MayApply, Jobs
<1>1. /\ At(w, "coa")
      /\ nas'[s].phase = nas[s].phase
      /\ \A t \in Sessions \ {s} : nas'[t] = nas[t]
      /\ blurred \subseteq blurred' /\ blurred' \subseteq blurred \cup {s}
      /\ s \in blurred' \/ nas'[s] = nas[s]
      /\ UNCHANGED <<row, escaped, enabled, latest>>
      /\ nas' \in [Sessions -> NasStates]
  BY <1>s, <1>t, <1>e, <1>c, NasRate DEF At, CoaFailed, account, MayApply
<1>2. TypeOK'
  BY <1>s, <1>t, <1>e, <1>c, <1>1 DEF TypeOK, CoaFailed, account
<1>3. \A v \in Workers : JobOK(v)'
  BY <1>1, <1>e, <1>s DEF IInv, JobOK, At
<1>4. \A t \in Sessions : RowOK(t)'
  BY <1>1, <1>e, <1>s DEF IInv, RowOK, JobOK, At
<1>5. \A t \in Sessions : Applied(t)'
  BY <1>1, <1>e, <1>s DEF IInv, Applied, Exchange, JobOK, RowOK, At
<1>6. \A t \in Sessions : Current(t)'
  BY <1>1, <1>e, <1>s DEF IInv, Current, JobOK, RowOK, At
<1>7. \A u, v \in Workers : Exchange(u, v)'
  BY <1>1, <1>e, <1>s DEF IInv, Exchange, Applied, JobOK, RowOK, At
<1> QED
  BY <1>2, <1>3, <1>4, <1>5, <1>6, <1>7 DEF IInv

LEMMA RecordRateKeeps ==
  ASSUME IInv, NEW w \in Workers, RecordRate(w)
  PROVE  IInv'
<1> DEFINE s == job[w].session
<1>s. s \in Sessions
  BY DEF IInv, JobOK, RecordRate, At
<1>t. TypeOK /\ nas \in [Sessions -> NasStates] /\ row \in [Sessions -> Rows]
      /\ job \in [Workers -> Jobs]
  BY DEF IInv, TypeOK
<1>d. Finish(w) /\ job[w].rate \in Rates \cup {""}
  BY <1>t, <1>s DEF TypeOK, Jobs, RecordRate, account
<1>e. /\ job' \in [Workers -> Jobs]
      /\ job'[w].step = "idle"
      /\ \A v \in Workers \ {w} : job'[v] = job[v]
  BY <1>t, <1>d, <1>s, FinishJob DEF Steps
<1>c. job[w].rate \in Rates \cup {""} /\ row' = [row EXCEPT ![s].rate = job[w].rate]
  BY <1>s, <1>t DEF RecordRate, Jobs
<1>1. /\ At(w, "record")
      /\ row'[s].rate = job[w].rate /\ row'[s].status = row[s].status /\ row'[s].sub = row[s].sub
      /\ \A t \in Sessions \ {s} : row'[t] = row[t]
      /\ UNCHANGED <<nas, blurred, escaped, enabled, latest>>
      /\ row' \in [Sessions -> Rows]
  BY <1>s, <1>t, <1>e, <1>c, RowRate DEF At, RecordRate, account
<1>2. TypeOK'
  BY <1>s, <1>t, <1>e, <1>c, <1>1 DEF TypeOK, RecordRate, account
<1>3. \A v \in Workers : JobOK(v)'
  BY <1>1, <1>e, <1>s DEF IInv, JobOK, At
<1>4. \A t \in Sessions : RowOK(t)'
  BY <1>1, <1>e, <1>s DEF IInv, RowOK, JobOK, At
<1>5. \A t \in Sessions : Applied(t)'
  BY <1>1, <1>e, <1>s DEF IInv, Applied, Exchange, JobOK, RowOK, At
<1>6. \A t \in Sessions : Current(t)'
  BY <1>1, <1>e, <1>s DEF IInv, Current, JobOK, RowOK, At
<1>7. \A u, v \in Workers : Exchange(u, v)'
  BY <1>1, <1>e, <1>s DEF IInv, Exchange, Applied, JobOK, RowOK, At
<1> QED
  BY <1>2, <1>3, <1>4, <1>5, <1>6, <1>7 DEF IInv

LEMMA DisconnectAckedKeeps ==
  ASSUME IInv, NEW w \in Workers, DisconnectAcked(w)
  PROVE  IInv'
<1> DEFINE s == job[w].session
<1>s. s \in Sessions
  BY DEF IInv, JobOK, DisconnectAcked, At
<1>t. TypeOK /\ nas \in [Sessions -> NasStates] /\ row \in [Sessions -> Rows]
      /\ job \in [Workers -> Jobs]
  BY DEF IInv, TypeOK
<1>d. Finish(w)
  BY <1>t, <1>s DEF TypeOK, Jobs, DisconnectAcked, account, Down
<1>e. /\ job' \in [Workers -> Jobs]
      /\ job'[w].step = "idle"
      /\ \A v \in Workers \ {w} : job'[v] = job[v]
  BY <1>t, <1>d, <1>s, FinishJob DEF Steps
<1>c. nas' = [nas EXCEPT ![s] = Down]
  BY <1>s, <1>t DEF DisconnectAcked
<1>1. /\ ~At(w, "idle") /\ ~At(w, "record")
      /\ nas[s].phase = "up" /\ nas'[s].phase = "down"
      /\ \A t \in Sessions \ {s} : nas'[t] = nas[t]
      /\ UNCHANGED <<row, blurred, escaped, enabled, latest>>
      /\ nas' \in [Sessions -> NasStates]
  BY <1>s, <1>t, <1>e, <1>c, NasDown DEF At, DisconnectAcked, account
<1>2. TypeOK'
  BY <1>s, <1>t, <1>e, <1>c, <1>1 DEF TypeOK, DisconnectAcked, account
<1>3. \A v \in Workers : JobOK(v)'
  BY <1>1, <1>e, <1>s DEF IInv, JobOK, At
<1>4. \A t \in Sessions : RowOK(t)'
  BY <1>1, <1>e, <1>s DEF IInv, RowOK, JobOK, At
<1>5. \A t \in Sessions : Applied(t)'
  BY <1>1, <1>e, <1>s DEF IInv, Applied, Exchange, JobOK, RowOK, At
<1>6. \A t \in Sessions : Current(t)'
  BY <1>1, <1>e, <1>s DEF IInv, Current, JobOK, RowOK, At
<1>7. \A u, v \in Workers : Exchange(u, v)'
  BY <1>1, <1>e, <1>s DEF IInv, Exchange, Applied, JobOK, RowOK, At
<1> QED
  BY <1>2, <1>3, <1>4, <1>5, <1>6, <1>7 DEF IInv

LEMMA DisconnectFailedKeeps ==
  ASSUME IInv, NEW w \in Workers, DisconnectFailed(w)
  PROVE  IInv'
<1> DEFINE s == job[w].session
<1>s. s \in Sessions
  BY DEF IInv, JobOK, DisconnectFailed, At
<1>t. TypeOK /\ nas \in [Sessions -> NasStates] /\ row \in [Sessions -> Rows]
      /\ job \in [Workers -> Jobs]
  BY DEF IInv, TypeOK
<1>d. Finish(w)
  BY <1>t, <1>s DEF TypeOK, Jobs, DisconnectFailed, account, Down
<1>e. /\ job' \in [Workers -> Jobs]
      /\ job'[w].step = "idle"
      /\ \A v \in Workers \ {w} : job'[v] = job[v]
  BY <1>t, <1>d, <1>s, FinishJob DEF Steps
<1>c. nas' = nas \/ nas' = [nas EXCEPT ![s] = Down]
  BY <1>s, <1>t DEF DisconnectFailed
<1>1. /\ job[w].step \in {"disconnect", "cut"}
      /\ nas'[s] = nas[s] \/ nas'[s].phase = "down"
      /\ \A t \in Sessions \ {s} : nas'[t] = nas[t]
      /\ escaped \subseteq escaped' /\ escaped' \subseteq escaped \cup {s}
      /\ At(w, "cut") /\ nas'[s].phase = "up" => s \in escaped'
      /\ UNCHANGED <<row, blurred, enabled, latest>>
      /\ nas' \in [Sessions -> NasStates]
  BY <1>s, <1>t, <1>e, <1>c, NasDown DEF At, DisconnectFailed, account
<1>2. TypeOK'
  BY <1>s, <1>t, <1>e, <1>c, <1>1 DEF TypeOK, DisconnectFailed, account
<1>3. \A v \in Workers : JobOK(v)'
  BY <1>1, <1>e, <1>s DEF IInv, JobOK, At
<1>4. \A t \in Sessions : RowOK(t)'
  BY <1>1, <1>e, <1>s DEF IInv, RowOK, JobOK, At
<1>5. \A t \in Sessions : Applied(t)'
  BY <1>1, <1>e, <1>s DEF IInv, Applied, Exchange, JobOK, RowOK, At
<1>6. \A t \in Sessions : Current(t)'
  BY <1>1, <1>e, <1>s DEF IInv, Current, JobOK, RowOK, At
<1>7. \A u, v \in Workers : Exchange(u, v)'
  BY <1>1, <1>e, <1>s DEF IInv, Exchange, Applied, JobOK, RowOK, At
<1> QED
  BY <1>2, <1>3, <1>4, <1>5, <1>6, <1>7 DEF IInv

LEMMA KillKeeps ==
  ASSUME IInv, NEW w \in Workers, Kill(w)
  PROVE  IInv'
<1> DEFINE s == job[w].session
<1>s. s \in Sessions
  BY DEF IInv, JobOK, Kill, At
<1>t. TypeOK /\ nas \in [Sessions -> NasStates] /\ row \in [Sessions -> Rows]
      /\ job \in [Workers -> Jobs]
  BY DEF IInv, TypeOK
<1>d. Finish(w)
  BY <1>t, <1>s DEF TypeOK, Jobs, Kill, account
<1>e. /\ job' \in [Workers -> Jobs]
      /\ job'[w].step = "idle"
      /\ \A v \in Workers \ {w} : job'[v] = job[v]
  BY <1>t, <1>d, <1>s, FinishJob DEF Steps
<1>1. /\ ~At(w, "idle")
      /\ escaped \subseteq escaped' /\ blurred \subseteq blurred'
      /\ escaped' \subseteq escaped \cup {s} /\ blurred' \subseteq blurred \cup {s}
      /\ (At(w, "list") \/ At(w, "cut")) /\ nas[s].phase = "up" => s \in escaped'
      /\ At(w, "record") => s \in blurred'
      /\ UNCHANGED <<nas, row, enabled, latest>>
  BY <1>s, <1>t, <1>e DEF At, Kill, account
<1>2. TypeOK'
  BY <1>s, <1>t, <1>e, <1>1 DEF TypeOK, Kill, account, NasStates, Rows
<1>3. \A v \in Workers : JobOK(v)'
  BY <1>1, <1>e, <1>s DEF IInv, JobOK, At
<1>4. \A t \in Sessions : RowOK(t)'
  BY <1>1, <1>e, <1>s DEF IInv, RowOK, JobOK, At
<1>5. \A t \in Sessions : Applied(t)'
  BY <1>1, <1>e, <1>s DEF IInv, Applied, Exchange, JobOK, RowOK, At
<1>6. \A t \in Sessions : Current(t)'
  BY <1>1, <1>e, <1>s DEF IInv, Current, JobOK, RowOK, At
<1>7. \A u, v \in Workers : Exchange(u, v)'
  BY <1>1, <1>e, <1>s DEF IInv, Exchange, Applied, JobOK, RowOK, At
<1> QED
  BY <1>2, <1>3, <1>4, <1>5, <1>6, <1>7 DEF IInv

LEMMA ListKeeps ==
  ASSUME IInv, NEW w \in Workers, List(w)
  PROVE  IInv'
<1> DEFINE s == job[w].session
<1>s. s \in Sessions
  BY DEF IInv, JobOK, List, At
<1>t. TypeOK /\ nas \in [Sessions -> NasStates] /\ row \in [Sessions -> Rows]
      /\ job \in [Workers -> Jobs]
  BY DEF IInv, TypeOK
<1>d. \/ Finish(w) /\ (nas[s].phase = "up" => s \in escaped')
      \/ row[s].status = "ACTIVE" /\ Do(w, "cut", s, "")
  BY DEF List
<1>e. /\ job' \in [Workers -> Jobs]
      /\ \/ job'[w].step = "idle" /\ (nas[s].phase = "up" => s \in escaped')
         \/ job'[w].step = "cut" /\ job'[w].session = s /\ row[s].status = "ACTIVE"
      /\ \A v \in Workers \ {w} : job'[v] = job[v]
  BY <1>t, <1>d, <1>s, DoJob, FinishJob DEF Steps
<1>1. /\ At(w, "list")
      /\ escaped \subseteq escaped' /\ escaped' \subseteq escaped \cup {s}
      /\ UNCHANGED <<nas, row, blurred, enabled, latest>>
  BY <1>s, <1>t, <1>e DEF At, List, account
<1>2. TypeOK'
  BY <1>s, <1>t, <1>e, <1>1 DEF TypeOK, List, account, NasStates, Rows
<1>3. \A v \in Workers : JobOK(v)'
  BY <1>1, <1>e, <1>s DEF IInv, JobOK, At
<1>4. \A t \in Sessions : RowOK(t)'
  BY <1>1, <1>e, <1>s DEF IInv, RowOK, JobOK, At
<1>5. \A t \in Sessions : Applied(t)'
  BY <1>1, <1>e, <1>s DEF IInv, Applied, Exchange, JobOK, RowOK, At
<1>6. \A t \in Sessions : Current(t)'
  BY <1>1, <1>e, <1>s DEF IInv, Current, JobOK, RowOK, At
<1>7. \A u, v \in Workers : Exchange(u, v)'
  BY <1>1, <1>e, <1>s DEF IInv, Exchange, Applied, JobOK, RowOK, At
<1> QED
  BY <1>2, <1>3, <1>4, <1>5, <1>6, <1>7 DEF IInv

LEMMA NextKeeps == IInv /\ [Next]_vars => IInv'
<1> SUFFICES ASSUME IInv, [Next]_vars PROVE IInv'
  OBVIOUS
<1>1. ASSUME NEW s \in Sessions, Connect(s) PROVE IInv'
  BY <1>1, ConnectKeeps
<1>2. ASSUME NEW s \in Sessions, HangUp(s) PROVE IInv'
  BY <1>2, HangUpKeeps
<1>3. ASSUME NEW s \in Sessions, PolicyMoves(s) PROVE IInv'
  BY <1>3, PolicyMovesKeeps
<1>4. ASSUME NEW s \in Sessions, IngestFirst(s) PROVE IInv'
  BY <1>4, IngestFirstKeeps
<1>5. ASSUME NEW s \in Sessions, IngestStop(s) PROVE IInv'
  BY <1>5, IngestStopKeeps
<1>6. ASSUME NEW s \in Sessions, Enable(s) PROVE IInv'
  BY <1>6, EnableKeeps
<1>7. ASSUME NEW w \in Workers, NEW s \in Sessions,
               NEW step \in {"evaluate", "disconnect"}, Begin(w, s, step)
        PROVE  IInv'
  BY <1>7, BeginKeeps
<1>8. ASSUME NEW w \in Workers, NEW s \in Sessions, BeginRenew(w, s) PROVE IInv'
  BY <1>8, BeginRenewKeeps
<1>9. ASSUME NEW w \in Workers, NEW s \in Sessions, BeginDisable(w, s) PROVE IInv'
  BY <1>9, BeginDisableKeeps
<1>10. ASSUME NEW w \in Workers, Evaluate(w) PROVE IInv'
  BY <1>10, EvaluateKeeps
<1>11. ASSUME NEW w \in Workers, CoaAcked(w) PROVE IInv'
  BY <1>11, CoaAckedKeeps
<1>12. ASSUME NEW w \in Workers, CoaFailed(w) PROVE IInv'
  BY <1>12, CoaFailedKeeps
<1>13. ASSUME NEW w \in Workers, RecordRate(w) PROVE IInv'
  BY <1>13, RecordRateKeeps
<1>14. ASSUME NEW w \in Workers, DisconnectAcked(w) PROVE IInv'
  BY <1>14, DisconnectAckedKeeps
<1>15. ASSUME NEW w \in Workers, DisconnectFailed(w) PROVE IInv'
  BY <1>15, DisconnectFailedKeeps
<1>16. ASSUME NEW w \in Workers, Kill(w) PROVE IInv'
  BY <1>16, KillKeeps
<1>17. ASSUME NEW w \in Workers, List(w) PROVE IInv'
  BY <1>17, ListKeeps
<1>18. CASE UNCHANGED vars
  BY <1>18 DEF vars, account, IInv, TypeOK, JobOK, RowOK, Exchange, Applied, Current, At
<1> QED
  BY <1>1, <1>2, <1>3, <1>4, <1>5, <1>6, <1>7, <1>8, <1>9, <1>10, 
     <1>11, <1>12, <1>13, <1>14, <1>15, <1>16, <1>17, <1>18 DEF Next, BeginInterim, BeginPackage,
     BeginRefresh, BeginDisconnect

LEMMA Invariance == Spec => []IInv
  BY InitIInv, NextKeeps, PTL DEF Spec

\* Every variable keeps its type.
THEOREM TypeCorrect == Spec => []TypeOK
<1>1. IInv => TypeOK
  BY DEF IInv
<1> QED
  BY <1>1, Invariance, PTL

\* The recorded rate is the applied one, for any number of request threads.
THEOREM RecordedRateIsAppliedHolds == Spec => []RecordedRateIsApplied
<1>1. IInv => RecordedRateIsApplied
  BY DEF IInv, Applied, RecordedRateIsApplied
<1> QED
  BY <1>1, Invariance, PTL

\* Renewing and disabling reach every session that has a row, however requests and
\* reports interleave.
THEOREM LiveSessionIsCurrentHolds == Spec => []LiveSessionIsCurrent
<1>1. IInv => LiveSessionIsCurrent
  BY DEF IInv, Current, LiveSessionIsCurrent
<1> QED
  BY <1>1, Invariance, PTL
=============================================================================
