CONSTANTS
  w1 = w1
  w2 = w2
  Threads = {w1, w2}
  DayLength = 2
  WeekLength = 6
  MonthLengths <- Months
  ZoneOffset = 1
  BaseSpeed = 5
  Stages <- Tight
  Starts = {0, 4}
  Duration = 9
  MaxTime = 10
  MaxDelay = 2
  MaxRecords = 2
SPECIFICATION CountersSpec
SYMMETRY Symmetry
CHECK_DEADLOCK FALSE
INVARIANTS
  NeverOvercounted
  SubscriptionScopeExact
  PeriodIsNearest
  NeverTooStrict
  EscalatingStagesApply
