CONSTANTS
  w1 = w1
  w2 = w2
  Threads = {w1}
  DayLength = 2
  WeekLength = 6
  MonthLengths <- Months
  ZoneOffset = 1
  BaseSpeed = 5
  Stages <- BlockThenThrottle
  Starts = {0, 4}
  Duration = 11
  MaxTime = 10
  MaxDelay = 2
  MaxRecords = 2
SPECIFICATION CountersSpec
CHECK_DEADLOCK FALSE
INVARIANT ReachedStagesApply
