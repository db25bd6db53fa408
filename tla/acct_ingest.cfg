CONSTANTS
  s1 = s1
  w1 = w1
  w2 = w2
  Sessions = {s1}
  Workers = {w1, w2}
  NoWorker = NoWorker
  NoReport = NoReport
  WordSize = 2
  MaxReports = 3
  MaxInFlight = 2
  MaxBurst = 1
  MaxCrashes = 1
  CanReset = TRUE
  CanReuse = FALSE
SPECIFICATION FairSpec
CHECK_DEADLOCK FALSE
PROPERTIES
  StopClosesSession
  StartOpensSession
  ImplementsLedger
INVARIANTS
  NoOvercount
  CountedExactly
  StoppedIffStopIngested
  NoStaleWrite
  NoEventConflict
