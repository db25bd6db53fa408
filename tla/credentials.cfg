SPECIFICATION FairSpec
CONSTANTS
  a = a
  b = b
  blank = blank
  w1 = w1
  w2 = w2
  Names = {a, b}
  Blank = blank
  Workers = {w1, w2}
  Requests <- MCRequests
  Files <- MCFiles
  BatchSize = 2
INVARIANTS
  DisjointUnlessRaced
  ImportIsComplete
  PasswordIsReported
  ReportIsInForce
PROPERTY JobsEnd
