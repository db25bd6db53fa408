CONSTANTS
  r1 = r1
  r2 = r2
  w1 = w1
  w2 = w2
  Routers = {r1, r2}
  Addresses = {10}
  Workers = {w1, w2}
  NoRouter = NoRouter
  NoHash = NoHash
  MaxSecrets = 2
SPECIFICATION FairSpec
INVARIANTS
  FileIsTable
PROPERTIES
  OnlyPatchRevives
  RevocationArrives
