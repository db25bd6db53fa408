CONSTANTS
  s1 = s1
  w1 = w1
  w2 = w2
  Sessions = {s1}
  Workers = {w1, w2}
  Rates = {"fast", "slow"}
  NoSession = NoSession
  MaxSub = 2
SPECIFICATION FairSpec
CHECK_DEADLOCK FALSE
INVARIANTS
  LiveSessionIsCurrent
  RecordedRateIsApplied
PROPERTIES
  BlockedIsDisconnected
  RateFollowsPolicy
