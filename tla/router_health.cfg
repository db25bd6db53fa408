SPECIFICATION FairSpec
CONSTANTS
  beat = beat
  w1 = w1
  RouterCount = 2
  Rest = {2}
  Tasks = {beat}
  Requests = {w1}
  Attempts = 2
INVARIANTS
  StatusMatchesSwitch
PROPERTY StatusFollowsDevice
