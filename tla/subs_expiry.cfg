CONSTANTS
  s1 = s1
  w1 = w1
  w2 = w2
  Subscribers = {s1}
  Workers = {w1}
  Beat = Beat
  MaxSubscriptions = 2
SPECIFICATION FairSpec
CHECK_DEADLOCK FALSE
PROPERTY OverIsEnded
