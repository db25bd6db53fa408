CONSTANTS
  s1 = s1
  w1 = w1
  w2 = w2
  Subscribers = {s1}
  Workers = {w1, w2}
  Beat = Beat
  MaxSubscriptions = 2
SPECIFICATION Spec
SYMMETRY Symmetry
CHECK_DEADLOCK FALSE
INVARIANTS
  OneActive
  NoStaleDecision
  RenewalNotLost
PROPERTIES
  DisabledIsKept
