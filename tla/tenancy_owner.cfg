CONSTANTS
  t1 = t1
  u1 = u1
  u2 = u2
  w1 = w1
  w2 = w2
  Tenants = {t1}
  Users = {u1, u2}
  Platform = Platform
  Workers = {w1, w2}
  Permissions = {"manager"}
  RoleLists <- Lists
SPECIFICATION Spec
SYMMETRY Symmetry
CHECK_DEADLOCK FALSE
PROPERTIES
  OwnerLossExplained
  
  
  SuspensionHolds
