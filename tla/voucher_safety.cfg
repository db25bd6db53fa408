CONSTANTS
  v1 = v1
  v2 = v2
  b1 = b1
  w1 = w1
  w2 = w2
  Vouchers = {v1, v2}
  Batches = {b1}
  BatchOf <- OneBatch
  Workers = {w1, w2}
  Beat = Beat
SPECIFICATION Spec
SYMMETRY Symmetry
CHECK_DEADLOCK FALSE
INVARIANTS
  OnlyUnusedDeleted
  ActivatedOnce
  DisabledBatchIsUnusable
PROPERTY ImplementsCard
