SPECIFICATION Spec
CONSTANTS
  o1 = o1
  o2 = o2
  b0 = b0
  Odids = {o1}
  Buckets = {b0}
  hash_key <- Hashes
  Cells = {x1, x2}
  Mids = {1}
  NULL = NULL
  Garbage = Garbage
  ODID_TIME_TO_LIVE = 1
  ACTIVE_ODIDS = 3
  MaxUpdates = 2
  MaxPasses = 3
  FailingMallocs = 0
INVARIANT NeverUndefined
CHECK_DEADLOCK FALSE
