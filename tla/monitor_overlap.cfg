SPECIFICATION FairSpec
CONSTANTS
  o1 = o1
  o2 = o2
  b0 = b0
  Odids = {o1, o2}
  Buckets = {b0}
  hash_key <- Hashes
  Cells = {x1, x2}
  Mids = {1}
  NULL = NULL
  Garbage = Garbage
  ODID_TIME_TO_LIVE = 1
  ACTIVE_ODIDS = 1
  MaxUpdates = 2
  MaxPasses = 0
  FailingMallocs = 2
CONSTRAINT NoRemovalRace
INVARIANTS
  OnlyRacesUndefined
  IndexExact
  SummariesAddUp
PROPERTY SilentAreForgotten
CHECK_DEADLOCK FALSE
