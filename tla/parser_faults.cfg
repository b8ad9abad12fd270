SPECIFICATION FairSpec
CONSTANTS
  Keys <- NearAndFar
  NbSegments <- ThreeSegments
  ContentSize <- SmallSegments
  Tagged <- NoTags
  OptionBytes = 4
  hashKey <- HashKey
  SIZE_BUF = 10
  CLEAN_UP_PASS_SIZE = 5
  CLEAN_COUNT_MAX = 0
  EXPIRE_MSG = 0
  IndexModulus = 4
  Capacity = 1
  FailingMallocs = 3
INVARIANTS CountIsStored ListsSorted
PROPERTIES SweptBucketsEmpty
