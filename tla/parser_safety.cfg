SPECIFICATION Spec
CONSTANTS
  Keys <- ThreeMessages
  NbSegments <- ThreeSegments
  ContentSize <- SmallSegments
  Tagged <- TagsFirstLast
  OptionBytes = 4
  hashKey <- HashKey
  SIZE_BUF = 4
  CLEAN_UP_PASS_SIZE = 2
  CLEAN_COUNT_MAX = 1
  EXPIRE_MSG = 1
  IndexModulus = 256
  Capacity = 1
  FailingMallocs = 0
INVARIANTS TypeOK DeliveredWhole CompleteLeaves
PROPERTIES LeavesCompleteOrOld DropsOnlyWhenFull
