SPECIFICATION Spec
CONSTANTS
  Messages <- LongMessage
  DefaultMtus = {0}
  LegacyMessages <- NoMessages
INVARIANT SegmentNumbersSurvive
CHECK_DEADLOCK FALSE
