SPECIFICATION Spec
CONSTANTS
  Messages <- ShortAndLargeOptions
  DefaultMtus = {0, 22, 27}
  LegacyMessages <- AllEncodings
INVARIANTS
  HeadersSurvive
  SegmentNumbersSurvive
  OptionsArrive
  PayloadCovered
  FitsMtu
  CrashesOnlyOnLargeOptions
  LegacyRead
CHECK_DEADLOCK FALSE
