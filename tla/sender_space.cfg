SPECIFICATION Spec
CONSTANTS
  Messages <- CustomSpace
  DefaultMtus = {0}
  LegacyMessages <- NoMessages
INVARIANT SpaceSurvives
CHECK_DEADLOCK FALSE
