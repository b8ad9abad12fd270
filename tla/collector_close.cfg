SPECIFICATION FairSpec
CONSTANTS
  Odids = {0, 1}
  Clients = {"sample"}
  Options <- SmallOptions
  UNYTE_DEFAULT_VLEN = 1
  OUTPUT_QUEUE_SIZE = 2
  DEFAULT_NB_PARSERS = 2
  PARSER_QUEUE_SIZE = 3
  MONITORING_QUEUE_SIZE = 0
  MaxDatagrams <- FewDatagrams
PROPERTIES ClosingIsEnough
CHECK_DEADLOCK FALSE
