SPECIFICATION FairSpec
CONSTANTS
  Requests = {r1}
  Served = {}
PROPERTIES
  CloseCompletes
  RequestsReturn
CHECK_DEADLOCK FALSE
