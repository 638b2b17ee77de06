CONSTANTS
  Node <- Three
  Subscribed <- Row
  Clients = {"n1"}
  MaxItems = 9
  Window = 1
  MaxFaults = 1
  None = None
SPECIFICATION MCSpec
INVARIANT StreamsTypeOK
PROPERTIES
  SubmissionsEnd
  Arrives
CHECK_DEADLOCK FALSE
