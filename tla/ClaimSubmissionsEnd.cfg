CONSTANTS
  Node <- Two
  Subscribed <- Pair
  Clients = {"n1"}
  MaxItems = 3
  Window = 1
  MaxFaults = 1
  None = None
SPECIFICATION FairSpec
PROPERTY SubmissionsEnd
CHECK_DEADLOCK FALSE
