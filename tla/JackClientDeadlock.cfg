SPECIFICATION FairSpec
CONSTANTS
  Runner = {r1}
  MaxSessions = 1
  MaxPorts = 0
  CallbackAsks = TRUE
  ListenerAsks = TRUE
PROPERTIES
  CloseReturns
CHECK_DEADLOCK FALSE
