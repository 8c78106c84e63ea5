SPECIFICATION FairSpec
CONSTANTS
  MAX_PORTS = 4
  MaxNew = 2
  Prompt = TRUE
  Failures = TRUE
  RegisterFails = FALSE
INVARIANTS
  PortsFitChain
PROPERTIES
  RoundEnds
  RemoveReturns
  StopReturns
CHECK_DEADLOCK FALSE
