SPECIFICATION Spec
CONSTANTS
  MAX_PORTS = 4
  MaxNew = 2
  Prompt = TRUE
  Failures = FALSE
  RegisterFails = TRUE
INVARIANTS
  PortsFitChain
CHECK_DEADLOCK FALSE
