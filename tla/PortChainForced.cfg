SPECIFICATION Spec
CONSTANTS
  MAX_PORTS = 4
  MaxNew = 2
  Prompt = TRUE
  Failures = FALSE
  RegisterFails = FALSE
INVARIANTS
  NobodyForced
CHECK_DEADLOCK FALSE
