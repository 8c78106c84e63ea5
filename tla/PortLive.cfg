SPECIFICATION FairSpec
CONSTANTS
  Prompt = TRUE
  LockTimeouts = TRUE
PROPERTIES
  CycleCompletes
  StopReturns
  WorkersReleased
