SPECIFICATION Spec
CONSTANTS
  MAX_PORTS = 4
  MaxNew = 2
  Prompt = FALSE
  Failures = TRUE
  RegisterFails = TRUE
INVARIANTS
  NoXrun
  WalksGoOn
  EndsTogether
PROPERTIES
  NoIllegalStep
  CycleIsBracketed
  KeepsPortList
  KeepsPortLife
  KeepsChainLife
CHECK_DEADLOCK FALSE
