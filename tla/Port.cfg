SPECIFICATION Spec
CONSTANTS
  Prompt = FALSE
  LockTimeouts = FALSE
INVARIANTS
  TypeOK
  FlipFlop
  NoLostWakeup
  NoIllegalStep
  CallbackContract
  NothingLeaks
PROPERTIES
  LastIsLast
  StopIsClean
  KeepsPortLife
