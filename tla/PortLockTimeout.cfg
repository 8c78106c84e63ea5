SPECIFICATION Spec
CONSTANTS
  Prompt = FALSE
  LockTimeouts = TRUE
INVARIANTS
  SubstateFitsState
