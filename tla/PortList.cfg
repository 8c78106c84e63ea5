SPECIFICATION Spec
CONSTANTS
  MAX_PORTS = 6
INVARIANTS
  InputsFirst
  HolesAreReused
CHECK_DEADLOCK FALSE
