SPECIFICATION Spec
CONSTANTS
  Accessor = {a1, a2, a3}
  Item = {p1, p2}
  NoItem = NoItem
INVARIANTS
  NoDanglingPort
  NoLostWakeup
PROPERTIES
  KeepsLease
