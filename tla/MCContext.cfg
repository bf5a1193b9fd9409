CONSTANTS
  Device = {d1, d2}
  Nesting = 0
SPECIFICATION Spec
INVARIANTS
  RemovedOnceClosed
PROPERTIES
  RemovedLeaves
CHECK_DEADLOCK FALSE
