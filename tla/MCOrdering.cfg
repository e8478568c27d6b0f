SPECIFICATION Spec
CONSTANTS
  Bases = {a, b, c}
  Contracts = {x, y, z}
INVARIANTS ConsistentIsOrdered
CHECK_DEADLOCK FALSE
