SPECIFICATION Spec
CONSTANTS
  NThread = 1
  Fanout = 2
  MIN_TASKS_PT = 8
  MaxNodes = 1
INVARIANTS
  DeleteJoins
CHECK_DEADLOCK FALSE
