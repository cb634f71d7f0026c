SPECIFICATION FairSpec
CONSTANTS
  NThread = 1
  Fanout = 2
  MIN_TASKS_PT = 8
  MaxNodes = 1
PROPERTIES
  Wait4CompletionReturns
CHECK_DEADLOCK FALSE
