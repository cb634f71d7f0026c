SPECIFICATION Spec
CONSTANTS
  Adders = {a1, a2}
  Manager = m
  Callers = {a1, a2, m}
  TasksEach = 2
  TASK_BUF_SIZE = 2
  SizeTBits = 3
INVARIANTS
  NoLostWakeup
  WaitMeansDone
PROPERTIES
  ImplementsEvent
  WaitReturns
CHECK_DEADLOCK FALSE
