SPECIFICATION FairSpec
CONSTANTS
  NThread = 3
  Fanout = 2
  MIN_TASKS_PT = 1
  MaxNodes = 7
INVARIANTS
  PendingExact
  BarrierHolds
  NoDataRace
  NoFault
  LevelsComplete
PROPERTIES
  ImplementsBarrier
  FullLevelRuns
CHECK_DEADLOCK FALSE
