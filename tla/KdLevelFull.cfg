SPECIFICATION PoolSteps
CONSTANTS
  Systems = {"build"}
  BuildSamples = 4
  Nil = Nil
  FREE = FREE
  grower1 = grower1
  grower2 = grower2
INVARIANTS FullLevelHasAll
CHECK_DEADLOCK FALSE
