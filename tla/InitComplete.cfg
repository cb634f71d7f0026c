SPECIFICATION PoolSteps
CONSTANTS
  Systems = {"init"}
  BuildSamples = 4
  Nil = Nil
  FREE = FREE
  grower1 = grower1
  grower2 = grower2
INVARIANTS InitComplete
CHECK_DEADLOCK FALSE
