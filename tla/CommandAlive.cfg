SPECIFICATION PoolSteps
CONSTANTS
  Systems = {"disk"}
  BuildSamples = 4
  Nil = Nil
  FREE = FREE
  grower1 = grower1
  grower2 = grower2
INVARIANTS CommandAlive
CHECK_DEADLOCK FALSE
