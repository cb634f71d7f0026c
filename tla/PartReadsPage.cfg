SPECIFICATION PoolSteps
CONSTANTS
  Systems = {"cached"}
  BuildSamples = 4
  Nil = Nil
  FREE = FREE
  grower1 = grower1
  grower2 = grower2
INVARIANTS PartReadsPage
CHECK_DEADLOCK FALSE
