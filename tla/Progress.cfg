SPECIFICATION PoolSpec
CONSTANTS
  Systems = {"rb", "build", "query", "table", "cell", "queue", "compute", "select", "merge", "cached"}
  BuildSamples = 3
  Nil = Nil
  FREE = FREE
  grower1 = grower1
  grower2 = grower2
INVARIANTS
  PageKept EvictsLowestScore FIFOOrder WorkConserved
  RefExact AssertionsHold Coherent
PROPERTIES StepsSafe LoopsEnd WaitersReturn AllReturn
CHECK_DEADLOCK FALSE
