SPECIFICATION PoolSteps
CONSTANTS
  Systems = {"nn", "rb", "delete", "binary", "brute", "build", "query", "engine", "matrix",
             "files", "init", "disk", "numa", "util", "slab", "msg", "arrays", "config",
             "bytes", "buffer", "kv", "request", "flags"}
  BuildSamples = 4
  Nil = Nil
  FREE = FREE
  grower1 = grower1
  grower2 = grower2
INVARIANTS
  LinksSound NeighborsExact BuildExact ForestReads MatrixExact
  FilesExact UsersKeepSystem AccessExact OneHome
  MemoryOwned CopiesExact RequestsWhole FlagsExact
PROPERTY ImplementsNearest
CHECK_DEADLOCK FALSE
