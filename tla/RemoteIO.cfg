SPECIFICATION Spec
CONSTANTS
  io1 = io1
  io2 = io2
  Clients = {io1, io2}
  NDisks = 2
  BlockSize = 2
  RandStart = 0
  Request <- MCRequest
  Programs <- MCPrograms
  AIO_DEPTH = 1
  CompleteQueueSize = 2
  GroupAt = 2
  MAX_DISK_CACHED_REQS = 1
INVARIANTS
  PartsConserved
  NoSleepOnWork
  CallsJustified
PROPERTIES
  CallsReturn
CHECK_DEADLOCK FALSE
