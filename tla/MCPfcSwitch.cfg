SPECIFICATION FairSpec
CONSTANTS
  Ports = {1, 2, 3}
  Hosts = {1, 2}
  Queues = {3}
  Routes <- MCRoutes
  Sizes = {2}
  BufferSize = 23
  Reserve = 3
  ResumeOffset = 4
  Headroom <- MCHeadroom
  Shift <- MCShift
  U32 = 64
  WireCap = 1
  PfcLag = 1
INVARIANTS TypeOK Accounting WithinLimits PauseHasCause PauseChain Lossless
PROPERTIES PausedIsResumed
CHECK_DEADLOCK FALSE
