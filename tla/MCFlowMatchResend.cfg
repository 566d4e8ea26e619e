SPECIFICATION Spec
CONSTANTS
  Sends <- MCSends
  Recvs <- MCRecvs
  TailCalls = 2
  Overlap = FALSE
INVARIANTS SentSizeMatches
CHECK_DEADLOCK FALSE
