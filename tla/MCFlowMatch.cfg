SPECIFICATION FairSpec
CONSTANTS
  Sends <- MCSends
  Recvs <- MCRecvs
  TailCalls = 1
  Overlap = FALSE
INVARIANTS TypeOK NeverBoth ServedByTheByte HandlersOnce RightFlowTag
PROPERTIES AllServed
CHECK_DEADLOCK FALSE
