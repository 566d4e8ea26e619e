SPECIFICATION FairSpec
CONSTANTS
  Size = 7
  Mtu = 2
  Windows = {1, 6}
  AckInterval = 1
  Chunk = 4
  BackTo0 = FALSE
  TailMin = 0
  TailMax = 2
  U32 = 4
  U64 = 64
  MaxLoss = 2
INVARIANTS TypeOK NoFalseAck StallCauses SentOnce
PROPERTIES ReliableTransfer QuietAfterCompletion Completes Settles
CHECK_DEADLOCK FALSE
