SPECIFICATION FairSpec
CONSTANTS
  Qps = {1, 2, 3}
  Packets <- MCPackets
  Window = 1
  Paces = {1, 2}
  Pg = 1
INVARIANTS TypeOK NotForgotten BoundedOvertaking
PROPERTIES AllSent
CHECK_DEADLOCK FALSE
