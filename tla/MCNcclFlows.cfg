SPECIFICATION FairSpec
CONSTANTS
  Ranks <- ThreeRanks
  Graphs <- ThreeRankGraphs
  Rounds = 2
  Threads = FALSE
INVARIANTS TypeOK Conservation NoOverlap NoStaleReceive
PROPERTIES LeavesTogether AllLeave
CHECK_DEADLOCK FALSE
