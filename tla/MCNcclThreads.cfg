SPECIFICATION Spec
CONSTANTS
  Ranks <- TwoRanks
  Graphs <- TwoRankAllReduce
  Rounds = 1
  Threads = TRUE
INVARIANTS ExitOnce
CHECK_DEADLOCK FALSE
