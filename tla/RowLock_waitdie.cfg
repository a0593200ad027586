CONSTANTS
  t1 = t1
  t2 = t2
  t3 = t3
  x = x
  y = y
  Threads <- MCThreads
  Rows <- MCRows
  Queries <- MCQueries
  Ts <- DistinctTs
  CC_ALG = "WAIT_DIE"
  MAX_TXN_PER_PART = 1
SPECIFICATION FairSpec
INVARIANTS
  TypeOK
  StrictTwoPhase
  HeadMustWait
  WaitsForYounger
  NoDeadlock
PROPERTIES
  Serializable
  WritersFinish
