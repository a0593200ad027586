CONSTANTS
  t1 = t1
  t2 = t2
  t3 = t3
  x = x
  y = y
  Threads <- MCThreads
  Rows <- MCRows
  Queries <- MCQueries
  Ts <- CodeTs
  CC_ALG = "WAIT_DIE"
  MAX_TXN_PER_PART = 1
SPECIFICATION Spec
INVARIANTS
  NoDeadlock
