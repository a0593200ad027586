CONSTANTS
  t1 = t1
  t2 = t2
  t3 = t3
  x = x
  y = y
  Threads <- MCThreads
  Rows <- MCRows
  Queries <- MCQueries
  Ts <- CodeTs
  CC_ALG = "DL_DETECT"
  MAX_TXN_PER_PART = 1
SPECIFICATION Spec
INVARIANTS
  WakeupNotLost
  NoLeakedEntry
PROPERTIES
  NoBarging
SYMMETRY Perms
