SPECIFICATION FairSpec
CONSTANTS
  t1 = t1
  t2 = t2
  t3 = t3
  x = x
  y = y
  Threads = {t1, t2, t3}
  Rows = {x, y}
  Queries <- MCQueries
  TS_TWR = FALSE
  MAX_TS = 3
INVARIANTS TypeOK NoOrphanPrewrite NoLostWakeup
PROPERTIES TimestampOrder WaitEnds
