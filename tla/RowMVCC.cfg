SPECIFICATION FairSpec
CONSTANTS
  t1 = t1
  t2 = t2
  x = x
  y = y
  Threads = {t1, t2}
  Rows = {x, y}
  Queries <- MCQueries
  FirstTs <- Cold
  HIS_RECYCLE_LEN = 1
  PTS_BOUND = 100
  MAX_TS = 4
INVARIANTS TypeOK VersionsKept NoLostWakeup
PROPERTIES TimestampOrder WaitEnds
