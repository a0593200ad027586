SPECIFICATION FairSpec
CONSTANTS
  t1 = t1
  t2 = t2
  t3 = t3
  Threads = {t1, t2, t3}
  Sizes <- MCSizes
  MAX_WAITS <- MCWaits
  MAX_SEARCHES = 1
INVARIANTS FirstAlarmRight
PROPERTIES DeadlockBroken
