SPECIFICATION FairSpec
CONSTANTS
  t1 = t1
  t2 = t2
  t3 = t3
  p1 = p1
  p2 = p2
  NoThread = NoThread
  Threads = {t1, t2, t3}
  Parts = {p1, p2}
  Queries <- MCQueries
  MAX_TXN_PER_PART = 1
INVARIANTS TypeOK ReadyCount InQueues OldestFirst
PROPERTIES Serializable WaitEnds InOrderFinish
