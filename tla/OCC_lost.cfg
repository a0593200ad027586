SPECIFICATION Spec
CONSTANTS
  t1 = t1
  t2 = t2
  x = x
  y = y
  NoThread = NoThread
  Threads = {t1, t2}
  Rows = {x, y}
  Queries <- MCQueries
  Key <- MCKey
  PER_ROW_VALID = FALSE
  MAX_TXN_PER_PART = 2
PROPERTIES Serializable
