SPECIFICATION OnTimeSpec
CONSTANTS
  Threads <- Three
  FirstTs <- Cold
  MAX_TS = 5
INVARIANTS MinSafe
