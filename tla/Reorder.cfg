SPECIFICATION Spec
CONSTANTS
  N = 4
  Conflicts <- MCConflicts
INVARIANTS DefinersFirst ContendedLast QueriesOnce
PROPERTIES NothingLost
CHECK_DEADLOCK FALSE
