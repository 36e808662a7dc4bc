CONSTANTS
  Tasks = {t1}
  Conns = {c1}
  Orderly = {t1}
  BatchSizes = {2}
  MaxStarted = 1  MaxCalls = 2
  MaxClock = 0  MaxFaults = 0  MaxCrashes = 0
  NoTask = NoTask  NoCall = NoCall  NoRow = NoRow  NoSeal = NoSeal  NoAnchor = NoAnchor  Genesis = Genesis
SPECIFICATION Spec
CHECK_DEADLOCK FALSE
INVARIANT RowsMatchCalls
