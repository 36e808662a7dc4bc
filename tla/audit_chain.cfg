CONSTANTS
  Tasks = {t1, t2}
  Conns = {c1, c2}
  Orderly = {t1}
  BatchSizes = {1, 2}
  MaxStarted = 1  MaxCalls = 2
  MaxClock = 1  MaxFaults = 1  MaxCrashes = 1
  NoTask = NoTask  NoCall = NoCall  NoRow = NoRow  NoSeal = NoSeal  NoAnchor = NoAnchor  Genesis = Genesis
SYMMETRY Symm
SPECIFICATION Spec
CHECK_DEADLOCK FALSE
INVARIANTS
  AuditTypeOK
  OrderlyVerifies
  SealCoversLog
  RowsDescend
  LoggedOnce
PROPERTIES
  ParkedStaysOpen
  ImplementsLog
