CONSTANTS
  t1 = t1  t2 = t2  k1 = k1  k2 = k2  k3 = k3
  Tasks = {t1, t2}
  Conns = {c1, c2, c3, c4}
  Keys = {k1, k2, k3}
  Txs = {x1, x2, x3}
  Amount <- MCAmount
  DayCap = 5
  AutoUnder = 1
  Permitted = {k1, k2, k3}
  Unmatched = {}
  Proposes <- Distinct
  Patient = TRUE
  Left = {}
  MaxConfig = 0  MaxToggles = 1  MaxRestarts = 0  MaxFaults = 0
  NoTask = NoTask  NoConn = NoConn  NoTx = NoTx  NoKey = NoKey  NoPending = NoPending
  AskPending = AskPending  NoTransfer = NoTransfer  NoAnswer = NoAnswer
SYMMETRY Symm
SPECIFICATION Spec
CHECK_DEADLOCK FALSE
INVARIANTS
  TypeOK
  WithinDayCap
  ParkedIsReserved
  NoOrphanHold
  OneTransferPerQuestion
PROPERTIES
  SealedStaysSealed
  ImplementsBudget
