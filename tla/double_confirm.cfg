CONSTANTS
  t1 = t1  t2 = t2  k1 = k1  k2 = k2  k3 = k3
  Tasks = {t1, t2}
  Conns = {c1, c2, c3}
  Keys = {k1}
  Txs = {x1, x2}
  Amount <- MCAmount
  DayCap = 5
  AutoUnder = 1
  Permitted = {k1}
  Unmatched = {}
  Proposes <- Shared
  Patient = FALSE
  Left = {}
  MaxConfig = 0  MaxToggles = 0  MaxRestarts = 0  MaxFaults = 0
  NoTask = NoTask  NoConn = NoConn  NoTx = NoTx  NoKey = NoKey  NoPending = NoPending
  AskPending = AskPending  NoTransfer = NoTransfer  NoAnswer = NoAnswer
SPECIFICATION Spec
CHECK_DEADLOCK FALSE
INVARIANT
  OneTransferPerQuestion
