CONSTANTS
  t1 = t1
  t2 = t2
  c1 = c1
  c2 = c2
  none = none
  Tasks <- MCTasks
  Sessions <- MCSessions
  Replies <- MCReplies
  Paying <- MCPaying
  None = none
  MaxParallel = 2
  Cap = 1
  MaxTurns = 2
  MaxSends = 2
  MaxLeaves = 1
SPECIFICATION Spec
CHECK_DEADLOCK FALSE
INVARIANTS
  TypeOK
  QuestionHasCard
PROPERTIES
  AskHoldsTurn
  OnlyNamedWaitsHang
  TurnCloses
