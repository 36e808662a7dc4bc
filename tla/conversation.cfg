CONSTANTS
  Replies <- MCReplies
  MaxParallel = 2
  MaxTurns = 2
  MaxChildTurns = 2
  MaxMingled = 2
SPECIFICATION Spec
CHECK_DEADLOCK FALSE
INVARIANTS
  StreamFaithful
  RequestsTellTheTruth
  ActionsRunOnce
PROPERTIES
  AnswersInTheEnd
