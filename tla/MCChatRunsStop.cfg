\* A stop while the http client of the turn is closed loses the answer.
CONSTANTS
  Threads = {t1}
  MaxTurns = 2
  KeepTurns = 1
  Keeps = {0, 1}
  MaxCompactions = 0
  NoTurn = noTurn
  t1 = t1
  noTurn = noTurn
CHECK_DEADLOCK FALSE
SPECIFICATION Spec
INVARIANTS
  StoppedAnswerIsKept
