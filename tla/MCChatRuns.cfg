\* The chat's history, summary and context over two turns of a thread;
\* every turn ends.
CONSTANTS
  Threads = {t1}
  MaxTurns = 2
  KeepTurns = 1
  Keeps = {0, 1}
  MaxCompactions = 2
  NoTurn = noTurn
  t1 = t1
  noTurn = noTurn
CHECK_DEADLOCK FALSE
SPECIFICATION FairSpec
INVARIANTS
  SummaryCoversPrefix
  ContextIsWhole
  TurnsAreStored
PROPERTIES
  KeepsConversation
  TurnsEnd
  PagesHear
