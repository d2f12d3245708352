\* Jobs, their history on disk and their log streams, over restarts.
CONSTANTS
  MaxJobs = 3
  MaxHistory = 2
  MaxSubmitting = 1
  MaxLines = 2
  KeepLines = 1
  Second <- MCSecond
  IdlePolls = 2
  LinesOf <- MCLinesOf
  Watched = {1}
  MaxCancels = 1
  MaxRestarts = 1
  Failing = {1}
  Streams = {s1}
  s1 = s1
CHECK_DEADLOCK FALSE
SPECIFICATION FairSpec
INVARIANTS
  TypeOK
  HistoryIsSaved
  StreamsCoverLog
PROPERTIES
  KeepsLife
  StreamsEnd
