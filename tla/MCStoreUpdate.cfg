\* Store updates, their lock and their manifest.
CONSTANTS
  Dated = {stock}
  Single = {corp}
  Corp = corp
  Cron = {cron}
  Tab = {tab}
  Selections <- MCSelections
  NoOne = noOne
  MaxDate = 2
  MaxUpdates = 1
  stock = stock
  corp = corp
  cron = cron
  tab = tab
  noOne = noOne
CHECK_DEADLOCK FALSE
SPECIFICATION FairSpec
INVARIANTS
  
  RecordsAreTrue
  RecordsSurvive

  
