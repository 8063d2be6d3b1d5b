SPECIFICATION FairSpec
CONSTANTS
  t1 = t1
  t2 = t2
  Thread = {t1, t2}
  Hooks <- Manifest
  MaxItems = 2
  MaxDeltaItems = 1
  RecentThreads = 1
  MaxBusy = 2
  MaxFaults = 1
INVARIANTS TypeOK SummaryFitsMark UpdatesAreKept
PROPERTIES DirtyIsRecovered
CHECK_DEADLOCK FALSE
