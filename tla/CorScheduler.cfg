CONSTANTS
  Workers = {w1, w2}
  Ext = Ext
  Cors = {c1, c2}
  None = None
  StopFlag = TRUE
  PipeCap = 2
  c1 = c1
  c2 = c2
  w1 = w1
  w2 = w2
SPECIFICATION FairSpec
INVARIANTS TypeOK ExclusiveRun StateAsserts WokenRight
PROPERTIES FinishedForGood QueuedRuns SleeperRuns
CHECK_DEADLOCK FALSE
