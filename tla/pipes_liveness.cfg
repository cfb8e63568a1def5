SPECIFICATION FairSpec
CONSTANTS
  b1 = b1
  b2 = b2
  p1 = p1
  p2 = p2
  BufferId <- TwoBuffers
  PaneId <- OnePane
  Limit = 1
  MaxInputs = 2
  MaxRuns = 2
  MaxChanges = 1
  MaxKeys = 1
CHECK_DEADLOCK FALSE
PROPERTY RunsEnd
