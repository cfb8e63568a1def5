SPECIFICATION Spec
CONSTANTS
  b1 = b1
  b2 = b2
  p1 = p1
  p2 = p2
  BufferId <- TwoBuffers
  PaneId <- TwoPanes
  Limit = 2
  MaxInputs = 2
  MaxRuns = 3
  MaxChanges = 3
  MaxKeys = 2
SYMMETRY Symmetry
CHECK_DEADLOCK FALSE
INVARIANTS TypeOK KeysSeeOutput RepeatsLatest RunsKeepTargets
