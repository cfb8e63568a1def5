SPECIFICATION Spec
CONSTANTS
  p1 = p1
  p2 = p2
  b1 = b1
  b2 = b2
  t1 = t1
  t2 = t2
  NoSession = NoSession
  NoText = NoText
  Pane <- TwoPanes
  BufferId <- TwoBuffers
  Text <- TwoTexts
  Trimmed <- TrimToFirst
  MaxRevisions = 3
  WriteInSession = FALSE
  TakeoverAfterEdit = FALSE
SYMMETRY Symmetry
INVARIANTS TypeOK SessionIsFocused SnapshotIsCurrent TextIsCurrent
PROPERTIES EditsAreRecorded ImplementsFileVersions
