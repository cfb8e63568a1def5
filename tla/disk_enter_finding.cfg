SPECIFICATION Spec
CONSTANTS
  b1 = b1
  b2 = b2
  p1 = p1
  p2 = p2
  NoBuffer = NoBuffer
  NoConfirm = NoConfirm
  BufferId <- TwoBuffers
  PaneId <- TwoPanes
  FileBuffer <- OneFile
  AutoRead <- Prompting
  MaxVersion = 2
  MaxCalls = 1
  DrainCap = 2
  MaxSessions = 1
  RestatRaces = FALSE
INVARIANT EnteredWasChecked
