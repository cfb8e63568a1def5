SPECIFICATION Spec
CONSTANTS
  b1 = b1
  b2 = b2
  p1 = p1
  p2 = p2
  NoBuffer = NoBuffer
  NoConfirm = NoConfirm
  BufferId <- TwoBuffers
  PaneId <- OnePane
  FileBuffer <- OneFile
  AutoRead <- Prompting
  MaxVersion = 3
  MaxCalls = 2
  DrainCap = 3
  MaxSessions = 2
  RestatRaces = FALSE
INVARIANTS TypeOK NoUnseenDecline NoMissedChange EnteredWasChecked RecoveredTextIsKept
PROPERTY SavesKnowTheirFile
