SPECIFICATION FairSpec
CONSTANTS
  b1 = b1
  b2 = b2
  NoHook = NoHook
  NoTimer = NoTimer
  Idle = Idle
  BufferId <- TwoBuffers
  HandlerCounts <- JustTwo
  MaxRequests = 2
  Forces <- Unforced
  Shared <- FirstBuffer
  PluginCloses = FALSE
CHECK_DEADLOCK FALSE
INVARIANTS TypeOK ReadyWasAnswered WorkIsKept TimersMatchWrites ReportedBatchIsWhole
PROPERTY WritesEnd
