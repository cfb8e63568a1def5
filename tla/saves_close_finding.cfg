SPECIFICATION Spec
CONSTANTS
  b1 = b1
  b2 = b2
  NoHook = NoHook
  NoTimer = NoTimer
  Idle = Idle
  BufferId <- TwoBuffers
  HandlerCounts <- JustOne
  MaxRequests = 1
  Forces <- AnyForce
  Shared <- TwoBuffers
  PluginCloses = TRUE
CHECK_DEADLOCK FALSE
INVARIANT RequestsOpenBuffers
