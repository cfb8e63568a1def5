SPECIFICATION Spec
CONSTANTS
  FirstText <- TwoLines
  Kinds <- BothKinds
  MaxEntries = 2
  MaxHeldChars = 3
  MinLines = 0
  Capacities <- OneOrThree
  Budgets <- ChainsAndJumps
INVARIANTS
  ChangesAreExact
  JumpsLeadBack
CHECK_DEADLOCK FALSE
