SPECIFICATION FairSpec
CONSTANTS
  b1 = b1
  b2 = b2
  markdown = markdown
  rust = rust
  NoLanguage = NoLanguage
  BufferId = {b1}
  LanguageId = {markdown, rust}
  Injects <- Fenced
  MaxGeneration = 3
  MaxCommands = 3
INVARIANTS TypeOK LayersDescribeTheirText
PROPERTIES LayersMoveForward ParsesSettle
CHECK_DEADLOCK FALSE
