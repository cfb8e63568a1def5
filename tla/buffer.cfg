SPECIFICATION Spec
CONSTANTS
  t1 = t1
  t2 = t2
  lf = lf
  crlf = crlf
  NoText = NoText
  NoUndoFile = NoUndoFile
  Text <- TwoTexts
  Ending <- TwoEndings
  UndoLevels <- SmallCaps
  MaxId = 3
SYMMETRY Symmetry
INVARIANTS TypeOK HistoryFitsText RedoRetracesUndo SavedHistoryRestores
PROPERTIES TrimKeepsEdit ImplementsFileVersions
