SPECIFICATION PSpec
CONSTANTS
  a1 = a1
  f1 = f1
  AnnotId = {a1}
  ValidId = {a1}
  Rect = {1, 2, 3}
  FieldName = {f1}
  Value = {0, 1}
  InitFields <- MCFields
  MaxTiles = 2
  MaxBytes = 0
  CmdBytes = 2
  FileForms <- MCFileForms
  ForeignLogs <- MCForeignLogs
  MaxSaved = 2
  Round <- MCRound
INVARIANTS
  SteadyLogsWork
  OwnLogsAreSafe
PROPERTIES
  SteadyReplayRestores
  RequestsSurvive
VIEW Relevant
