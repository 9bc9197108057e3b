SPECIFICATION CSpec
CONSTANTS
  Window = 2
  FirstTexts <- FirstC
  OtherTexts <- OtherC
  Queries <- QueriesC
  Fonts <- FontsC
INVARIANTS CaretOnStop SelectionSound SearchExact RunsWhole 
\* reading a freed page may end the program
CHECK_DEADLOCK FALSE
VIEW WithoutBoxes
