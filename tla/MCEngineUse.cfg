SPECIFICATION RSpec
CONSTANTS
  FieldNames <- NamesC
  FieldValues <- ValuesC
  Strings <- StringsC
  Others <- OthersC
  Logs <- LogsC
INVARIANTS ReleasedAtExit NothingOutlives ExitTells ReadAsMeant NodesAccounted
\* the program ends
CHECK_DEADLOCK FALSE
