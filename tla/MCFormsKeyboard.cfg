SPECIFICATION KSpec
CONSTANTS
  n1 = n1
  n2 = n2
  n3 = n3
  AnnotId = {}
  ValidId = {}
  Rect = {}
  FieldName = {n1, n2, n3}
  Value <- MCValue
  InitFields <- MCFields
  MaxTiles = 0
  MaxBytes = 0
  CmdBytes = 2
  Attr <- MCAttr
  Space = "space"
  Yes = "Yes"
  Off = "Off"
  LowerYes = "yes"
  LowerOff = "off"
  Symbol = {"space", "tab", "esc", "c", "astral", "low"}
  FillText = {}
  Cap = 2
  PlainKey = {"c"}
  CharOf <- MCCharOf
  High = "high"
  Low = "low"
  Astral = "astral"
  ActivePage = "page"
  MaxLog = 2
INVARIANTS
  QuietIsAnnounced
PROPERTIES
  UnitsLand
  TabMoves
CHECK_DEADLOCK FALSE
VIEW WithoutStatus
