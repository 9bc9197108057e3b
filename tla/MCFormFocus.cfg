SPECIFICATION FSpec
CONSTANTS
  n1 = n1
  n2 = n2
  n3 = n3
  AnnotId = {}
  ValidId = {}
  Rect = {}
  FieldName = {n1, n2, n3}
  Value <- MCValue
  InitFields <- MCFields
  MaxTiles = 2
  MaxBytes = 0
  CmdBytes = 2
  Attr <- MCAttr
  Space = "space"
  Yes = "Yes"
  Off = "Off"
  LowerYes = "yes"
  LowerOff = "off"
  Symbol = {"space", "c", "Yes"}
  FillText <- MCFillText
  Cap = 2
INVARIANTS
  ValuesLegal
  FormWholeOrFlat
PROPERTIES
  OneFieldWritten
VIEW WithoutStatus
