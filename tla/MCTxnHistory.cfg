SPECIFICATION HSpec
CONSTANTS
  a1 = a1
  a2 = a2
  a3 = a3
  bad = bad
  f1 = f1
  f2 = f2
  AnnotId = {a1, a2, a3, bad}
  ValidId = {a1, a2, a3}
  Rect = {1, 2}
  FieldName = {f1, f2}
  Value = {0, 1}
  InitFields <- MCFields
  MaxTiles = 4
  MaxBytes = 8
  CmdBytes = 2
INVARIANTS
  TypeOK
  UniqueIds
  Reversible
  WithinBudget
  StacksTellHistory
PROPERTY
  IsEditHistory
SYMMETRY IdSymmetry
