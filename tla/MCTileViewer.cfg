SPECIFICATION VSpec
CONSTANTS
  Places <- PlacesC
  Grid <- GridC
  Regions <- RegionsC
  PageCount = 2
  Ceilings = {0, 2}
  DefaultCapacity = 2
  MaxGen = 3
  MaxFaults = 2
INVARIANTS
  VTypeOK
  NothingDangles
  CeilingKept
  AnswerHolds
PROPERTY IsStrip
\* a closed viewer does nothing any more
CHECK_DEADLOCK FALSE
