SPECIFICATION BSpec
CONSTANTS
  Places <- PlacesC
  Grid <- PlacesC
  Regions <- RegionsC
  StripRegion <- StripC
  FullRegion <- FullC
  PageCount = 2
  Ceilings = {4}
  TileCeiling = 4
  DefaultCapacity = 64
  MaxGen = 9
  MaxFaults = 1
  Sizes = {0, 1, 2}
  Scales = {1, 2}
  WheelCounts = {0, 2}
  MaxLost = 2
  SettleFrames = 1
  FullFrames = 1
  MaxRecorded = 4
INVARIANTS
  FrameIsWhole
  BenchComplete
  TargetFits
  WheelsMeasured
PROPERTY SessionEnds
\* the program ends
CHECK_DEADLOCK FALSE
