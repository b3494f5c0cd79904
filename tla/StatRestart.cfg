SPECIFICATION Spec
CONSTANTS
  N = 3
  LayerLen <- MCLayerLen
  LayerRatio <- MCLayerRatio
  Tables <- MCTables
  FirstTime = 12
  MaxTime = 26
  MaxCrashes = 2
CHECK_DEADLOCK FALSE
INVARIANTS
  RestartIsTransparent
  SampleStoredOnce
  NothingLostInCompaction
  LayersInOrder
  TableBounded
  RangeIsOverlap
