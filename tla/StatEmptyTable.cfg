SPECIFICATION Spec
CONSTANTS
  N = 3
  LayerLen <- MCLayerLen
  LayerRatio <- MCLayerRatio
  Tables <- MCTables
  FirstTime = 12
  MaxTime = 20
  MaxCrashes = 2
CHECK_DEADLOCK FALSE
INVARIANT
  AnyRestartIsTransparent
