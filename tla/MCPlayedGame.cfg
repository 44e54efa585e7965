CONSTANTS
  ColorWhite = white
  ControlPlaneLabel = controlPlane
  LegacyControlPlaneLabel = master
  Colors = {red}
  NumColumns = 1
  Nodes <- MCNodes
  NodeSelector <- MCSelector
  ExcludeControlPlane = TRUE
  MaxPods = 4
  MaxLag = 1
  MaxFaults = 1
  Kokeshi = 2
  Versus = FALSE
  Opponent = FALSE
  GarbageRate = 2
  MaxStaleRV = 3
  MaxHeight = 3
  FlagMaxHeight = 4
  DisableGameOver = FALSE
  Pair = 2
SPECIFICATION FairPlayedSpec
INVARIANTS PlayedTypeOK
PROPERTIES ErasableIsErased ChainEnds PairArrives GoesOnUnlessStuck
CHECK_DEADLOCK FALSE
