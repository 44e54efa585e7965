CONSTANTS
  ColorWhite = white
  ControlPlaneLabel = controlPlane
  LegacyControlPlaneLabel = master
  Colors = {red}
  NumColumns = 1
  Nodes <- MCNodes
  NodeSelector <- MCSelector
  ExcludeControlPlane = TRUE
  MaxPods = 4
  MaxLag = 1
  MaxFaults = 1
  Kokeshi = 2
  Versus = FALSE
  Opponent = FALSE
  GarbageRate = 2
  MaxStaleRV = 3
  MaxHeight = 2
  FlagMaxHeight = 3
  DisableGameOver = FALSE
  Pair = 2
SPECIFICATION FairPlayedSpec
PROPERTIES GoesOn
CHECK_DEADLOCK FALSE
