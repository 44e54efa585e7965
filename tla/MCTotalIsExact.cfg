CONSTANTS
  ColorWhite = white
  ControlPlaneLabel = controlPlane
  LegacyControlPlaneLabel = master
  Colors = {red}
  NumColumns = 1
  NumMasters = 1
  Nodes <- MCNodes
  NodeSelector <- MCSelector
  ExcludeControlPlane = TRUE
  MaxPods = 4
  MaxLag = 2
  MaxFaults = 0
  Kokeshi = 2
  Versus = FALSE
  Opponent = FALSE
  GarbageRate = 2
  MaxStaleRV = 3
  MaxHeight = 2
  DisableGameOver = FALSE
  Pair = 2
SPECIFICATION Spec
INVARIANTS TotalIsExact
CHECK_DEADLOCK FALSE
