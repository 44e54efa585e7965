CONSTANTS
  ColorWhite = white
  ControlPlaneLabel = controlPlane
  LegacyControlPlaneLabel = master
  Colors = {red}
  NumColumns = 1
  NumMasters = 0
  Nodes <- MCNodes
  NodeSelector <- MCSelector
  ExcludeControlPlane = TRUE
  MaxPods = 3
  MaxLag = 2
  MaxFaults = 1
  Kokeshi = 2
  Versus = TRUE
  Opponent = TRUE
  GarbageRate = 2
  MaxStaleRV = 3
  MaxHeight = 2
  DisableGameOver = FALSE
  Pair = 2
SPECIFICATION Spec
INVARIANTS TypeOK ScoreCoversErasures GarbagePaidFor ScoresConsistent
PROPERTIES OneGame
CHECK_DEADLOCK FALSE
