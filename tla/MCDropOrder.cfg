CONSTANTS
  ColorWhite = white
  ControlPlaneLabel = controlPlane
  LegacyControlPlaneLabel = master
  NumColumns = 1
  NumMasters = 0
  Nodes <- MCNodes
  NodeSelector <- MCSelector
  ExcludeControlPlane = TRUE
  PairSize = 2
  SpawnMaxHeight = 2
  FlagMaxHeight = 2
  Players = {"ui"}
  Modes = {"manual"}
  Opponent = FALSE
  MaxPods = 4
  MaxLag = 1
  MaxBindLag = 1
  MaxFaults = 0
SPECIFICATION HistorySpec
INVARIANTS TypeOK LandsAsChosen
PROPERTIES RefusesWhileCalm
CHECK_DEADLOCK FALSE
