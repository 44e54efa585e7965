CONSTANTS
  ColorWhite = white
  ControlPlaneLabel = controlPlane
  LegacyControlPlaneLabel = master
  NumColumns = 1
  NumMasters = 0
  Nodes <- MCNodes
  NodeSelector <- MCSelector
  ExcludeControlPlane = TRUE
  PairSize = 2
  SpawnMaxHeight = 4
  FlagMaxHeight = 4
  Players = {"ui"}
  Modes = {"manual"}
  Opponent = FALSE
  MaxPods = 2
  MaxLag = 1
  MaxBindLag = 2
  MaxFaults = 0
SPECIFICATION Spec
PROPERTIES PlaceIsFinal
CHECK_DEADLOCK FALSE
