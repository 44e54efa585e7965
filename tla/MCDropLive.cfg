CONSTANTS
  ColorWhite = white
  ControlPlaneLabel = controlPlane
  LegacyControlPlaneLabel = master
  NumColumns = 1
  NumMasters = 1
  Nodes <- MCNodes
  NodeSelector <- MCSelector
  ExcludeControlPlane = TRUE
  PairSize = 2
  SpawnMaxHeight = 2
  FlagMaxHeight = 3
  Players = {}
  Modes = {"manual", "auto"}
  Opponent = TRUE
  MaxPods = 3
  MaxLag = 1
  MaxBindLag = 2
  MaxFaults = 1
SPECIFICATION FairSpec
PROPERTIES LandsOnTop LoopPlaceIsFinal LoopStaysOnColumns OjamaLands PairIsPlayed
CHECK_DEADLOCK FALSE
