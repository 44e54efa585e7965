CONSTANTS
  ColorWhite = white
  ControlPlaneLabel = controlPlane
  LegacyControlPlaneLabel = master
  Palette = {red, green}
  Width = 2
  MaxStack = 3
  Threshold = 3
  Fields <- MCFields
SPECIFICATION Spec
INVARIANTS TypeOK ErasableCorrect SearchesDisjoint
PROPERTIES Terminates
CHECK_DEADLOCK FALSE
