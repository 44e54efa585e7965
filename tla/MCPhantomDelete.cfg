CONSTANTS
  Pods = {p1}
  MaxScore = 1
  MaxLag = 2
  MaxWire = 2
  MaxFaults = 0
SPECIFICATION Spec

PROPERTIES DeletedIsGone
