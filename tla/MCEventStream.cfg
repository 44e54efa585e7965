CONSTANTS
  Pods = {p1}
  MaxScore = 1
  MaxLag = 2
  MaxWire = 2
  MaxFaults = 2
SPECIFICATION FairSpec
INVARIANTS TypeOK ShownOnce NoPokeIsLost
PROPERTIES BrowserCatchesUp
