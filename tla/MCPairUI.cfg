SPECIFICATION FairSpec
CONSTANTS
  Cols = 2
  MaxHeight = 2
  Ceiling = 3
  MaxPairs = 2
  MaxChanges = 2
INVARIANTS TypeOK DrawnFits SentIsAccepted
PROPERTIES SentAsDrawn DownLocks
