SPECIFICATION FairSpec
CONSTANTS
  MaxHeight = 2
  MaxChanges = 2
  ScreenRows = 4
INVARIANTS TypeOK LastFrameWhole
PROPERTY ShowsField
