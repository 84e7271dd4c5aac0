SPECIFICATION FairSpec
CONSTANTS
  Ids = {1, 2, 3}
  Limits = {0, 1, 2}
  Modes = {"cursor", "offset"}
  Micros = {0, 1}
  MaxMilli = 1
  MaxPage = 4
INVARIANTS NoUserTwice CursorWalkComplete OffsetWalkComplete OffsetRepeatsExplained
PROPERTIES CursorWalkEnds
CHECK_DEADLOCK FALSE
