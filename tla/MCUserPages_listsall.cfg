SPECIFICATION Spec
CONSTANTS
  Ids = {1, 2, 3}
  Limits = {1, 2}
  Modes = {"cursor"}
  Micros = {0, 1}
  MaxMilli = 1
  MaxPage = 1
INVARIANTS CursorWalkListsAll
CHECK_DEADLOCK FALSE
