SPECIFICATION FairSpec
CONSTANTS
  Ids = {1, 2, 3}
  KeyChoices <- BothKeys
  Clients = {"forward", "browse"}
  Limits = {0, 1, 2}
  DefaultLimit = 4
  Milli = 2
  MaxTime = 3
INVARIANTS ForwardComplete RepeatsExplained ThereAndBack
PROPERTIES ForwardEnds
CHECK_DEADLOCK FALSE
