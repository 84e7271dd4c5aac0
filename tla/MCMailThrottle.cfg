SPECIFICATION FairSpec
CONSTANTS
  Requests = {r1, r2}
  Users = {u1}
  Window = 2
  MaxTime = 5
INVARIANTS SpacedUnlessOverlapping RefusalJustified
PROPERTIES StampsOnlyExtend EveryRequestAnswered
CHECK_DEADLOCK FALSE
