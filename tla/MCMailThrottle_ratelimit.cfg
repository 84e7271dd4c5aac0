SPECIFICATION Spec
CONSTANTS
  Requests = {r1, r2}
  Users = {u1}
  Window = 2
  MaxTime = 4
INVARIANTS RateLimited
CHECK_DEADLOCK FALSE
