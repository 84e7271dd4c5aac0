SPECIFICATION MCSpec
CONSTANTS
  r1 = r1
  r2 = r2
  Requests = {r1, r2}
  Users = {u1}
  Workers = {w1}
  Window = 1
  MaxTime = 2
  Attempts = 1
  MaxStalled = 0
INVARIANTS OnlyAdmittedMails RefusedHasJob
PROPERTIES SuccessIsSettled RefusedIsSettled
CHECK_DEADLOCK FALSE
