SPECIFICATION FairSpec
CONSTANTS
  Jobs = {j1}
  Users = {u1}
  Workers = {w1, w2}
  Attempts = 3
  MaxStalled = 1
INVARIANTS MailsPerJob DuplicatesExplained CompletedDelivered
PROPERTIES PromiseKept EveryJobSettles
CHECK_DEADLOCK FALSE
