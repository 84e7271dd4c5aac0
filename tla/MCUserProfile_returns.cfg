SPECIFICATION Spec
CONSTANTS
  Requests = {r1, r2}
  Users = {u1}
  Values = {"bob", "Bob", "eve"}
  Lower <- LowerCase
  Dtos <- Bodies
INVARIANTS UpdateReturnsUser
CHECK_DEADLOCK FALSE
