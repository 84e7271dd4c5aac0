SPECIFICATION Spec
CONSTANTS
  Requests = {r1, r2}
  Users = {u1}
  Values = {"bob", "Bob", "eve"}
  Lower <- LowerCase
  Dtos <- Bodies
SYMMETRY Symmetry
INVARIANTS ReturnsWhatWasAsked DeletedIsGone
PROPERTIES ChangesAreAsked
CHECK_DEADLOCK FALSE
