SPECIFICATION Spec
CONSTANTS
  s1 = s1
  s2 = s2
  u1 = u1
  p1 = p1
  p2 = p2
  Sockets = {s1, s2}
  Users = {u1}
  Processes = {p1, p2}
  Senders = {p1}
  Owner <- OneUser
  Home <- TwoProcesses
  Hour = 1
  MaxTime = 3
INVARIANTS MapExact RegistryExact
PROPERTIES SendReachesLocal SendReachesOnlyOpen
CHECK_DEADLOCK FALSE
