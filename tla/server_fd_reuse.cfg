SPECIFICATION Spec
CONSTANTS
  c1 = c1
  c2 = c2
  p1 = p1
  p2 = p2
  p3 = p3
  None = None
  Client = {c1, c2}
  Pid = {p1, p2, p3}
  MaxFd = 4
  MaxClients = 2
  MaxPanes = 2
  MaxId = 1
  Roles = {"new"}
  MayDie = TRUE
SYMMETRY Symmetry
ACTION_CONSTRAINT Unhurried
INVARIANT MastersIntact
CHECK_DEADLOCK FALSE
