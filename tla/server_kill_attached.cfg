SPECIFICATION Spec
CONSTANTS
  c1 = c1
  c2 = c2
  c3 = c3
  p1 = p1
  p2 = p2
  None = None
  Client = {c1, c2, c3}
  Pid = {p1, p2}
  MaxFd = 4
  MaxClients = 3
  MaxPanes = 2
  MaxId = 1
  Roles = {"new", "kill"}
  MayDie = FALSE
SYMMETRY Symmetry
ACTION_CONSTRAINT Unhurried
PROPERTY KillSparesOtherSessions
CHECK_DEADLOCK FALSE
