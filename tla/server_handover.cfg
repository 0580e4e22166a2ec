SPECIFICATION Spec
CONSTANTS
  c1 = c1
  c2 = c2
  c3 = c3
  p1 = p1
  None = None
  Client = {c1, c2, c3}
  Pid = {p1}
  MaxFd = 2
  MaxClients = 3
  MaxPanes = 1
  MaxId = 0
  Roles = {"new", "attach", "kill"}
  MayDie = TRUE
SYMMETRY Symmetry
INVARIANT LiveShellsTracked
INVARIANT AttachExclusive
PROPERTY AttachGetsAllPanes
CHECK_DEADLOCK FALSE
