SPECIFICATION Spec
CONSTANTS
  c1 = c1
  c2 = c2
  p1 = p1
  p2 = p2
  None = None
  Client = {c1, c2}
  Pid = {p1, p2}
  MaxFd = 3
  MaxClients = 2
  MaxPanes = 2
  MaxId = 1
  Roles = {"new", "attach", "list", "kill"}
  MayDie = TRUE
SYMMETRY Symmetry
INVARIANT TypeOK
INVARIANT SlotsDistinct
INVARIANT SessionIdsIncrease
INVARIANT LiveShellsTracked
INVARIANT ListIsCurrent
INVARIANT SignalKept
INVARIANT AttachExclusive
PROPERTY AttachGetsAllPanes
CHECK_DEADLOCK FALSE
