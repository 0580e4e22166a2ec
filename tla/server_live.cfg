SPECIFICATION LiveSpec
CONSTANTS
  c1 = c1  c2 = c2
  p1 = p1
  None = None
  Client = {c1, c2}
  Pid = {p1}
  MaxFd = 2
  MaxClients = 2
  MaxPanes = 1
  MaxId = 1
  Roles = {"new", "attach", "list", "kill"}
  MayDie = TRUE
 
 
PROPERTY ExitNoticedUnlessIdle
CHECK_DEADLOCK FALSE
