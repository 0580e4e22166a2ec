SPECIFICATION LiveSpec
CONSTANTS
  Proc = {a, b}
  None = None
  MaxFaults = 0
PROPERTY StartEnds
CHECK_DEADLOCK FALSE
