SPECIFICATION LiveSpec
CONSTANTS
  MaxPanes = 2
PROPERTY AttachEnds
CHECK_DEADLOCK FALSE
