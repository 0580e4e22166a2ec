SPECIFICATION LiveSpec
CONSTANTS
  MaxPanes = 3
INVARIANT TypeOK
INVARIANT NoShellLeftBehind
 
 
CHECK_DEADLOCK FALSE
