SPECIFICATION LiveSpec
CONSTANTS
  Proc = {a, b, c}
  None = None
  MaxFaults = 2
INVARIANT TypeOK
 
INVARIANT OneDaemon
PROPERTY Recovers
PROPERTY WaitsForUsersOnly
CHECK_DEADLOCK FALSE
