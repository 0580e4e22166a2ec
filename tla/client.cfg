SPECIFICATION LiveSpec
CONSTANTS
  MaxPanes = 3
  Rows = {4}
  Cols = {5, 8}
INVARIANT TypeOK
INVARIANT FocusListed
INVARIANT StillListening
INVARIANT PanesTile
INVARIANT PtySizesAgree
INVARIANT ResizeKept
INVARIANT TerminalGivenBack
PROPERTY DetachIsLast
PROPERTY EndsWithSession
CHECK_DEADLOCK FALSE
