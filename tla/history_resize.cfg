SPECIFICATION ResizedSpec
CONSTANTS
  x = x
  Blank = Blank
  Cell = {x, Blank}
  history_size = 3
  Height = 2
  Width = 2
  Widths = {1, 2}
  UintMod = 16
  MaxCount = 8
PROPERTY ScrollbackKept
