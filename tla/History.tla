------------------------------ MODULE History -------------------------------
(***************************************************************************)
(* The grid of a pane (src/render.c, src/window.c): the screen, the ring   *)
(* of lines that scrolled off it, scrolling, and the way grid_serialize    *)
(* and grid_deserialize carry both through a detach and an attach.         *)
(*                                                                         *)
(* The ring is one array of cells: row k of it starts at k * width, and    *)
(* the rows are used round about, "history_count % history_size".          *)
(*                                                                         *)
(* Abstracted: what a cell holds (character, colours, attributes); the     *)
(* terminal emulator, which draws any line anywhere, and scrolls (a chunk  *)
(* of output is several such steps, and cells stands for its screen and    *)
(* for the grid, which pane_input brings in line before anything is        *)
(* shown); the height, which stays; and the cursor.                        *)
(***************************************************************************)
EXTENDS Integers, Sequences

CONSTANTS
  Cell,         \* contents of a cell
  Blank,        \* the empty cell (calloc; a space in the history)
  history_size, \* rows of the ring           (1000, window.c:163)
  Height,       \* rows of the screen
  Width,        \* columns of the pane when it is created
  Widths,       \* columns a resize may ask for
  UintMod,      \* unsigned int counts modulo this (2^32)
  MaxCount      \* bound: lines pushed between two attaches

ASSUME CellAssumption == Blank \in Cell
ASSUME SizeAssumption ==
  /\ history_size \in Nat \ {0}
  /\ Height \in Nat \ {0}
  /\ Width \in Nat \ {0}
  /\ Widths \subseteq Nat \ {0}
ASSUME CountAssumption ==
  /\ UintMod \in Nat /\ MaxCount \in Nat
  /\ history_size < UintMod /\ MaxCount < UintMod

VARIABLES
  cells,          \* the screen: row -> column -> cell
  width,          \* columns of the grid
  history_cells,  \* the ring: address -> cell
  history_count,  \* lines pushed, modulo UintMod
  scroll_offset   \* rows the view is above the screen

vars == <<cells, width, history_cells, history_count, scroll_offset>>

-----------------------------------------------------------------------------
Row(w) == [1 .. w -> Cell]
Memory(w) == [0 .. (history_size * w - 1) -> Cell]
Cleared(n) == [a \in 0 .. (n - 1) |-> Blank]     \* calloc

(* Row k of a memory laid out in rows of w cells. *)
RowAt(mem, w, k) == [x \in 1 .. w |-> mem[k * w + x - 1]]

Stored(count) == IF count < history_size THEN count ELSE history_size

(* Where the k-th oldest row is (k from 0). *)
RingRow(count, k) ==
  IF count <= history_size THEN k
  ELSE ((count % history_size) + k) % history_size

Init ==
  /\ width = Width
  /\ cells = [y \in 1 .. Height |-> [x \in 1 .. Width |-> Blank]]
  /\ history_cells = Cleared(history_size * Width)
  /\ history_count = 0
  /\ scroll_offset = 0

(* The emulator scrolls: screen_sb_pushline copies the top line into the   *)
(* ring, then the grid takes the new screen over.                          *)
PushLine(row) ==
  LET dst == (history_count % history_size) * width IN
  /\ history_count < MaxCount
  /\ history_cells' = [a \in DOMAIN history_cells |->
       IF a \in dst .. (dst + width - 1) THEN cells[1][a - dst + 1]
       ELSE history_cells[a]]
  /\ history_count' = (history_count + 1) % UintMod
  /\ cells' = [y \in 1 .. Height |-> IF y < Height THEN cells[y + 1] ELSE row]
  /\ UNCHANGED <<width, scroll_offset>>

(* The emulator changes a line of the screen. *)
PaneInput(y, row) ==
  /\ cells' = [cells EXCEPT ![y] = row]
  /\ UNCHANGED <<width, history_cells, history_count, scroll_offset>>

ScrollPastOldest ==              \* variant: the limit is forgotten
  /\ scroll_offset' = scroll_offset + Height
  /\ UNCHANGED <<cells, width, history_cells, history_count>>
ScrollUp ==
  /\ scroll_offset' =
       IF scroll_offset + Height > Stored(history_count) THEN Stored(history_count)
       ELSE scroll_offset + Height
  /\ UNCHANGED <<cells, width, history_cells, history_count>>

ScrollDown ==
  /\ scroll_offset' =
       IF Height > scroll_offset THEN 0 ELSE scroll_offset - Height
  /\ UNCHANGED <<cells, width, history_cells, history_count>>

(* Any ordinary key leaves the history. *)
LeaveHistory ==
  /\ scroll_offset > 0
  /\ scroll_offset' = 0
  /\ UNCHANGED <<cells, width, history_cells, history_count>>

(* grid_get_display_line: the row shown in line y of the pane. *)
DisplayNextLine(y) ==            \* variant: one line too far down
  LET available == Stored(history_count)
      history_line == available - scroll_offset + y IN
  IF scroll_offset = 0 THEN cells[y]
  ELSE IF history_line >= available THEN cells[history_line - available + 1]
  ELSE RowAt(history_cells, width, RingRow(history_count, history_line))
DisplayLine(y) ==
  LET available == Stored(history_count)
      history_line == available - scroll_offset + y - 1 IN
  CASE scroll_offset = 0 -> cells[y]
    [] scroll_offset > 0 /\ (history_count = 0 \/ history_line < 0) ->
         [x \in 1 .. width |-> Blank]
    [] scroll_offset > 0 /\ history_count > 0 /\ history_line >= available ->
         cells[history_line - available + 1]
    [] OTHER -> RowAt(history_cells, width, RingRow(history_count, history_line))

-----------------------------------------------------------------------------
(* Detach and attach: the grid is serialised, kept by the daemon, and      *)
(* deserialised into a new grid.                                           *)

(* The history part of grid_serialize: the rows in order, oldest first,    *)
(* copied in one piece or in two.                                          *)
OnePiece(a) == history_cells[a]                  \* variant: copied as it lies
SavedCell(a) ==
  LET oldest == history_count % history_size
      old_one == (history_size - oldest) * width IN
  IF history_count <= history_size THEN history_cells[a]
  ELSE IF a < old_one THEN history_cells[oldest * width + a]
  ELSE history_cells[a - old_one]

SaveAndRestore ==
  LET stored == Stored(history_count) IN
  /\ history_cells' = [a \in 0 .. (history_size * width - 1) |->
       IF a < stored * width THEN SavedCell(a) ELSE Blank]
  /\ history_count' = stored
  /\ UNCHANGED <<cells, width, scroll_offset>>

(* pane_resize: the screen is copied into rows of the new width; the ring  *)
(* stays as it is.  Bound: never wider than the ring was allocated for.    *)
PaneResize(w) ==
  /\ w # width
  /\ history_size * w - 1 \in DOMAIN history_cells
  /\ cells' = [y \in 1 .. Height |-> [x \in 1 .. w |->
       IF x <= width THEN cells[y][x] ELSE Blank]]
  /\ width' = w
  /\ UNCHANGED <<history_cells, history_count, scroll_offset>>

-----------------------------------------------------------------------------
Next ==
  \/ \E row \in Row(width) : PushLine(row)
  \/ \E y \in 1 .. Height, row \in Row(width) : PaneInput(y, row)
  \/ ScrollUp \/ ScrollDown \/ LeaveHistory
  \/ SaveAndRestore

Spec == Init /\ [][Next]_vars                    \* a pane that keeps its width
ResizedSpec == Init /\ [][Next \/ \E w \in Widths : PaneResize(w)]_vars

-----------------------------------------------------------------------------
(* Properties. *)

(* Every variable has its type; in particular the ring is read and written *)
(* inside its allocation, and the view is never above the oldest row.      *)
TypeOK ==
  /\ width \in Nat \ {0}
  /\ cells \in [1 .. Height -> Row(width)]
  /\ history_cells \in Memory(width)
  /\ history_count \in 0 .. (UintMod - 1)
  /\ scroll_offset \in 0 .. Stored(history_count)

(* The rows kept, oldest first. *)
Lines == [k \in 1 .. Stored(history_count) |->
            RowAt(history_cells, width, RingRow(history_count, k - 1))]
Ideal == INSTANCE Scrollback WITH
  Size <- history_size, lines <- Lines, screen <- cells, offset <- scroll_offset

(* The ring holds the last history_size lines that left the screen, in     *)
(* order, however often it went round, and a detach and attach keeps them: *)
(* "default: save 1000 lines of history" (render.c:15, 50-59, 295-402,     *)
(* window.c:36-66).                                                        *)
ScrollbackKept == Ideal!Spec

(* What grid_get_display_line puts into the pane is the part of history    *)
(* and screen the view is at, without a gap, a repetition or a blank line  *)
(* (render.c:61-91).                                                       *)
ShowsView == \A y \in 1 .. Height : DisplayLine(y) = Ideal!View[y]
=============================================================================
