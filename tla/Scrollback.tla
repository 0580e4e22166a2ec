----------------------------- MODULE Scrollback -----------------------------
(***************************************************************************)
(* What a pane promises its user: the last Size lines that left the        *)
(* screen, in order, above the screen itself, and a view of Height lines   *)
(* that can be moved up and down over both.  Detaching and attaching       *)
(* changes nothing; a new width cuts or pads every line.                   *)
(***************************************************************************)
EXTENDS Integers, Sequences

CONSTANTS
  Cell,    \* what one column of a line shows
  Blank,   \* the empty cell
  Size,    \* how many lines are kept
  Width,   \* columns at first
  Widths,  \* columns it may be given later
  Height   \* lines of the screen, and of the view

VARIABLES
  lines,   \* the kept lines, oldest first
  screen,  \* the screen, top line first
  offset   \* how far the view is above the screen

vars == <<lines, screen, offset>>

Keep(s) == IF Len(s) > Size THEN Tail(s) ELSE s
Fit(line, w) == [x \in 1 .. w |-> IF x \in DOMAIN line THEN line[x] ELSE Blank]
AtMost(n, limit) == IF n > limit THEN limit ELSE n

(* The Height lines the user sees. *)
View == [y \in 1 .. Height |-> (lines \o screen)[Len(lines) - offset + y]]

Init ==
  /\ lines = <<>>
  /\ offset = 0
  /\ screen = [y \in 1 .. Height |-> [x \in 1 .. Width |-> Blank]]

(* A line leaves the screen at the top, another appears at the bottom. *)
Scroll(line) ==
  /\ lines' = Keep(Append(lines, screen[1]))
  /\ screen' = [y \in 1 .. Height |-> IF y < Height THEN screen[y + 1] ELSE line]
  /\ UNCHANGED offset

Draw(y, line) ==
  /\ screen' = [screen EXCEPT ![y] = line]
  /\ UNCHANGED <<lines, offset>>

ViewUp ==
  /\ offset' = AtMost(offset + Height, Len(lines))
  /\ UNCHANGED <<lines, screen>>

ViewDown ==
  /\ offset' = IF offset < Height THEN 0 ELSE offset - Height
  /\ UNCHANGED <<lines, screen>>

ViewScreen ==
  /\ offset' = 0
  /\ UNCHANGED <<lines, screen>>

Refit(w) ==
  /\ lines' = [k \in 1 .. Len(lines) |-> Fit(lines[k], w)]
  /\ screen' = [y \in 1 .. Height |-> Fit(screen[y], w)]
  /\ UNCHANGED offset

Line == [DOMAIN screen[1] -> Cell]     \* lines of the present width

Next ==
  \/ \E line \in Line : Scroll(line)
  \/ \E y \in 1 .. Height, line \in Line : Draw(y, line)
  \/ ViewUp \/ ViewDown \/ ViewScreen
  \/ \E w \in Widths : Refit(w)

Spec == Init /\ [][Next]_vars
=============================================================================
