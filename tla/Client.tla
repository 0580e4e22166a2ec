------------------------------- MODULE Client -------------------------------
(***************************************************************************)
(* One attached client: the state machine of src/client.c (dispatch_event, *)
(* client_loop and the act_ functions), the keys of src/keyboard.c, and    *)
(* the panes of its window with their places on the terminal               *)
(* (src/window.c), from the end of the attach or of new-session to the end *)
(* of the process.                                                         *)
(*                                                                         *)
(* The client is one thread around select.  Meanwhile the terminal changes *)
(* its size (SIGWINCH sets a flag), shells end, and the daemon answers a   *)
(* split, sets the size of a PTY it has already handed over, or closes the *)
(* connection.                                                             *)
(*                                                                         *)
(* A pane, its shell and its PTY are named by the pane's id.  A signal     *)
(* (SIGPIPE) or the use of freed memory may end the process: "dead".       *)
(* Abstracted: what panes show (module History), what is drawn, what keys  *)
(* say to the shells, the user's own key table.                            *)
(***************************************************************************)
EXTENDS Integers, Sequences, FiniteSets

CONSTANTS
  MaxPanes,  \* panes the daemon allows a session (MAX_PANES in server.h)
  Rows,      \* heights and
  Cols       \* widths the terminal may have

(* Bounds: the terminal has a line for a pane below 2 others, and a column *)
(* for every pane and every border.                                        *)
ASSUME SizesAssumption ==
  /\ MaxPanes \in Nat \ {0}
  /\ Rows \subseteq Nat /\ \A r \in Rows : r >= 3
  /\ Cols \subseteq Nat /\ \A c \in Cols : c >= 2 * MaxPanes - 1

VARIABLES
  pc,               \* where the client is in client_loop
  state,            \* c->state
  child_exited,     \* c->child_exited: leave the loop at its top
  ctrl_b_pressed,   \* the prefix key was the last one
  sigwinch_pending, \* flag set by the SIGWINCH handler
  rfds,             \* what select reported and was not read yet
  panes,            \* the window's panes, in list order
  next_pane_id,     \* w->next_pane_id
  pane,             \* c->pane, the active one
  pane_removed,     \* a pane was removed in this pass
  at,               \* place and size of every pane
  ws,               \* c->ws
  tty,              \* the terminal: its size, and was that size signalled
  raw,              \* raw mode, and the alternate screen on display
  shell,            \* life of the shell behind every pane
  size,             \* the size each PTY has
  late,             \* a PTY whose size the daemon has still to set
  server,           \* the connection, as the daemon left it
  told              \* the last message sent to the daemon

window == <<panes, next_pane_id, pane, at>>
env == <<tty, shell, late>>
vars == <<pc, state, child_exited, ctrl_b_pressed, sigwinch_pending, rfds,
          window, pane_removed, ws, raw, size, env, server, told>>

-----------------------------------------------------------------------------
Id == 0 .. (MaxPanes - 1)
NoPane == -1
Stdin == MaxPanes          \* in rfds, where a pane stands for its PTY
Server == MaxPanes + 1
Size == [row : Nat, col : Nat]
Listed == {panes[k] : k \in 1 .. Len(panes)}

(* dispatch_event's table: state, event -> next state.  An event without a *)
(* row is ignored.  EV_CHLD_EXIT and EV_INTERRUPT are left out: a client   *)
(* has no children, and every descriptor it selects on is open.            *)
table ==
  [ST_BOOT    |-> [EV_ENABLE_RAW_MODE |-> "ST_RUNNING"],
   ST_RUNNING |-> [EV_WINCH      |-> "ST_RUNNING",
                   EV_STDIN_READ |-> "ST_RUNNING",
                   EV_EOF_PTY    |-> "ST_EXITING",
                   EV_EOF_STDIN  |-> "ST_EXITING",
                   EV_DETACHED   |-> "ST_EXITING",
                   EV_PANE_SPLIT |-> "ST_RUNNING"],
   ST_EXITING |-> [EV_STDIN_READ |-> "ST_EXITING"]]
Handled(ev) == ev \in DOMAIN table[state]
Dispatch(ev) == state' = (IF Handled(ev) THEN table[state][ev] ELSE state)

(* The state is set when the action has returned: what events dispatched   *)
(* inside act_stdin_read made of it is overwritten.                        *)
AfterAction(nested) == nested      \* variant: the state is set before
AfterStdinRead(nested) == table["ST_RUNNING"]["EV_STDIN_READ"]

(* Layout: n panes side by side, a border of one column between them.      *)
ForgetBorders(cols, n) == cols \div n     \* variant
BothBorders(cols, n) == (cols - 2 * n) \div n  \* variant
PaneWidth(cols, n) == (cols - (n - 1)) \div n
Place(k, w, h) == [sx |-> w, sy |-> h, xoff |-> (k - 1) * (w + 1)]
Nowhere == [sx |-> 0, sy |-> 0, xoff |-> 0]
NoSize == [row |-> 0, col |-> 0]
LaidOut(l, w, h) ==
  [p \in Id |-> IF \E k \in 1 .. Len(l) : l[k] = p
                  THEN Place(CHOOSE k \in 1 .. Len(l) : l[k] = p, w, h)
                  ELSE Nowhere]
(* ioctl(TIOCSWINSZ) on the PTY of every pane of the list; what becomes of *)
(* a PTY the client has closed is not followed.                            *)
Resized(l, w, h) ==
  [p \in Id |-> IF \E k \in 1 .. Len(l) : l[k] = p
                  THEN [row |-> h, col |-> w] ELSE NoSize]
SizeForgotten(l, w, h) ==          \* variant: no ioctl
  at' = LaidOut(l, w, h) /\ UNCHANGED size
Relayout(l, w, h) ==
  /\ at' = LaidOut(l, w, h)
  /\ size' = Resized(l, w, h)

(* client_main after an attach to a session with n panes, or after         *)
(* new-session, whose PTY gets its size from the daemon.  c->ws was read   *)
(* when the program started, and has given a line to the status bar.  A    *)
(* resize since then was not signalled: the handler is installed last.     *)
Init ==
  \E n \in 1 .. MaxPanes, r \in Rows, c \in Cols, new \in BOOLEAN :
    LET w == PaneWidth(c, n) IN
    /\ pc = "boot" /\ state = "ST_BOOT"
    /\ child_exited = FALSE /\ ctrl_b_pressed = FALSE /\ sigwinch_pending = FALSE
    /\ rfds = {} /\ pane_removed = FALSE /\ raw = FALSE
    /\ new => n = 1
    /\ panes = [k \in 1 .. n |-> k - 1]
    /\ next_pane_id = n /\ pane = 0
    /\ at = [p \in Id |-> IF p < n THEN Place(p + 1, w, r - 1) ELSE Nowhere]
    /\ ws = [row |-> r - 1, col |-> c]
    /\ tty \in [row : Rows, col : Cols, told : {FALSE}]
    /\ shell = [p \in Id |-> IF p < n THEN "live" ELSE "none"]
    /\ size = [p \in Id |-> IF p < n /\ ~new THEN [row |-> r - 1, col |-> w] ELSE NoSize]
    /\ late = IF new THEN [id |-> 0, row |-> r - 1, col |-> c]
                     ELSE [id |-> NoPane, row |-> 0, col |-> 0]
    /\ server = "open" /\ told = "REQUEST"

-----------------------------------------------------------------------------
(* send_server; RESIZE, COMMAND and the attach are all a "REQUEST".        *)
(* Writing to a connection the daemon closed raises SIGPIPE.               *)
SendThen(msg, l) ==
  IF server = "open" THEN told' = msg /\ pc' = l
                     ELSE told' = told /\ pc' = "dead"

EnableRawMode ==
  /\ pc = "boot" /\ pc' = "select"
  /\ Dispatch("EV_ENABLE_RAW_MODE") /\ raw' = TRUE
  /\ UNCHANGED <<child_exited, ctrl_b_pressed, sigwinch_pending, rfds, window,
                 pane_removed, ws, size, env, server, told>>

(* A pane counts as readable once its shell has ended and its output was   *)
(* read.  Nothing in rfds: a pane had output, which goes to its screen.    *)
(* After select the flag is tested, and cleared before the size is read.   *)
MustBeReady == {p \in Listed : shell[p] = "ended"}
                 \cup (IF server = "closed" THEN {Server} ELSE {})
Returns(ready) == rfds' \in {ready, ready \cup {Stdin}}
SelectForgets ==                   \* variant: the flag is cleared at the top
  /\ pc = "select" /\ pc' = "server"
  /\ Returns(MustBeReady) /\ sigwinch_pending' = FALSE
  /\ UNCHANGED <<state, child_exited, ctrl_b_pressed, window,
                 pane_removed, ws, raw, size, env, server, told>>
Select ==
  /\ pc = "select"
  /\ Returns(MustBeReady)
  /\ pc' = (IF sigwinch_pending THEN "winch" ELSE "server")
  /\ sigwinch_pending' = FALSE
  /\ UNCHANGED <<state, child_exited, ctrl_b_pressed, window,
                 pane_removed, ws, raw, size, env, server, told>>

ActResize ==
  /\ pc = "winch" /\ Dispatch("EV_WINCH")
  /\ ws' = [row |-> tty.row, col |-> tty.col]
  /\ Relayout(panes, PaneWidth(tty.col, Len(panes)), tty.row - 1)
  /\ SendThen("REQUEST", "server")
  /\ UNCHANGED <<child_exited, ctrl_b_pressed, sigwinch_pending, rfds, panes,
                 next_pane_id, pane, pane_removed, raw, env, server>>

(* What act_child_exit and act_detach end with.                            *)
LeaveRaw == child_exited' = TRUE /\ UNCHANGED raw    \* variant
LeaveLater == raw' = FALSE /\ UNCHANGED child_exited \* variant
Leave == child_exited' = TRUE /\ raw' = FALSE

(* The end of the connection is the end of the session: act_child_exit.    *)
ServerRead ==
  /\ pc = "server" /\ pc' = "panes"
  /\ IF Server \in rfds
       THEN /\ Dispatch("EV_EOF_PTY")
            /\ IF Handled("EV_EOF_PTY") THEN Leave ELSE UNCHANGED <<child_exited, raw>>
       ELSE UNCHANGED <<state, child_exited, raw>>
  /\ UNCHANGED <<ctrl_b_pressed, sigwinch_pending, rfds, window, pane_removed,
                 ws, size, env, server, told>>

-----------------------------------------------------------------------------
(* Reading the panes, in list order. *)

Turn(k) ==
  /\ pc = "panes" /\ k \in 1 .. Len(panes) /\ panes[k] \in rfds
  /\ \A j \in 1 .. (k - 1) : panes[j] \notin rfds

ListDel(l, k) == [j \in 1 .. (Len(l) - 1) |-> IF j < k THEN l[j] ELSE l[j + 1]]
(* The pane after the active one takes over, or the one before it.         *)
KeepActive(k) == pane              \* variant: the focus is not moved
NextActive(k) ==
  IF pane # panes[k] THEN pane
  ELSE IF k < Len(panes) THEN panes[k + 1]
  ELSE IF k > 1 THEN panes[k - 1]
  ELSE pane

PaneEof(k) ==
  /\ Turn(k) /\ Len(panes) > 1
  /\ rfds' = rfds \ {panes[k]}
  /\ panes' = ListDel(panes, k) /\ pane' = NextActive(k)
  /\ pane_removed' = TRUE
  /\ UNCHANGED <<pc, state, child_exited, ctrl_b_pressed, sigwinch_pending,
                 next_pane_id, at, ws, raw, size, env, server, told>>

(* The last pane is destroyed while c->pane names it, and c->pane is used  *)
(* at once (list_empty), by the status bar and by the keys: undefined      *)
(* behaviour, the client dies of it or goes on with what is still there.   *)
LastPaneEof(k) ==
  /\ Turn(k) /\ Len(panes) = 1
  /\ panes' = <<>> /\ pane' = NextActive(k)
  /\ rfds' = rfds \cap {Stdin}
  /\ child_exited' = TRUE /\ pane_removed' = FALSE
  /\ pc' \in {"stdin", "dead"}
  /\ UNCHANGED <<state, ctrl_b_pressed, sigwinch_pending, next_pane_id, at,
                 ws, raw, size, env, server, told>>

(* If panes were removed, the others share the terminal. *)
PanesDone ==
  /\ pc = "panes" /\ pc' = "stdin"
  /\ \A k \in 1 .. Len(panes) : panes[k] \notin rfds
  /\ pane_removed' = FALSE
  /\ IF pane_removed /\ ~child_exited
       THEN Relayout(panes, PaneWidth(ws.col, Len(panes)), ws.row - 1)
       ELSE UNCHANGED <<at, size>>
  /\ UNCHANGED <<state, child_exited, ctrl_b_pressed, sigwinch_pending, rfds,
                 panes, next_pane_id, pane, ws, raw, env, server, told>>

-----------------------------------------------------------------------------
(* The terminal: act_stdin_read and the keys. *)

(* Back at the top of client_loop.                                         *)
NextPass == IF child_exited THEN "out" ELSE "select"

StdinRead ==
  /\ pc = "stdin"
  /\ IF Stdin \in rfds /\ state = "ST_RUNNING" THEN pc' = "keys" ELSE pc' = NextPass
  /\ rfds' = {}
  /\ UNCHANGED <<state, child_exited, ctrl_b_pressed, sigwinch_pending, window,
                 pane_removed, ws, raw, size, env, server, told>>

(* read returned 0: EV_EOF_STDIN is dispatched inside EV_STDIN_READ.       *)
StdinEof ==
  /\ pc = "stdin" /\ Stdin \in rfds /\ state = "ST_RUNNING"
  /\ state' = AfterStdinRead(table["ST_RUNNING"]["EV_EOF_STDIN"])
  /\ pc' = NextPass /\ rfds' = {}
  /\ UNCHANGED <<child_exited, ctrl_b_pressed, sigwinch_pending, window,
                 pane_removed, ws, raw, size, env, server, told>>

KeysDone ==
  /\ pc = "keys" /\ pc' = NextPass
  /\ state' = AfterStdinRead(state)
  /\ UNCHANGED <<child_exited, ctrl_b_pressed, sigwinch_pending, rfds, window,
                 pane_removed, ws, raw, size, env, server, told>>

(* Ctrl+B, also after Ctrl+B. *)
PrefixKey ==
  /\ pc = "keys" /\ ctrl_b_pressed' = TRUE
  /\ UNCHANGED <<pc, state, child_exited, sigwinch_pending, rfds, window,
                 pane_removed, ws, raw, size, env, server, told>>

Command == pc = "keys" /\ ctrl_b_pressed /\ ctrl_b_pressed' = FALSE

(* A key without a command is written to the active pane. *)
OtherKey ==
  /\ Command
  /\ UNCHANGED <<pc, state, child_exited, sigwinch_pending, rfds, window,
                 pane_removed, ws, raw, size, env, server, told>>

(* next_pane, in a window whose active pane is in the list; what the list  *)
(* links of a destroyed pane say cannot be told.                           *)
NextPane ==
  /\ Command
  /\ \/ /\ \E k \in 1 .. Len(panes) :
             /\ panes[k] = pane
             /\ pane' = IF k = Len(panes) THEN panes[1] ELSE panes[k + 1]
        /\ UNCHANGED pc
     \/ /\ pane \notin Listed
        /\ pc' = "dead" /\ UNCHANGED pane
  /\ UNCHANGED <<state, child_exited, sigwinch_pending, rfds, panes, next_pane_id, at,
                 pane_removed, ws, raw, size, env, server, told>>

(* act_detach: the screens of all panes, DETACH. *)
Detach ==
  /\ Command /\ Handled("EV_DETACHED")
  /\ Dispatch("EV_DETACHED")
  /\ SendThen("DETACH", "keys")
  /\ IF server = "open" THEN Leave ELSE UNCHANGED <<child_exited, raw>>
  /\ UNCHANGED <<sigwinch_pending, rfds, window, pane_removed, ws, size, env, server>>

(* act_pane_split: RESIZE and COMMAND, then recv_fd. *)
SplitAlways ==                     \* variant: the table has a row in ST_EXITING
  /\ Command /\ SendThen("REQUEST", "split")
  /\ UNCHANGED <<state, child_exited, sigwinch_pending, rfds, window, pane_removed,
                 ws, raw, size, env, server>>
SplitAsks ==
  /\ Command /\ Handled("EV_PANE_SPLIT")
  /\ Dispatch("EV_PANE_SPLIT")
  /\ SendThen("REQUEST", "split")
  /\ UNCHANGED <<child_exited, sigwinch_pending, rfds, window, pane_removed,
                 ws, raw, size, env, server>>

(* A command the state does not allow (after a detach). *)
NotNow ==
  /\ Command /\ ~Handled("EV_PANE_SPLIT")
  /\ UNCHANGED <<pc, state, child_exited, sigwinch_pending, rfds, window,
                 pane_removed, ws, raw, size, env, server, told>>

(* The daemon passes the new PTY's master: server_receive sets its size    *)
(* only afterwards, to that of the RESIZE.                                 *)
Split ==
  /\ pc = "split" /\ pc' = "keys"
  /\ server = "open" /\ late.id = NoPane
  /\ next_pane_id < MaxPanes
  /\ LET w == PaneWidth(ws.col, Len(panes) + 1)
         h == at[pane].sy IN
     /\ panes' = Append(panes, next_pane_id)
     /\ Relayout(Append(panes, next_pane_id), w, h)
     /\ late' = [id |-> next_pane_id, row |-> h, col |-> w]
  /\ shell' = [shell EXCEPT ![next_pane_id] = "live"]
  /\ next_pane_id' = next_pane_id + 1
  /\ UNCHANGED <<state, child_exited, ctrl_b_pressed, sigwinch_pending, rfds, pane,
                 pane_removed, ws, raw, tty, server, told>>

(* recv_fd finds the connection closed. *)
SplitFails ==
  /\ pc = "split" /\ server = "closed" /\ pc' = "keys"
  /\ UNCHANGED <<state, child_exited, ctrl_b_pressed, sigwinch_pending, rfds, window,
                 pane_removed, ws, raw, size, env, server, told>>

(* client_main after the loop; the active pane is destroyed.               *)
Exit ==
  /\ pc = "out"
  /\ \/ SendThen("EXITED", "ended")
     \/ pane \notin Listed /\ SendThen("EXITED", "dead")
  /\ UNCHANGED <<state, child_exited, ctrl_b_pressed, sigwinch_pending, rfds, window,
                 pane_removed, ws, raw, size, env, server>>

-----------------------------------------------------------------------------
(* What happens around the client. *)

Ended == pc \in {"ended", "dead"}

(* signal_handler: SIGWINCH interrupts select if the client sleeps there   *)
(* already, and only sets the flag if it is still on its way.              *)
Winch ==
  /\ pc # "boot" /\ ~Ended
  /\ \E r \in Rows, c \in Cols :
       /\ tty.row # r \/ tty.col # c
       /\ tty' = [row |-> r, col |-> c, told |-> TRUE]
  /\ \/ sigwinch_pending' = TRUE /\ UNCHANGED pc
     \/ pc = "select" /\ pc' = "winch" /\ sigwinch_pending' = FALSE
  /\ UNCHANGED <<state, child_exited, ctrl_b_pressed, rfds, window, pane_removed, ws, raw,
                 size, shell, late, server, told>>

ShellEnds ==
  /\ ~Ended
  /\ \E p \in Id : shell[p] = "live" /\ shell' = [shell EXCEPT ![p] = "ended"]
  /\ UNCHANGED <<pc, state, child_exited, ctrl_b_pressed, sigwinch_pending, rfds, window,
                 pane_removed, ws, raw, size, tty, late, server, told>>

(* The session ended or was detached or killed, or the daemon ended.       *)
ServerCloses ==
  /\ ~Ended /\ server = "open" /\ server' = "closed"
  /\ UNCHANGED <<pc, state, child_exited, ctrl_b_pressed, sigwinch_pending, rfds, window,
                 pane_removed, ws, raw, size, env, told>>

LateSize ==
  /\ ~Ended /\ late.id # NoPane
  /\ size' = [size EXCEPT ![late.id] = [row |-> late.row, col |-> late.col]]
  /\ late' = [id |-> NoPane, row |-> 0, col |-> 0]
  /\ UNCHANGED <<pc, state, child_exited, ctrl_b_pressed, sigwinch_pending, rfds, window,
                 pane_removed, ws, raw, tty, shell, server, told>>

-----------------------------------------------------------------------------
Loop ==
  \/ EnableRawMode \/ ActResize \/ ServerRead
  \/ (\E k \in 1 .. MaxPanes : PaneEof(k) \/ LastPaneEof(k))
  \/ PanesDone \/ StdinRead \/ StdinEof \/ KeysDone \/ SplitFails \/ Exit
Keys == PrefixKey \/ OtherKey \/ NextPane \/ Detach \/ SplitAsks \/ NotNow
Next ==
  \/ Select \/ Loop \/ Keys \/ Split
  \/ Winch \/ ShellEnds \/ ServerCloses \/ LateSize

Spec == Init /\ [][Next]_vars

(* The client runs on unless it is blocked in select with nothing to read, *)
(* or in recv_fd, and a buffer of keys ends.  Nothing makes a user type, a *)
(* terminal change, a shell end or the daemon answer or hang up.           *)
LiveSpec == Spec /\ WF_vars(Loop) /\ WF_vars(KeysDone)
                 /\ WF_vars(MustBeReady # {} /\ Select)

-----------------------------------------------------------------------------
(* Properties. *)

(* Types.                                                                  *)
TypeOK ==
  /\ pc \in {"boot", "select", "winch", "server", "panes",
             "stdin", "keys", "split", "out", "ended", "dead"}
  /\ state \in {"ST_BOOT", "ST_RUNNING", "ST_EXITING"}
  /\ child_exited \in BOOLEAN /\ ctrl_b_pressed \in BOOLEAN
  /\ sigwinch_pending \in BOOLEAN /\ pane_removed \in BOOLEAN /\ raw \in BOOLEAN
  /\ rfds \subseteq Id \cup {Stdin, Server}
  /\ panes \in Seq(Id) /\ pane \in Id /\ next_pane_id \in 1 .. MaxPanes
  /\ at \in [Id -> [sx : Nat, sy : Nat, xoff : Nat]]
  /\ ws \in Size /\ tty \in [row : Rows, col : Cols, told : BOOLEAN]
  /\ shell \in [Id -> {"none", "live", "ended"}]
  /\ size \in [Id -> Size]
  /\ late \in [id : Id \cup {NoPane}, row : Nat, col : Nat]
  /\ server \in {"open", "closed"}
  /\ told \in {"REQUEST", "DETACH", "EXITED"}

(* Keys go to a pane that is there: until the loop is about to be left the *)
(* active pane is in the list, although panes vanish from anywhere in it,  *)
(* several in one pass (client.c:459-480, keyboard.c:27-36).               *)
FocusListed == ~child_exited /\ pc # "dead" => pane \in Listed

(* The state machine hears the end of its session: whatever was dispatched *)
(* inside act_stdin_read, the loop goes on in ST_RUNNING, the only state   *)
(* with a row for EV_EOF_PTY and EV_WINCH (client.c:35-63, 237-243).       *)
StillListening ==
  ~child_exited /\ pc \in {"select", "winch", "server", "panes", "stdin"}
    => state = "ST_RUNNING"

(* Panes lie side by side with a border between them, within the terminal, *)
(* above the status bar, and fewer columns than panes are left over - after*)
(* any sequence of splits, ends of shells and resizes (client.c:163-207,   *)
(* 340-369, 486-500).                                                      *)
PanesTile ==
  ~child_exited /\ ~pane_removed =>
    \A k \in 1 .. Len(panes) :
      LET a == at[panes[k]] IN
      /\ a.sx >= 1 /\ a.sy >= 1 /\ a.sy <= ws.row
      /\ k = 1 => a.xoff = 0
      /\ k < Len(panes) => at[panes[k + 1]].xoff = a.xoff + a.sx + 1
      /\ a.xoff + a.sx <= ws.col
      /\ k = Len(panes) => ws.col - (a.xoff + a.sx) < Len(panes)

(* Every PTY has the size of its pane, except that the daemon may still    *)
(* set, or have set too late, that of the newest pane: send_fd comes before*)
(* the ioctl (server.c:233-236, client.c:348, 357, 498).                   *)
PtySizesAgree ==
  ~child_exited /\ ~pane_removed =>
    \A p \in Listed :
      p = next_pane_id - 1 \/ size[p] = [row |-> at[p].sy, col |-> at[p].sx]

(* No resize is forgotten: as long as the size the terminal was given last *)
(* is not the one the panes were laid out for, the flag is set or          *)
(* act_resize is about to read it (client.c:165, 301, 420-423).            *)
ResizeKept ==
  tty.told /\ ~Ended =>
    \/ sigwinch_pending \/ pc = "winch"
    \/ ws.row = tty.row /\ ws.col = tty.col

(* However the client leaves its loop - detached, session killed, daemon   *)
(* gone - the terminal is restored.  The exception: the end of the last    *)
(* pane, which sets child_exited and calls no act_child_exit               *)
(* (client.c:43, 209-214, 477-479).                                        *)
TerminalGivenBack == pc \in {"out", "ended"} /\ pane \in Listed => ~raw

(* After DETACH the client says nothing but EXITED, whatever else was      *)
(* typed before the daemon let it go: it would speak for a session it no   *)
(* longer has (client.c:46-47, 256-259, 275-290).                          *)
DetachIsLast == [][told = "DETACH" => told' \in {"DETACH", "EXITED"}]_vars

(* A client whose session is over - it has detached, or the connection was *)
(* closed - ends, whatever it was doing, also waiting for a pane it asked  *)
(* for (client.c:334, 433-438).                                            *)
EndsWithSession == server = "closed" \/ told = "DETACH" ~> Ended

=============================================================================
