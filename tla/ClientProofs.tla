---------------------------- MODULE ClientProofs ----------------------------
(***************************************************************************)
(* Proofs about the client of module Client, for any number of panes and   *)
(* any sizes of the terminal that have room for them.                      *)
(***************************************************************************)
EXTENDS Client, TLAPS

-----------------------------------------------------------------------------
(* The inductive invariant. *)

(* Panes have different ids, all given out by next_pane_id.                *)
Lists ==
  /\ \A j, k \in 1 .. Len(panes) : panes[j] = panes[k] => j = k
  /\ \A k \in 1 .. Len(panes) : panes[k] < next_pane_id
  /\ Len(panes) <= next_pane_id
  /\ pane < next_pane_id

(* What holds where in the loop.                                           *)
Places ==
  /\ pc \in {"boot", "select", "winch", "server"} => ~child_exited
  /\ pc \in {"out", "ended"} => child_exited
  /\ pc = "boot" => state = "ST_BOOT"
  /\ pane_removed => pc = "panes"

(* A client that leaves restored the terminal, or it lost its last pane.   *)
Restored == child_exited /\ raw => pane \notin Listed /\ pc # "panes"

(* A client that said DETACH is on its way out, in a state in which no     *)
(* command is handled.                                                     *)
Leaving ==
  told = "DETACH" =>
    /\ child_exited
    /\ pc \in {"keys", "out", "dead"}
    /\ pc = "keys" => state = "ST_EXITING"

Control == Places /\ FocusListed /\ StillListening /\ Restored /\ Leaving /\ ResizeKept

(* The panes are where the layout of all of them puts them.                *)
Laid ==
  /\ ws.col \in Cols /\ ws.row >= 2
  /\ ~child_exited /\ ~pane_removed =>
       \E h \in 1 .. ws.row :
         \A k \in 1 .. Len(panes) :
           at[panes[k]] = Place(k, PaneWidth(ws.col, Len(panes)), h)

(* The only PTY the daemon has still to size is the newest.                *)
Sized == PtySizesAgree /\ late.id \in {NoPane, next_pane_id - 1}

IInv == TypeOK /\ Lists /\ Control /\ Laid /\ Sized

-----------------------------------------------------------------------------
(* Division: n panes of the width PaneWidth and their borders fill all but *)
(* fewer than n of the columns.                                            *)
LEMMA Division ==
  ASSUME NEW m \in Nat, NEW n \in Nat \ {0}
  PROVE  /\ m \div n \in Nat
         /\ n * (m \div n) <= m
         /\ m < n * (m \div n) + n
  BY SMT

LEMMA WidthFits ==
  ASSUME NEW c \in Cols, NEW n \in 1 .. MaxPanes
  PROVE  /\ PaneWidth(c, n) \in Nat
         /\ PaneWidth(c, n) >= 1
         /\ n * PaneWidth(c, n) + (n - 1) <= c
         /\ c - (n * PaneWidth(c, n) + (n - 1)) < n
<1> DEFINE m == c - (n - 1)
           w == m \div n
<1>1. c \in Nat /\ n \in Nat \ {0} /\ m \in Nat /\ m >= n
  BY SizesAssumption
<1>2. w \in Nat /\ n * w <= m /\ m < n * w + n
  BY <1>1, Division
<1>3. w >= 1
  <2> HIDE DEF m, w
  <2> SUFFICES w # 0
    BY <1>2
  <2> QED BY <1>1, <1>2
<1> HIDE DEF w
<1>4. n * w \in Nat
  BY <1>1, <1>2
<1> QED BY <1>1, <1>2, <1>3, <1>4 DEF PaneWidth, w

(* The k-th of n panes ends within the terminal, and a border before the   *)
(* next one.                                                               *)
LEMMA PlaceFits ==
  ASSUME NEW c \in Cols, NEW n \in 1 .. MaxPanes, NEW k \in 1 .. n,
         NEW w \in Nat, w = PaneWidth(c, n), NEW h
  PROVE  /\ Place(k, w, h).sx = w /\ Place(k, w, h).sy = h
         /\ Place(k, w, h).xoff \in Nat
         /\ k = 1 => Place(k, w, h).xoff = 0
         /\ Place(k, w, h).xoff + w <= c
         /\ Place(k + 1, w, h).xoff = Place(k, w, h).xoff + w + 1
         /\ k = n => c - (Place(k, w, h).xoff + w) < n
<1>1. c \in Nat /\ n \in Nat \ {0} /\ k \in Nat \ {0} /\ k <= n
  BY SizesAssumption
<1>2. n * w + (n - 1) <= c /\ c - (n * w + (n - 1)) < n
  BY WidthFits
<1>3. /\ Place(k, w, h).sx = w /\ Place(k, w, h).sy = h
      /\ Place(k, w, h).xoff = (k - 1) * (w + 1)
      /\ Place(k + 1, w, h).xoff = ((k + 1) - 1) * (w + 1)
  BY DEF Place
<1>4. (k - 1) * (w + 1) \in Nat
  BY <1>1
<1>5. ((k + 1) - 1) * (w + 1) = (k - 1) * (w + 1) + w + 1
  BY <1>1
<1>6. (k - 1) * (w + 1) + w <= n * w + (n - 1)
  <2>1. (k - 1) * (w + 1) + w = k * (w + 1) - 1
    BY <1>1
  <2>2. k * (w + 1) <= n * (w + 1)
    BY <1>1
  <2>3. n * (w + 1) - 1 = n * w + (n - 1)
    BY <1>1
  <2>4. k * (w + 1) \in Nat /\ n * (w + 1) \in Nat /\ n * w \in Nat
    BY <1>1
  <2> QED BY <2>1, <2>2, <2>3, <2>4
<1>7. k = n => (k - 1) * (w + 1) + w = n * w + (n - 1)
  BY <1>1
<1>8. k = 1 => (k - 1) * (w + 1) = 0
  BY <1>1
<1>9. n * w \in Nat
  BY <1>1
<1> QED BY <1>1, <1>2, <1>3, <1>4, <1>5, <1>6, <1>7, <1>8, <1>9

Distinct(l) == \A j, k \in 1 .. Len(l) : l[j] = l[k] => j = k

LEMMA RelayoutFacts ==
  ASSUME NEW l \in Seq(Id), NEW w \in Nat, NEW h \in Nat, Relayout(l, w, h)
  PROVE  /\ at' \in [Id -> [sx : Nat, sy : Nat, xoff : Nat]]
         /\ size' \in [Id -> Size]
         /\ \A k \in 1 .. Len(l) :
              /\ size'[l[k]] = [row |-> h, col |-> w]
              /\ at'[l[k]].sx = w /\ at'[l[k]].sy = h
<1> DEFINE in(p) == \E k \in 1 .. Len(l) : l[k] = p
           pos(p) == CHOOSE k \in 1 .. Len(l) : l[k] = p
<1>1. ASSUME NEW p \in Id, in(p)
      PROVE  pos(p) \in 1 .. Len(l) /\ l[pos(p)] = p
  BY <1>1
<1>2. ASSUME NEW p \in Id, in(p)
      PROVE  /\ at'[p] = Place(pos(p), w, h)
             /\ size'[p] = [row |-> h, col |-> w]
  BY <1>2 DEF Relayout, LaidOut, Resized
<1>3. ASSUME NEW p \in Id, ~in(p)
      PROVE  at'[p] = Nowhere /\ size'[p] = NoSize
  BY <1>3 DEF Relayout, LaidOut, Resized
<1> HIDE DEF pos
<1>4. ASSUME NEW k \in 1 .. Len(l)
      PROVE  Place(k, w, h) \in [sx : Nat, sy : Nat, xoff : Nat]
  <2>1. k \in Nat /\ k - 1 \in Nat /\ w + 1 \in Nat
    OBVIOUS
  <2>2. (k - 1) * (w + 1) \in Nat
    BY <2>1
  <2> QED BY <2>2 DEF Place
<1>5. at' \in [Id -> [sx : Nat, sy : Nat, xoff : Nat]]
  <2>1. at' = [p \in Id |-> at'[p]]
    BY DEF Relayout, LaidOut
  <2>2. ASSUME NEW p \in Id
        PROVE  at'[p] \in [sx : Nat, sy : Nat, xoff : Nat]
    BY <1>1, <1>2, <1>3, <1>4 DEF Nowhere
  <2> QED BY <2>1, <2>2
<1>6. size' \in [Id -> Size]
  BY DEF Relayout, Resized, NoSize, Size
<1>7. ASSUME NEW k \in 1 .. Len(l)
      PROVE  /\ l[k] \in Id /\ in(l[k])
             /\ size'[l[k]] = [row |-> h, col |-> w]
             /\ at'[l[k]].sx = w /\ at'[l[k]].sy = h
  <2>1. l[k] \in Id /\ in(l[k])
    OBVIOUS
  <2>2. at'[l[k]] = Place(pos(l[k]), w, h) /\ size'[l[k]] = [row |-> h, col |-> w]
    BY <2>1, <1>2
  <2> QED BY <2>1, <2>2 DEF Place
<1> QED BY <1>5, <1>6, <1>7

LEMMA RelayoutPlaces ==
  ASSUME NEW l \in Seq(Id), NEW w \in Nat, NEW h \in Nat, Relayout(l, w, h), Distinct(l),
         NEW k \in 1 .. Len(l)
  PROVE  at'[l[k]] = Place(k, w, h)
<1>1. l[k] \in Id
  OBVIOUS
<1>2. (CHOOSE j \in 1 .. Len(l) : l[j] = l[k]) = k
  BY DEF Distinct
<1> QED BY <1>1, <1>2 DEF Relayout, LaidOut

LEMMA RelayoutSizes ==
  ASSUME NEW l \in Seq(Id), NEW w \in Nat, NEW h \in Nat, Relayout(l, w, h),
         NEW p, \E k \in 1 .. Len(l) : p = l[k]
  PROVE  size'[p] = [row |-> at'[p].sy, col |-> at'[p].sx]
<1> PICK k \in 1 .. Len(l) : p = l[k]
  OBVIOUS
<1>1. size'[l[k]] = [row |-> h, col |-> w] /\ at'[l[k]].sx = w /\ at'[l[k]].sy = h
  BY RelayoutFacts
<1> QED BY <1>1

LEMMA ListDelFacts ==
  ASSUME NEW l \in Seq(Id), NEW k \in 1 .. Len(l)
  PROVE  /\ ListDel(l, k) \in Seq(Id)
         /\ Len(ListDel(l, k)) = Len(l) - 1
         /\ \A j \in 1 .. (Len(l) - 1) :
              ListDel(l, k)[j] = IF j < k THEN l[j] ELSE l[j + 1]
  BY DEF ListDel

-----------------------------------------------------------------------------
(* The initial states. *)

LEMMA InitInv == Init => IInv
<1> SUFFICES ASSUME Init PROVE IInv
  OBVIOUS
<1> PICK n \in 1 .. MaxPanes, r \in Rows, c \in Cols, new \in BOOLEAN :
      /\ pc = "boot" /\ state = "ST_BOOT"
      /\ child_exited = FALSE /\ ctrl_b_pressed = FALSE /\ sigwinch_pending = FALSE
      /\ rfds = {} /\ pane_removed = FALSE /\ raw = FALSE
      /\ new => n = 1
      /\ panes = [k \in 1 .. n |-> k - 1]
      /\ next_pane_id = n /\ pane = 0
      /\ at = [p \in Id |-> IF p < n THEN Place(p + 1, PaneWidth(c, n), r - 1) ELSE Nowhere]
      /\ ws = [row |-> r - 1, col |-> c]
      /\ tty \in [row : Rows, col : Cols, told : {FALSE}]
      /\ shell = [p \in Id |-> IF p < n THEN "live" ELSE "none"]
      /\ size = [p \in Id |-> IF p < n /\ ~new
                               THEN [row |-> r - 1, col |-> PaneWidth(c, n)] ELSE NoSize]
      /\ late = IF new THEN [id |-> 0, row |-> r - 1, col |-> c]
                       ELSE [id |-> NoPane, row |-> 0, col |-> 0]
      /\ server = "open" /\ told = "REQUEST"
  BY DEF Init
<1> DEFINE w == PaneWidth(c, n)
<1>1. /\ r \in Nat /\ r >= 3 /\ c \in Nat /\ n \in Nat \ {0} /\ n <= MaxPanes
      /\ MaxPanes \in Nat \ {0}
  BY SizesAssumption
<1>2. w \in Nat
  BY WidthFits
<1> HIDE DEF w
<1>3. /\ panes \in Seq(Id) /\ Len(panes) = n
      /\ \A k \in 1 .. n : panes[k] = k - 1 /\ panes[k] \in Id
  BY <1>1 DEF Id
<1>4. ASSUME NEW p \in Id
      PROVE  at[p] \in [sx : Nat, sy : Nat, xoff : Nat]
  <2>1. p \in Nat /\ ((p + 1) - 1) * (w + 1) \in Nat
    BY <1>1, <1>2 DEF Id
  <2> QED BY <1>1, <1>2, <2>1 DEF Place, Nowhere, w
<1>5. TypeOK
  <2>1. at \in [Id -> [sx : Nat, sy : Nat, xoff : Nat]]
    BY <1>4
  <2>2. ws \in Size /\ size \in [Id -> Size]
    BY <1>1, <1>2 DEF Size, NoSize, w
  <2>3. late \in [id : Id \cup {NoPane}, row : Nat, col : Nat]
    BY <1>1 DEF Id, NoPane
  <2>4. pane \in Id /\ next_pane_id \in 1 .. MaxPanes
    BY <1>1 DEF Id
  <2>5. tty \in [row : Rows, col : Cols, told : BOOLEAN]
    OBVIOUS
  <2> QED BY <1>3, <2>1, <2>2, <2>3, <2>4, <2>5 DEF TypeOK
<1>6. Lists
  BY <1>1, <1>3 DEF Lists
<1>7. panes[1] = pane /\ pane \in Listed
  BY <1>1, <1>3 DEF Listed
<1>8. Control
  BY <1>7 DEF Control, Places, FocusListed, StillListening, Restored, Leaving,
              ResizeKept, Ended
<1>9. ASSUME NEW k \in 1 .. n
      PROVE  at[panes[k]] = Place(k, w, r - 1)
  BY <1>1, <1>3 DEF Id, w
<1>10. Laid
  BY <1>1, <1>3, <1>9 DEF Laid, w
<1>11. Sized
  <2>1. ASSUME NEW p \in Listed, p # next_pane_id - 1
        PROVE  size[p] = [row |-> at[p].sy, col |-> at[p].sx]
    <3>1. PICK k \in 1 .. n : p = panes[k]
      BY <1>3, <2>1 DEF Listed
    <3>2. ~new
      BY <3>1, <1>1, <1>3, <2>1
    <3> QED BY <3>1, <3>2, <1>1, <1>3, <1>9 DEF Id, Place, w
  <2>2. late.id \in {NoPane, next_pane_id - 1}
    BY <1>1
  <2> QED BY <2>1, <2>2 DEF Sized, PtySizesAgree
<1> QED BY <1>5, <1>6, <1>8, <1>10, <1>11 DEF IInv

-----------------------------------------------------------------------------
(* The steps keep the types. *)

(* What the table says of the events that are dispatched. *)
LEMMA TableFacts ==
  ASSUME state \in {"ST_BOOT", "ST_RUNNING", "ST_EXITING"}
  PROVE  /\ Handled("EV_ENABLE_RAW_MODE") <=> state = "ST_BOOT"
         /\ Handled("EV_WINCH") <=> state = "ST_RUNNING"
         /\ Handled("EV_EOF_PTY") <=> state = "ST_RUNNING"
         /\ Handled("EV_DETACHED") <=> state = "ST_RUNNING"
         /\ Handled("EV_PANE_SPLIT") <=> state = "ST_RUNNING"
         /\ table["ST_BOOT"]["EV_ENABLE_RAW_MODE"] = "ST_RUNNING"
         /\ table["ST_RUNNING"]["EV_WINCH"] = "ST_RUNNING"
         /\ table["ST_RUNNING"]["EV_STDIN_READ"] = "ST_RUNNING"
         /\ table["ST_RUNNING"]["EV_EOF_PTY"] = "ST_EXITING"
         /\ table["ST_RUNNING"]["EV_DETACHED"] = "ST_EXITING"
         /\ table["ST_RUNNING"]["EV_PANE_SPLIT"] = "ST_RUNNING"
BY DEF Handled, table

LEMMA Dispatched ==
  ASSUME state \in {"ST_BOOT", "ST_RUNNING", "ST_EXITING"}
  PROVE  /\ Dispatch("EV_ENABLE_RAW_MODE") =>
              state' = IF state = "ST_BOOT" THEN "ST_RUNNING" ELSE state
         /\ Dispatch("EV_WINCH") => state' = state
         /\ Dispatch("EV_EOF_PTY") =>
              state' = IF state = "ST_RUNNING" THEN "ST_EXITING" ELSE state
         /\ Dispatch("EV_DETACHED") =>
              state' = IF state = "ST_RUNNING" THEN "ST_EXITING" ELSE state
         /\ Dispatch("EV_PANE_SPLIT") => state' = state
BY TableFacts DEF Dispatch

(* While the loop goes on there is a pane, and never more than MaxPanes.   *)
LEMMA OnePane ==
  ASSUME TypeOK, Lists, Control
  PROVE  /\ Len(panes) <= MaxPanes
         /\ ~child_exited /\ pc # "dead" => Len(panes) \in 1 .. MaxPanes
         /\ pc = "winch" => Len(panes) \in 1 .. MaxPanes
<1>1. Len(panes) \in Nat /\ Len(panes) <= MaxPanes
  BY SizesAssumption DEF TypeOK, Lists
<1>2. pane \in Listed => Len(panes) # 0
  BY <1>1 DEF Listed
<1> QED BY <1>1, <1>2, SizesAssumption DEF Control, Places, FocusListed

LEMMA ListedIds == ASSUME TypeOK PROVE Listed \subseteq Id
<1>1. panes \in Seq(Id)
  BY DEF TypeOK
<1>2. ASSUME NEW k \in 1 .. Len(panes) PROVE panes[k] \in Id
  BY <1>1
<1> QED BY <1>2 DEF Listed

LEMMA TypeStep ==
  ASSUME IInv, [Next]_vars
  PROVE  TypeOK'
<1> USE DEF TypeOK
<1>0. /\ TypeOK /\ Lists /\ Control /\ Laid
      /\ state \in {"ST_BOOT", "ST_RUNNING", "ST_EXITING"}
  BY DEF IInv
<1>1. CASE UNCHANGED vars
  BY <1>0, <1>1 DEF vars, window, env
<1>2. CASE EnableRawMode
  BY <1>0, <1>2, Dispatched DEF EnableRawMode, window, env
<1>3. CASE Select
  <2>1. rfds' \subseteq Id \cup {Stdin, Server}
    <3>1. Listed \subseteq Id
      BY <1>0, ListedIds
    <3> QED BY <3>1, <1>3 DEF Select, Returns, MustBeReady
  <2> QED BY ZenonT(60), <1>0, <1>3, <2>1 DEF Select, window, env
<1>4. CASE ActResize
  <2> DEFINE w == PaneWidth(tty.col, Len(panes))
             h == tty.row - 1
  <2>1. Len(panes) \in 1 .. MaxPanes
    BY <1>0, <1>4, OnePane DEF ActResize
  <2>2. w \in Nat /\ h \in Nat /\ tty.row \in Nat /\ tty.col \in Nat
    <3>1. tty.row \in Rows /\ tty.col \in Cols
      BY <1>0
    <3>2. tty.row \in Nat /\ tty.row >= 3 /\ tty.col \in Nat
      BY <3>1, SizesAssumption
    <3>3. w \in Nat
      BY <2>1, <3>1, WidthFits
    <3> QED BY <3>2, <3>3
  <2> HIDE DEF w, h
  <2>3. Relayout(panes, w, h)
    BY <1>4 DEF ActResize, w, h
  <2>4. /\ at' \in [Id -> [sx : Nat, sy : Nat, xoff : Nat]]
        /\ size' \in [Id -> Size]
    BY <1>0, <2>2, <2>3, RelayoutFacts
  <2>5. ws' \in Size
    BY <1>4, <2>2 DEF ActResize, Size
  <2> QED BY ZenonT(60), <1>0, <1>4, <2>4, <2>5, Dispatched DEF ActResize, SendThen, env
<1>5. CASE ServerRead
  <2>1. state' \in {"ST_BOOT", "ST_RUNNING", "ST_EXITING"}
    BY <1>0, <1>5, Dispatched DEF ServerRead
  <2>2. child_exited' \in BOOLEAN /\ raw' \in BOOLEAN
    BY <1>0, <1>5 DEF ServerRead, Leave
  <2> QED BY <1>0, <1>5, <2>1, <2>2 DEF ServerRead, window, env
<1>6. CASE \E k \in 1 .. MaxPanes : PaneEof(k)
  <2> PICK k \in 1 .. MaxPanes : PaneEof(k)
    BY <1>6
  <2>1. k \in 1 .. Len(panes)
    BY DEF PaneEof, Turn
  <2>2. panes' \in Seq(Id)
    BY <1>0, <2>1, ListDelFacts DEF PaneEof
  <2>3. pane' \in Id
    <3>1. ASSUME NEW j \in 1 .. Len(panes) PROVE panes[j] \in Id
      BY <1>0
    <3>2. Len(panes) \in Nat
      BY <1>0
    <3>3. k < Len(panes) => k + 1 \in 1 .. Len(panes)
      BY <2>1, <3>2
    <3>4. k > 1 => k - 1 \in 1 .. Len(panes)
      BY <2>1, <3>2
    <3> QED BY <1>0, <3>1, <3>3, <3>4 DEF PaneEof, NextActive
  <2> QED BY ZenonT(60), <1>0, <2>2, <2>3 DEF PaneEof, Turn, env
<1>7. CASE \E k \in 1 .. MaxPanes : LastPaneEof(k)
  <2> PICK k \in 1 .. MaxPanes : LastPaneEof(k)
    BY <1>7
  <2>1. k \in 1 .. Len(panes)
    BY DEF LastPaneEof, Turn
  <2>2. panes' \in Seq(Id) /\ pane' \in Id
    BY <1>0, <2>1 DEF LastPaneEof, NextActive
  <2> QED BY ZenonT(60), <1>0, <2>2 DEF LastPaneEof, env
<1>8. CASE PanesDone
  <2>1. /\ at' \in [Id -> [sx : Nat, sy : Nat, xoff : Nat]]
        /\ size' \in [Id -> Size]
    <3>1. CASE ~(pane_removed /\ ~child_exited)
      BY <1>0, <1>8, <3>1 DEF PanesDone
    <3>2. CASE pane_removed /\ ~child_exited
      <4> DEFINE w == PaneWidth(ws.col, Len(panes))
                 h == ws.row - 1
      <4>1. Len(panes) \in 1 .. MaxPanes
        BY <1>0, <1>8, <3>2, OnePane DEF PanesDone
      <4>2. w \in Nat /\ h \in Nat
        <5>1. ws.col \in Cols /\ ws.row \in Nat /\ ws.row >= 2
          BY <1>0 DEF Laid, Size
        <5> QED BY <4>1, <5>1, WidthFits
      <4> HIDE DEF w, h
      <4>3. Relayout(panes, w, h)
        BY <1>8, <3>2 DEF PanesDone, w, h
      <4> QED BY <1>0, <4>2, <4>3, RelayoutFacts
    <3> QED BY <3>1, <3>2
  <2> QED BY ZenonT(60), <1>0, <1>8, <2>1 DEF PanesDone, env
<1>9. CASE StdinRead
  BY <1>0, <1>9 DEF StdinRead, NextPass, window, env
<1>10. CASE StdinEof
  BY <1>0, <1>10, TableFacts DEF StdinEof, AfterStdinRead, NextPass, window, env
<1>11. CASE KeysDone
  BY <1>0, <1>11, TableFacts DEF KeysDone, AfterStdinRead, NextPass, window, env
<1>12. CASE SplitFails
  BY <1>0, <1>12 DEF SplitFails, window, env
<1>13. CASE Exit
  BY <1>0, <1>13 DEF Exit, SendThen, window, env
<1>14. CASE PrefixKey \/ OtherKey \/ NotNow
  BY ZenonT(60), <1>0, <1>14 DEF PrefixKey, OtherKey, NotNow, Command, window, env
<1>15. CASE NextPane
  <2>1. pane' \in Id /\ pc' \in {"keys", "dead"}
    <3>1. ASSUME NEW k \in 1 .. Len(panes)
          PROVE  (IF k = Len(panes) THEN panes[1] ELSE panes[k + 1]) \in Id
      <4>1. ASSUME NEW j \in 1 .. Len(panes) PROVE panes[j] \in Id
        BY <1>0
      <4>2. Len(panes) \in Nat /\ 1 \in 1 .. Len(panes)
        BY SMTT(60), <1>0
      <4>3. k # Len(panes) => k + 1 \in 1 .. Len(panes)
        BY <4>2
      <4> QED BY <4>1, <4>2, <4>3
    <3> QED BY <1>0, <1>15, <3>1 DEF NextPane, Command
  <2>2. /\ ctrl_b_pressed' = FALSE
        /\ UNCHANGED <<state, child_exited, sigwinch_pending, rfds, panes, next_pane_id, at,
                       pane_removed, ws, raw, size, tty, shell, late, server, told>>
    BY <1>15 DEF NextPane, Command, env
  <2> QED BY ZenonT(60), <1>0, <2>1, <2>2
<1>16. CASE Detach
  BY ZenonT(60), <1>0, <1>16, Dispatched DEF Detach, Command, SendThen, Leave, window, env
<1>17. CASE SplitAsks
  BY ZenonT(60), <1>0, <1>17, Dispatched DEF SplitAsks, Command, SendThen, window, env
<1>18. CASE Split
  <2> DEFINE l == Append(panes, next_pane_id)
             w == PaneWidth(ws.col, Len(panes) + 1)
             h == at[pane].sy
  <2>1. l \in Seq(Id) /\ next_pane_id \in Id
    BY <1>0, <1>18, SizesAssumption DEF Split, Id
  <2>2. Len(panes) + 1 \in 1 .. MaxPanes
    BY <1>0, <1>18, SizesAssumption DEF Split, Lists
  <2>3. w \in Nat /\ h \in Nat
    BY <1>0, <2>2, WidthFits DEF Laid
  <2> HIDE DEF w, h
  <2>4. Relayout(l, w, h) /\ panes' = l /\ late' = [id |-> next_pane_id, row |-> h, col |-> w]
    BY <1>18 DEF Split, w, h
  <2>5. /\ at' \in [Id -> [sx : Nat, sy : Nat, xoff : Nat]]
        /\ size' \in [Id -> Size]
    BY <2>1, <2>3, <2>4, RelayoutFacts
  <2>6. next_pane_id' \in 1 .. MaxPanes
    <3>1. next_pane_id' = next_pane_id + 1 /\ next_pane_id < MaxPanes
      BY <1>18 DEF Split
    <3> QED BY <1>0, <3>1, SizesAssumption
  <2>7. late' \in [id : Id \cup {NoPane}, row : Nat, col : Nat]
    BY <2>1, <2>3, <2>4
  <2>8. shell' \in [Id -> {"none", "live", "ended"}]
    BY <1>0, <1>18 DEF Split
  <2>9. /\ pc' = "keys"
        /\ UNCHANGED <<state, child_exited, ctrl_b_pressed, sigwinch_pending, rfds, pane,
                       pane_removed, ws, raw, tty, server, told>>
    BY <1>18 DEF Split
  <2> QED BY ZenonT(60), <1>0, <2>1, <2>4, <2>5, <2>6, <2>7, <2>8, <2>9
<1>19. CASE Winch
  <2>1. tty' \in [row : Rows, col : Cols, told : BOOLEAN]
    BY <1>19 DEF Winch
  <2>2. /\ pc' \in {pc, "winch"} /\ sigwinch_pending' \in BOOLEAN
    BY <1>19 DEF Winch
  <2> QED BY <1>0, <1>19, <2>1, <2>2 DEF Winch, window
<1>20. CASE ShellEnds
  <2>1. shell' \in [Id -> {"none", "live", "ended"}]
    BY <1>0, <1>20 DEF ShellEnds
  <2> QED BY <1>0, <1>20, <2>1 DEF ShellEnds, window
<1>21. CASE ServerCloses
  BY <1>0, <1>21 DEF ServerCloses, window, env
<1>22. CASE LateSize
  BY SMTT(60), <1>0, <1>22 DEF LateSize, window, Size, NoPane
<1> QED
  BY <1>1, <1>2, <1>3, <1>4, <1>5, <1>6, <1>7, <1>8, <1>9, <1>10, <1>11, <1>12,
     <1>13, <1>14, <1>15, <1>16, <1>17, <1>18, <1>19, <1>20, <1>21, <1>22
     DEF Next, Loop, Keys

-----------------------------------------------------------------------------
(* The steps keep the list of panes in order. *)

(* The steps that leave the list, the ids and the focus alone.             *)
Elsewhere ==
  \/ EnableRawMode \/ Select \/ ActResize \/ ServerRead \/ PanesDone
  \/ StdinRead \/ StdinEof \/ KeysDone \/ SplitFails \/ Exit
  \/ PrefixKey \/ OtherKey \/ NotNow \/ Detach \/ SplitAsks
  \/ Winch \/ ShellEnds \/ ServerCloses \/ LateSize

LEMMA ListUntouched ==
  ASSUME Elsewhere \/ UNCHANGED vars
  PROVE  UNCHANGED <<panes, next_pane_id, pane>>
BY DEF Elsewhere, EnableRawMode, Select, ActResize, ServerRead, PanesDone, StdinRead,
       StdinEof, KeysDone, SplitFails, Exit, PrefixKey, OtherKey, NotNow, Command, Detach,
       SplitAsks, Winch, ShellEnds, ServerCloses, LateSize, window, vars

LEMMA StepCases ==
  ASSUME [Next]_vars
  PROVE  \/ UNCHANGED vars
         \/ Elsewhere
         \/ \E k \in 1 .. MaxPanes : PaneEof(k)
         \/ \E k \in 1 .. MaxPanes : LastPaneEof(k)
         \/ NextPane
         \/ Split
BY DEF Next, Loop, Keys, Elsewhere

(* Removing a pane: the others keep their order, and the focus moves to one*)
(* of them.                                                                *)
LEMMA EofFacts ==
  ASSUME TypeOK, Lists, NEW k \in 1 .. MaxPanes, PaneEof(k)
  PROVE  /\ k \in 1 .. Len(panes) /\ panes' = ListDel(panes, k)
         /\ Len(panes') = Len(panes) - 1 /\ Len(panes') >= 1
         /\ \A j \in 1 .. Len(panes') : panes'[j] \in Listed
         /\ pane \in Listed => pane' \in Listed'
         /\ pane' < next_pane_id
<1>1. /\ k \in 1 .. Len(panes) /\ Len(panes) > 1 /\ panes' = ListDel(panes, k)
      /\ pane' = NextActive(k)
  BY DEF PaneEof, Turn
<1>2. panes \in Seq(Id) /\ Len(panes) \in Nat
  BY DEF TypeOK
<1>3. /\ Len(panes') = Len(panes) - 1
      /\ \A j \in 1 .. (Len(panes) - 1) :
           panes'[j] = IF j < k THEN panes[j] ELSE panes[j + 1]
  BY <1>1, <1>2, ListDelFacts
<1>4. ASSUME NEW j \in 1 .. Len(panes), j # k
      PROVE  panes[j] \in Listed'
  <2>1. CASE j < k
    <3>1. j \in 1 .. Len(panes') /\ panes'[j] = panes[j]
      BY <1>1, <1>2, <1>3, <2>1
    <3> QED BY <3>1 DEF Listed
  <2>2. CASE j > k
    <3>1. j - 1 \in 1 .. Len(panes') /\ panes'[j - 1] = panes[j]
      BY <1>1, <1>2, <1>3, <2>2
    <3> QED BY <3>1 DEF Listed
  <2> QED BY <1>1, <1>2, <1>4, <2>1, <2>2
<1>5. ASSUME NEW j \in 1 .. Len(panes')
      PROVE  panes'[j] \in Listed
  BY <1>1, <1>2, <1>3 DEF Listed
<1>6. pane # panes[k] => pane' = pane
  BY <1>1 DEF NextActive
<1>7. pane = panes[k] => pane' \in Listed' /\ pane' < next_pane_id
  <2> SUFFICES ASSUME pane = panes[k] PROVE pane' \in Listed' /\ pane' < next_pane_id
    OBVIOUS
  <2>1. CASE k < Len(panes)
    <3>1. k + 1 \in 1 .. Len(panes) /\ k + 1 # k /\ pane' = panes[k + 1]
      BY <1>1, <1>2, <2>1 DEF NextActive
    <3> QED BY <3>1, <1>4 DEF Lists
  <2>2. CASE ~(k < Len(panes))
    <3>1. k - 1 \in 1 .. Len(panes) /\ k - 1 # k /\ pane' = panes[k - 1]
      BY <1>1, <1>2, <2>2 DEF NextActive
    <3> QED BY <3>1, <1>4 DEF Lists
  <2> QED BY <2>1, <2>2
<1>8. pane \in Listed /\ pane # panes[k] => pane \in Listed'
  BY <1>4 DEF Listed
<1> QED BY <1>1, <1>2, <1>3, <1>5, <1>6, <1>7, <1>8 DEF Lists

LEMMA ListsStep ==
  ASSUME IInv, [Next]_vars
  PROVE  Lists'
<1>0. /\ TypeOK /\ Lists
      /\ panes \in Seq(Id) /\ Len(panes) \in Nat /\ next_pane_id \in Nat /\ pane \in Nat
  BY SizesAssumption DEF IInv, TypeOK, Id
<1>1. CASE Elsewhere \/ UNCHANGED vars
  BY <1>0, <1>1, ListUntouched DEF Lists
<1>2. CASE \E k \in 1 .. MaxPanes : PaneEof(k)
  <2> PICK k \in 1 .. MaxPanes : PaneEof(k)
    BY <1>2
  <2>1. /\ k \in 1 .. Len(panes) /\ panes' = ListDel(panes, k)
        /\ Len(panes') = Len(panes) - 1
        /\ pane' < next_pane_id /\ next_pane_id' = next_pane_id
    BY <1>0, EofFacts DEF PaneEof
  <2> DEFINE old(j) == IF j < k THEN j ELSE j + 1
  <2>2. ASSUME NEW j \in 1 .. Len(panes')
        PROVE  old(j) \in 1 .. Len(panes) /\ panes'[j] = panes[old(j)]
    <3>1. panes'[j] = IF j < k THEN panes[j] ELSE panes[j + 1]
      BY <1>0, <2>1, ListDelFacts
    <3>2. old(j) \in 1 .. Len(panes)
      BY <1>0, <2>1
    <3> QED BY <3>1, <3>2
  <2>3. ASSUME NEW i \in 1 .. Len(panes'), NEW j \in 1 .. Len(panes'), panes'[i] = panes'[j]
        PROVE  i = j
    <3>1. old(i) = old(j)
      BY <1>0, <2>2, <2>3 DEF Lists
    <3> QED BY <3>1, <1>0, <2>1
  <2>4. ASSUME NEW j \in 1 .. Len(panes')
        PROVE  panes'[j] < next_pane_id
    BY <1>0, <2>2 DEF Lists
  <2> QED BY <1>0, <2>1, <2>3, <2>4 DEF Lists
<1>3. CASE \E k \in 1 .. MaxPanes : LastPaneEof(k)
  <2>1. panes' = <<>> /\ pane' = pane /\ next_pane_id' = next_pane_id
    BY <1>0, <1>3 DEF LastPaneEof, Turn, NextActive
  <2> QED BY <1>0, <2>1 DEF Lists
<1>4. CASE NextPane
  <2>1. /\ panes' = panes /\ next_pane_id' = next_pane_id
        /\ pane' = pane \/ \E k \in 1 .. Len(panes) : pane' = panes[k]
    <3>1. ASSUME NEW k \in 1 .. Len(panes),
                 pane' = IF k = Len(panes) THEN panes[1] ELSE panes[k + 1]
          PROVE  \E j \in 1 .. Len(panes) : pane' = panes[j]
      <4>1. CASE k = Len(panes)
        <5>1. 1 \in 1 .. Len(panes)
          BY <1>0
        <5> QED BY <3>1, <4>1, <5>1
      <4>2. CASE k # Len(panes)
        <5>1. k + 1 \in 1 .. Len(panes)
          BY <1>0, <4>2
        <5> QED BY <3>1, <4>2, <5>1
      <4> QED BY <4>1, <4>2
    <3> QED BY <1>4, <3>1 DEF NextPane
  <2> QED BY <1>0, <2>1 DEF Lists
<1>5. CASE Split
  <2>1. /\ panes' = Append(panes, next_pane_id) /\ next_pane_id' = next_pane_id + 1
        /\ pane' = pane
    BY <1>5 DEF Split
  <2>2. /\ Len(panes') = Len(panes) + 1
        /\ \A j \in 1 .. Len(panes) : panes'[j] = panes[j]
        /\ panes'[Len(panes) + 1] = next_pane_id
    BY <1>0, <2>1, SizesAssumption DEF Id
  <2>3. ASSUME NEW j \in 1 .. Len(panes) PROVE panes[j] \in Nat
    <3>1. panes[j] \in Id
      BY <1>0
    <3> QED BY <3>1, SizesAssumption DEF Id
  <2> QED BY <1>0, <2>1, <2>2, <2>3 DEF Lists
<1> QED BY <1>1, <1>2, <1>3, <1>4, <1>5, StepCases

-----------------------------------------------------------------------------
(* The steps keep the control part of the invariant. *)

LEMMA ControlStep ==
  ASSUME IInv, [Next]_vars
  PROVE  Control'
<1> USE DEF Control, Places, FocusListed, StillListening, Restored, Leaving, ResizeKept, Ended
<1>0. /\ TypeOK /\ Lists /\ Control
      /\ state \in {"ST_BOOT", "ST_RUNNING", "ST_EXITING"}
      /\ pc \in {"boot", "select", "winch", "server", "panes",
                "stdin", "keys", "split", "out", "ended", "dead"}
      /\ told \in {"REQUEST", "DETACH", "EXITED"} /\ server \in {"open", "closed"}
      /\ child_exited \in BOOLEAN /\ raw \in BOOLEAN /\ pane_removed \in BOOLEAN
      /\ sigwinch_pending \in BOOLEAN
  BY DEF IInv, TypeOK
<1>u. ASSUME UNCHANGED panes PROVE Listed' = Listed
  BY <1>u DEF Listed
<1>1. CASE UNCHANGED vars
  BY <1>0, <1>1, <1>u DEF vars, window, env
<1>2. CASE EnableRawMode
  BY <1>0, <1>2, <1>u, Dispatched DEF EnableRawMode, window, env
<1>3. CASE Select
  BY <1>0, <1>3, <1>u DEF Select, window, env
<1>4. CASE ActResize
  BY <1>0, <1>4, <1>u, Dispatched DEF ActResize, SendThen, env
<1>5. CASE ServerRead
  BY <1>0, <1>5, <1>u, Dispatched, TableFacts DEF ServerRead, Leave, window, env
<1>6. CASE \E k \in 1 .. MaxPanes : PaneEof(k)
  <2> PICK k \in 1 .. MaxPanes : PaneEof(k)
    BY <1>6
  <2>1. pane \in Listed => pane' \in Listed'
    BY <1>0, EofFacts
  <2> QED BY <1>0, <2>1 DEF PaneEof, Turn, env
<1>7. CASE \E k \in 1 .. MaxPanes : LastPaneEof(k)
  <2> PICK k \in 1 .. MaxPanes : LastPaneEof(k)
    BY <1>7
  <2>1. Listed' = {}
    BY DEF LastPaneEof, Listed
  <2> QED BY <1>0, <2>1 DEF LastPaneEof, Turn, env
<1>8. CASE PanesDone
  BY <1>0, <1>8, <1>u DEF PanesDone, env
<1>9. CASE StdinRead
  BY <1>0, <1>9, <1>u DEF StdinRead, NextPass, window, env
<1>10. CASE StdinEof
  BY <1>0, <1>10, <1>u, TableFacts DEF StdinEof, AfterStdinRead, NextPass, window, env
<1>11. CASE KeysDone
  BY <1>0, <1>11, <1>u, TableFacts DEF KeysDone, AfterStdinRead, NextPass, window, env
<1>12. CASE SplitFails
  BY <1>0, <1>12, <1>u DEF SplitFails, window, env
<1>13. CASE Exit
  BY <1>0, <1>13, <1>u DEF Exit, SendThen, window, env
<1>14. CASE PrefixKey \/ OtherKey \/ NotNow
  BY <1>0, <1>14, <1>u DEF PrefixKey, OtherKey, NotNow, Command, window, env
<1>15. CASE NextPane
  <2>1. pc' # "dead" => pane \in Listed /\ pane' \in Listed'
    <3>1. panes \in Seq(Id)
      BY <1>0 DEF TypeOK
    <3>2. ASSUME NEW k \in 1 .. Len(panes)
          PROVE  (IF k = Len(panes) THEN panes[1] ELSE panes[k + 1]) \in Listed
      <4>1. 1 \in 1 .. Len(panes) /\ (k # Len(panes) => k + 1 \in 1 .. Len(panes))
        BY <3>1
      <4> QED BY <4>1 DEF Listed
    <3> QED BY <1>15, <1>u, <3>2 DEF NextPane, Listed
  <2>2. /\ pc = "keys" /\ pc' \in {"keys", "dead"} /\ panes' = panes
        /\ pc' = "dead" => pane' = pane
        /\ UNCHANGED <<state, child_exited, sigwinch_pending, raw, told, tty, ws, pane_removed>>
    BY <1>15 DEF NextPane, Command, env
  <2> QED BY <1>0, <1>u, <2>1, <2>2
<1>16. CASE Detach
  BY <1>0, <1>16, <1>u, Dispatched, TableFacts DEF Detach, Command, SendThen, Leave, window, env
<1>17. CASE SplitAsks
  BY <1>0, <1>17, <1>u, Dispatched, TableFacts DEF SplitAsks, Command, SendThen, window, env
<1>18. CASE Split
  <2>1. pane < next_pane_id /\ panes \in Seq(Id)
    BY <1>0 DEF Lists, TypeOK
  <2>2. Listed' = Listed \cup {next_pane_id}
    <3>1. panes' = Append(panes, next_pane_id) /\ next_pane_id \in Id
      BY <1>0, <1>18, SizesAssumption DEF Split, Id, TypeOK
    <3>2. Len(panes') = Len(panes) + 1 /\ Len(panes) \in Nat
      BY <2>1, <3>1
    <3>3. \A k \in 1 .. Len(panes') :
            panes'[k] = IF k = Len(panes) + 1 THEN next_pane_id ELSE panes[k]
      BY <2>1, <3>1
    <3> QED BY <3>2, <3>3 DEF Listed
  <2>3. /\ pc = "split" /\ pc' = "keys" /\ pane' = pane
        /\ UNCHANGED <<state, child_exited, sigwinch_pending, raw, told, tty, ws, pane_removed>>
    BY <1>18 DEF Split
  <2>4. pane # next_pane_id
    BY <2>1, SizesAssumption, <1>0 DEF TypeOK, Id
  <2> QED BY <1>0, <2>2, <2>3, <2>4
<1>19. CASE Winch
  <2>1. /\ pc' \in {pc, "winch"} /\ (pc' # pc => pc = "select")
        /\ sigwinch_pending' \/ pc' = "winch"
    BY <1>19 DEF Winch
  <2> QED BY <1>0, <1>19, <1>u, <2>1 DEF Winch, window
<1>20. CASE ShellEnds
  BY <1>0, <1>20, <1>u DEF ShellEnds, window
<1>21. CASE ServerCloses
  BY <1>0, <1>21, <1>u DEF ServerCloses, window, env
<1>22. CASE LateSize
  BY <1>0, <1>22, <1>u DEF LateSize, window
<1> QED
  BY <1>1, <1>2, <1>3, <1>4, <1>5, <1>6, <1>7, <1>8, <1>9, <1>10, <1>11, <1>12,
     <1>13, <1>14, <1>15, <1>16, <1>17, <1>18, <1>19, <1>20, <1>21, <1>22
     DEF Next, Loop, Keys

-----------------------------------------------------------------------------
(* The steps keep the layout. *)

LEMMA LayoutUntouched ==
  ASSUME Elsewhere \/ UNCHANGED vars \/ NextPane,
         ~ActResize, ~PanesDone
  PROVE  /\ UNCHANGED <<panes, next_pane_id, at, ws, pane_removed>>
         /\ child_exited => child_exited'
         /\ UNCHANGED size \/ LateSize
         /\ late' = late \/ LateSize
BY DEF Elsewhere, EnableRawMode, Select, ServerRead, StdinRead, Leave,
       StdinEof, KeysDone, SplitFails, Exit, PrefixKey, OtherKey, NotNow, Command, Detach,
       SplitAsks, NextPane, Winch, ShellEnds, ServerCloses, LateSize, window, env, vars

LEMMA LaidStep ==
  ASSUME IInv, [Next]_vars
  PROVE  Laid'
<1>0. /\ TypeOK /\ Lists /\ Control /\ Laid
      /\ panes \in Seq(Id) /\ Len(panes) \in Nat
      /\ Distinct(panes)
      /\ ws.row \in Nat /\ child_exited \in BOOLEAN /\ pane_removed \in BOOLEAN
  <2>1. TypeOK /\ Lists /\ Control /\ Laid
    BY DEF IInv
  <2>2. ws.row \in Nat /\ panes \in Seq(Id)
    BY <2>1 DEF TypeOK, Size
  <2>3. child_exited \in BOOLEAN /\ pane_removed \in BOOLEAN
    BY <2>1 DEF TypeOK
  <2>4. Distinct(panes)
    BY <2>1 DEF Lists, Distinct
  <2> QED BY <2>1, <2>2, <2>3, <2>4
<1>1. CASE ActResize
  <2> DEFINE w == PaneWidth(tty.col, Len(panes))
             h == tty.row - 1
  <2>1. Len(panes) \in 1 .. MaxPanes
    BY <1>0, <1>1, OnePane DEF ActResize
  <2>2. /\ tty.row \in Nat /\ tty.row >= 3 /\ tty.col \in Cols
    BY <1>0, SizesAssumption DEF TypeOK
  <2>3. w \in Nat
    BY <2>1, <2>2, WidthFits
  <2>4. /\ Relayout(panes, w, h) /\ ws' = [row |-> tty.row, col |-> tty.col]
        /\ panes' = panes
    BY <1>1 DEF ActResize
  <2> HIDE DEF w
  <2>5. h \in 1 .. ws'.row /\ h \in Nat
    BY <2>2, <2>4
  <2> HIDE DEF h
  <2>6. ASSUME NEW k \in 1 .. Len(panes) PROVE at'[panes[k]] = Place(k, w, h)
    BY <1>0, <2>3, <2>4, <2>5, RelayoutPlaces
  <2> QED BY <2>2, <2>4, <2>5, <2>6 DEF Laid, w
<1>2. CASE PanesDone
  <2>1. CASE ~(pane_removed /\ ~child_exited)
    BY <1>0, <1>2, <2>1 DEF PanesDone, Laid
  <2>2. CASE pane_removed /\ ~child_exited
    <3> DEFINE w == PaneWidth(ws.col, Len(panes))
               h == ws.row - 1
    <3>1. Len(panes) \in 1 .. MaxPanes
      BY <1>0, <1>2, <2>2, OnePane DEF PanesDone
    <3>2. ws.row >= 2 /\ ws.col \in Cols
      BY <1>0 DEF Laid
    <3>3. w \in Nat
      BY <3>1, <3>2, WidthFits
    <3>4. Relayout(panes, w, h) /\ ws' = ws /\ panes' = panes
      BY <1>2, <2>2 DEF PanesDone
    <3> HIDE DEF w
    <3>5. h \in 1 .. ws.row /\ h \in Nat
      BY <1>0, <3>2
    <3> HIDE DEF h
    <3>6. ASSUME NEW k \in 1 .. Len(panes) PROVE at'[panes[k]] = Place(k, w, h)
      BY <1>0, <3>3, <3>4, <3>5, RelayoutPlaces
    <3> QED BY <3>2, <3>4, <3>5, <3>6 DEF Laid, w
  <2> QED BY <2>1, <2>2
<1>3. CASE (Elsewhere \/ UNCHANGED vars \/ NextPane) /\ ~ActResize /\ ~PanesDone
  BY <1>0, <1>3, LayoutUntouched DEF Laid
<1>4. CASE \E k \in 1 .. MaxPanes : PaneEof(k)
  BY <1>0, <1>4 DEF PaneEof, Laid
<1>5. CASE \E k \in 1 .. MaxPanes : LastPaneEof(k)
  BY <1>0, <1>5 DEF LastPaneEof, Laid
<1>6. CASE Split
  <2> DEFINE l == Append(panes, next_pane_id)
             w == PaneWidth(ws.col, Len(panes) + 1)
             h == at[pane].sy
  <2>1. /\ pc = "split" /\ next_pane_id < MaxPanes /\ panes' = l /\ Relayout(l, w, h)
        /\ ws' = ws /\ child_exited' = child_exited /\ pane_removed' = pane_removed
    BY <1>6 DEF Split
  <2>2. ws.col \in Cols /\ ws.row >= 2
    BY <1>0 DEF Laid
  <2>3. CASE child_exited \/ pane_removed
    BY <2>1, <2>2, <2>3 DEF Laid
  <2>4. CASE ~child_exited /\ ~pane_removed
    <3>1. pane \in Listed
      BY <1>0, <2>1, <2>4 DEF Control, FocusListed
    <3>2. h \in 1 .. ws.row /\ h \in Nat
      <4>1. PICK k \in 1 .. Len(panes) : pane = panes[k]
        BY <3>1 DEF Listed
      <4>2. PICK g \in 1 .. ws.row :
              at[panes[k]] = Place(k, PaneWidth(ws.col, Len(panes)), g)
        BY <1>0, <2>4 DEF Laid
      <4> QED BY <4>1, <4>2 DEF Place
    <3>3. Len(panes) + 1 \in 1 .. MaxPanes
      BY <1>0, <2>1, SizesAssumption DEF Lists, TypeOK
    <3>4. w \in Nat
      BY <2>2, <3>3, WidthFits
    <3>5. /\ l \in Seq(Id) /\ Len(l) = Len(panes) + 1
          /\ Distinct(l)
      <4>1. next_pane_id \in Id /\ next_pane_id \in Nat
        BY <1>0, <2>1, SizesAssumption DEF TypeOK, Id
      <4>2. Lists'
        BY ListsStep
      <4>3. Distinct(l)
        BY <2>1, <4>2 DEF Lists, Distinct
      <4> QED BY <1>0, <4>1, <4>3
    <3> HIDE DEF w, h, l
    <3>6. ASSUME NEW k \in 1 .. Len(l) PROVE at'[l[k]] = Place(k, w, h)
      BY <2>1, <3>2, <3>4, <3>5, RelayoutPlaces
    <3>7. w = PaneWidth(ws'.col, Len(panes'))
      BY <2>1, <3>5 DEF w
    <3> QED BY <2>1, <2>2, <3>2, <3>6, <3>7 DEF Laid
  <2> QED BY <1>0, <2>3, <2>4
<1> QED BY <1>1, <1>2, <1>3, <1>4, <1>5, <1>6, StepCases

LEMMA SizedStep ==
  ASSUME IInv, [Next]_vars
  PROVE  Sized'
<1>0. /\ TypeOK /\ Lists /\ Control /\ Laid /\ Sized
      /\ panes \in Seq(Id) /\ Len(panes) \in Nat /\ next_pane_id \in Nat
      /\ child_exited \in BOOLEAN /\ pane_removed \in BOOLEAN
  BY SizesAssumption DEF IInv, TypeOK
<1>1. CASE ActResize
  <2> DEFINE w == PaneWidth(tty.col, Len(panes))
             h == tty.row - 1
  <2>1. Len(panes) \in 1 .. MaxPanes
    BY <1>0, <1>1, OnePane DEF ActResize
  <2>2. /\ tty.row \in Nat /\ tty.row >= 3 /\ tty.col \in Cols
    BY <1>0, SizesAssumption DEF TypeOK
  <2>3. w \in Nat /\ h \in Nat
    BY <2>1, <2>2, WidthFits
  <2>4. Relayout(panes, w, h) /\ panes' = panes /\ next_pane_id' = next_pane_id /\ late' = late
    BY <1>1 DEF ActResize, env
  <2> HIDE DEF w, h
  <2>5. \A p \in Listed : size'[p] = [row |-> at'[p].sy, col |-> at'[p].sx]
    <3>1. \A p \in Listed : \E k \in 1 .. Len(panes) : p = panes[k]
      BY DEF Listed
    <3> QED BY <1>0, <2>3, <2>4, <3>1, RelayoutSizes, Zenon
  <2> QED BY <1>0, <2>4, <2>5 DEF Sized, PtySizesAgree, Listed
<1>2. CASE PanesDone
  <2>1. /\ panes' = panes /\ next_pane_id' = next_pane_id /\ late' = late
        /\ child_exited' = child_exited
    BY <1>2 DEF PanesDone, env
  <2>2. CASE ~(pane_removed /\ ~child_exited)
    <3>1. at' = at /\ size' = size
      BY <1>2, <2>2 DEF PanesDone
    <3> QED BY <1>0, <2>1, <2>2, <3>1 DEF Sized, PtySizesAgree, Listed
  <2>3. CASE pane_removed /\ ~child_exited
    <3> DEFINE w == PaneWidth(ws.col, Len(panes))
               h == ws.row - 1
    <3>1. Len(panes) \in 1 .. MaxPanes
      BY <1>0, <1>2, <2>3, OnePane DEF PanesDone
    <3>2. ws.row \in Nat /\ ws.row >= 2 /\ ws.col \in Cols
      BY <1>0 DEF Laid, TypeOK, Size
    <3>3. w \in Nat /\ h \in Nat
      BY <3>1, <3>2, WidthFits
    <3>4. Relayout(panes, w, h)
      BY <1>2, <2>3 DEF PanesDone
    <3> HIDE DEF w, h
    <3>5. \A p \in Listed : size'[p] = [row |-> at'[p].sy, col |-> at'[p].sx]
      <4>1. \A p \in Listed : \E k \in 1 .. Len(panes) : p = panes[k]
        BY DEF Listed
      <4> QED BY <1>0, <3>3, <3>4, <4>1, RelayoutSizes, Zenon
    <3> QED BY <1>0, <2>1, <3>5 DEF Sized, PtySizesAgree, Listed
  <2> QED BY <2>2, <2>3
<1>3. CASE (Elsewhere \/ UNCHANGED vars \/ NextPane) /\ ~ActResize /\ ~PanesDone
  <2>1. /\ UNCHANGED <<panes, next_pane_id, at, pane_removed>>
        /\ child_exited => child_exited'
    BY <1>3, LayoutUntouched
  <2>2. CASE UNCHANGED <<size, late>>
    BY <1>0, <2>1, <2>2 DEF Sized, PtySizesAgree, Listed
  <2>3. CASE LateSize
    <3>1. /\ late.id = next_pane_id - 1 /\ late'.id = NoPane
          /\ size' = [size EXCEPT ![late.id] = [row |-> late.row, col |-> late.col]]
      BY <1>0, <2>3 DEF LateSize, Sized
    <3>2. ASSUME NEW p \in Listed, p # next_pane_id - 1
          PROVE  size'[p] = size[p]
      <4>1. p \in Id /\ size \in [Id -> Size]
        BY <1>0, ListedIds DEF TypeOK
      <4> QED BY <3>1, <3>2, <4>1
    <3> QED BY <1>0, <2>1, <3>1, <3>2 DEF Sized, PtySizesAgree, Listed
  <2> QED BY <1>3, <2>2, <2>3, LayoutUntouched
<1>4. CASE \E k \in 1 .. MaxPanes : PaneEof(k)
  BY <1>0, <1>4 DEF PaneEof, Sized, PtySizesAgree, env
<1>5. CASE \E k \in 1 .. MaxPanes : LastPaneEof(k)
  BY <1>0, <1>5 DEF LastPaneEof, Sized, PtySizesAgree, env
<1>6. CASE Split
  <2> DEFINE l == Append(panes, next_pane_id)
             w == PaneWidth(ws.col, Len(panes) + 1)
             h == at[pane].sy
  <2>1. /\ next_pane_id < MaxPanes /\ panes' = l /\ Relayout(l, w, h)
        /\ late' = [id |-> next_pane_id, row |-> h, col |-> w]
        /\ next_pane_id' = next_pane_id + 1
    BY <1>6 DEF Split
  <2>2. l \in Seq(Id)
    BY <1>0, <2>1, SizesAssumption DEF Id
  <2>3. Len(panes) + 1 \in 1 .. MaxPanes
    BY <1>0, <2>1, SizesAssumption DEF Lists
  <2>4. w \in Nat /\ h \in Nat
    BY <1>0, <2>3, WidthFits DEF Laid, TypeOK
  <2> HIDE DEF w, h, l
  <2>5. \A p \in Listed' : size'[p] = [row |-> at'[p].sy, col |-> at'[p].sx]
    <3>1. \A p \in Listed' : \E k \in 1 .. Len(l) : p = l[k]
      BY <2>1 DEF Listed
    <3> QED BY <2>1, <2>2, <2>4, <3>1, RelayoutSizes, Zenon
  <2>6. late'.id = next_pane_id' - 1
    BY <1>0, <2>1
  <2> QED BY <2>5, <2>6 DEF Sized, PtySizesAgree
<1> QED BY <1>1, <1>2, <1>3, <1>4, <1>5, <1>6, StepCases

-----------------------------------------------------------------------------
(* The theorems. *)

(* The inductive invariant holds for any number of panes and any terminal  *)
(* with room for them.                                                     *)
THEOREM Invariance == Spec => []IInv
<1>1. Init => IInv
  BY InitInv
<1>2. IInv /\ [Next]_vars => IInv'
  <2> SUFFICES ASSUME IInv, [Next]_vars PROVE IInv'
    OBVIOUS
  <2>1. TypeOK' /\ Lists'
    BY TypeStep, ListsStep
  <2>2. Control' /\ Laid' /\ Sized'
    BY ControlStep, LaidStep, SizedStep
  <2> QED BY <2>1, <2>2 DEF IInv
<1> QED BY <1>1, <1>2, PTL DEF Spec

(* Every variable keeps its type: no width is negative, no id is given out *)
(* twice past the limit (client.c:340-369, 383-527).                       *)
THEOREM TypeCorrect == Spec => []TypeOK
<1>1. IInv => TypeOK
  BY DEF IInv
<1> QED BY <1>1, Invariance, PTL

(* Until the loop is left the active pane is in the window, whichever panes*)
(* end in whatever order (client.c:459-480, keyboard.c:27-36).             *)
THEOREM FocusIsListed == Spec => []FocusListed
<1>1. IInv => FocusListed
  BY DEF IInv, Control
<1> QED BY <1>1, Invariance, PTL

(* The loop goes on in ST_RUNNING only, whatever is dispatched inside      *)
(* act_stdin_read (client.c:54-63, 237-243).                               *)
THEOREM LoopListens == Spec => []StillListening
<1>1. IInv => StillListening
  BY DEF IInv, Control
<1> QED BY <1>1, Invariance, PTL

(* The panes tile the terminal after any sequence of splits, exits and     *)
(* resizes, for every number of panes and every width that has a column    *)
(* for each pane and border (client.c:163-207, 313-369, 486-500).          *)
THEOREM PanesDoTile == Spec => []PanesTile
<1>1. ASSUME IInv PROVE PanesTile
  <2> SUFFICES ASSUME ~child_exited, ~pane_removed, NEW k \in 1 .. Len(panes)
               PROVE  LET a == at[panes[k]] IN
                      /\ a.sx >= 1 /\ a.sy >= 1 /\ a.sy <= ws.row
                      /\ k = 1 => a.xoff = 0
                      /\ k < Len(panes) => at[panes[k + 1]].xoff = a.xoff + a.sx + 1
                      /\ a.xoff + a.sx <= ws.col
                      /\ k = Len(panes) => ws.col - (a.xoff + a.sx) < Len(panes)
    BY DEF PanesTile
  <2>1. TypeOK /\ Lists /\ Control /\ Laid
    BY <1>1 DEF IInv
  <2>2. ws.col \in Cols /\ ws.row \in Nat /\ Len(panes) \in Nat
    BY <2>1 DEF Laid, TypeOK, Size
  <2>3. Len(panes) \in 1 .. MaxPanes /\ k \in Nat
    BY <2>1, <2>2, OnePane, SizesAssumption
  <2> DEFINE n == Len(panes)
             w == PaneWidth(ws.col, n)
  <2>4. PICK h \in 1 .. ws.row : \A j \in 1 .. n : at[panes[j]] = Place(j, w, h)
    BY <2>1 DEF Laid
  <2>5. w \in Nat /\ w >= 1
    BY <2>2, <2>3, WidthFits
  <2>6. at[panes[k]] = Place(k, w, h) /\ (k < n => at[panes[k + 1]] = Place(k + 1, w, h))
    BY <2>2, <2>4
  <2> HIDE DEF w
  <2>7. w = PaneWidth(ws.col, n)
    BY DEF w
  <2>8. /\ Place(k, w, h).sx = w /\ Place(k, w, h).sy = h
        /\ Place(k, w, h).xoff \in Nat
        /\ k = 1 => Place(k, w, h).xoff = 0
        /\ Place(k, w, h).xoff + w <= ws.col
        /\ Place(k + 1, w, h).xoff = Place(k, w, h).xoff + w + 1
        /\ k = n => ws.col - (Place(k, w, h).xoff + w) < n
    BY <2>2, <2>3, <2>5, <2>7, PlaceFits
  <2>9. h \in Nat /\ h >= 1 /\ h <= ws.row
    BY <2>2
  <2> QED BY <2>5, <2>6, <2>8, <2>9
<1> QED BY <1>1, Invariance, PTL

(* The PTYs have the sizes of their panes, but for the newest one, which   *)
(* the daemon may still be sizing (server.c:233-236, client.c:340-369).    *)
THEOREM PtysAreSized == Spec => []PtySizesAgree
<1>1. IInv => PtySizesAgree
  BY DEF IInv, Sized
<1> QED BY <1>1, Invariance, PTL

(* A signalled resize is never forgotten (client.c:301, 420-423).          *)
THEOREM ResizesAreKept == Spec => []ResizeKept
<1>1. IInv => ResizeKept
  BY DEF IInv, Control
<1> QED BY <1>1, Invariance, PTL

(* A client that leaves its loop with a pane has restored the terminal     *)
(* (client.c:209-214, 287-289).                                            *)
THEOREM TerminalIsGivenBack == Spec => []TerminalGivenBack
<1>1. IInv => TerminalGivenBack
  BY DEF IInv, Control, Places, Restored, TerminalGivenBack, TypeOK
<1> QED BY <1>1, Invariance, PTL

(* After DETACH nothing but EXITED is sent, whatever keys follow it in the *)
(* same buffer (client.c:46-47, 244-260, 286).                             *)
THEOREM DetachEndsTheTalk == Spec => DetachIsLast
<1>1. ASSUME IInv, [Next]_vars, told = "DETACH"
      PROVE  told' \in {"DETACH", "EXITED"}
  <2>1. /\ pc \in {"keys", "out", "dead"} /\ (pc = "keys" => state = "ST_EXITING")
        /\ state \in {"ST_BOOT", "ST_RUNNING", "ST_EXITING"}
    BY <1>1 DEF IInv, Control, Leaving, TypeOK
  <2>2. pc = "keys" => ~Handled("EV_PANE_SPLIT") /\ ~Handled("EV_DETACHED")
    BY <2>1, TableFacts
  <2>3. told' \in {told, "EXITED"}
    BY <1>1, <2>1, <2>2
       DEF Next, Loop, Keys, EnableRawMode, Select, ActResize, ServerRead, PaneEof, LastPaneEof,
           Turn, PanesDone, StdinRead, StdinEof, KeysDone, SplitFails, Exit, SendThen, PrefixKey,
           OtherKey, NotNow, Command, NextPane, Detach, SplitAsks, Split, Winch, ShellEnds,
           ServerCloses, LateSize, vars
  <2> QED BY <1>1, <2>3
<1>2. IInv /\ [Next]_vars => [told = "DETACH" => told' \in {"DETACH", "EXITED"}]_vars
  BY <1>1
<1> QED BY <1>2, Invariance, PTL DEF Spec, DetachIsLast
=============================================================================
