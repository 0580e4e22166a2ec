---------------------------- MODULE AttachProofs ----------------------------
(***************************************************************************)
(* Theorems about Attach, for every number of panes.                       *)
(***************************************************************************)
EXTENDS Attach, TLAPS

-----------------------------------------------------------------------------
(* The inductive invariant. *)

PaneCount(s) == s.pane_count
Fds(s) == Len(s.open)           \* masters in the answer
Saved(s, j) == s.saved[j]       \* the pane of its screen j

(* Only a screen is ever written in part.                                  *)
Whole ==
  /\ written < 4 => written = 0
  /\ written > GridCountAt(session) => written >= GridsAt(session)
  /\ written >= GridsAt(session) =>
       GridOffset(session, written) = 0 \/ InScreen(session, written)

(* The client reads the masters where they are and no other byte there, and *)
(* takes for a screen only what is one.                                     *)
AtScreen(j) ==
  /\ j \in 1 .. GridCount(session)
  /\ got = GridsAt(session) + GridSize * (j - 1) + HeaderSize + total
  /\ len = ScreenSize /\ total < len
Stage ==
  /\ pc \in {"pane_count", "refused"} => panes = <<>>
  /\ pc = "pane_count" => got = 0
  /\ pc = "fds" =>
       /\ count \in 1 .. PaneCount(session)
       /\ got = 4 + PaneCount(session) - count
       /\ Len(panes) = IF got < GridCountAt(session) THEN got - 4 ELSE Fds(session)
       /\ \A k \in 1 .. Len(panes) : panes[k] = session.open[k]
  /\ Attached => got >= 4 + PaneCount(session) /\ panes = session.open
  /\ pc \notin {"pane_count", "refused"} => session.granted
  /\ pc \in {"header", "data"} => count >= 1
  /\ pc = "data" => \E j \in 1 .. GridCount(session) : AtScreen(j)
  /\ ~Attached => \A k \in 1 .. Len(screen) : screen[k] = -1

(* Without a closed master it reads the parts of the answer where they are. *)
Restored ==             \* screens that are back in their panes
  CASE pc \in {"header", "data"} -> GridCount(session) - count
    [] pc = "loop" -> GridCount(session)
    [] OTHER -> 0
Synced ==
  AllOpen =>
    /\ Restored >= 0
    /\ pc = "grid_count" => got = GridCountAt(session)
    /\ pc = "header" => got = GridsAt(session) + GridSize * Restored
    /\ pc = "data" => AtScreen(Restored + 1)
    /\ pc = "loop" => got = Length(session)
    /\ \A k \in 1 .. Len(screen) :
         screen[k] = IF \E j \in 1 .. Restored : Saved(session, j) = k - 1 THEN k - 1 ELSE -1

IInv == TypeOK /\ Whole /\ Stage /\ Synced

-----------------------------------------------------------------------------
(* The answer. *)

LEMMA SelectionType ==
  ASSUME NEW n \in 1 .. MaxPanes, NEW e \in InPaneOrder(n)
  PROVE  \E m \in 0 .. n : e \in [1 .. m -> 0 .. MaxPanes - 1] /\ Len(e) = m
<1>1. PICK m \in 0 .. n : e \in [1 .. m -> 0 .. n - 1]
  BY DEF InPaneOrder
<1>2. m \in Nat
  BY MaxPanesAssumption
<1> DEFINE P == 0 .. MaxPanes - 1
<1>3. e \in [1 .. m -> P]
  <2>1. 0 .. n - 1 \subseteq P
    BY MaxPanesAssumption
  <2>2. QED
    BY <1>1, <2>1
<1> HIDE DEF P
<1>4. Len(e) = m
  BY <1>2, <1>3
<1>5. QED
  BY <1>3, <1>4 DEF P

LEMMA SessionType ==
  ASSUME NEW s \in Sessions
  PROVE  /\ PaneCount(s) \in 1 .. 127 /\ PaneCount(s) <= MaxPanes /\ s.granted \in BOOLEAN
         /\ Fds(s) \in 1 .. 127 /\ Fds(s) <= PaneCount(s)
         /\ GridCount(s) \in 0 .. 127 /\ GridCount(s) <= PaneCount(s)
         /\ s.open \in [1 .. Fds(s) -> 0 .. MaxPanes - 1]
         /\ \A j \in 1 .. GridCount(s) : Saved(s, j) \in 0 .. MaxPanes - 1
<1>1. PICK n \in 1 .. MaxPanes :
        /\ s.pane_count = n /\ s.granted \in BOOLEAN
        /\ s.open \in InPaneOrder(n) /\ s.open # <<>> /\ s.saved \in InPaneOrder(n)
  BY DEF Sessions
<1>2. n \in 1 .. 127 /\ n <= MaxPanes
  BY MaxPanesAssumption
<1>3. PICK o \in 0 .. n : s.open \in [1 .. o -> 0 .. MaxPanes - 1] /\ Len(s.open) = o
  BY <1>1, SelectionType
<1>4. PICK v \in 0 .. n : s.saved \in [1 .. v -> 0 .. MaxPanes - 1] /\ Len(s.saved) = v
  BY <1>1, SelectionType
<1>5. o # 0
  <2>1. ASSUME o = 0 PROVE s.open = <<>>
    BY <2>1, <1>3, SMT
  <2>2. QED
    BY <2>1, <1>1
<1>6. Fds(s) = o /\ GridCount(s) = v /\ PaneCount(s) = n
  BY <1>1, <1>3, <1>4 DEF Fds, GridCount, PaneCount
<1>7. /\ o \in 1 .. 127 /\ o <= n /\ v \in 0 .. 127 /\ v <= n
  BY <1>2, <1>5
<1>8. s.open \in [1 .. Fds(s) -> 0 .. MaxPanes - 1]
  BY <1>3, <1>6
<1>9. \A j \in 1 .. GridCount(s) : Saved(s, j) \in 0 .. MaxPanes - 1
  BY <1>4, <1>6 DEF Saved
<1>10. QED
  BY <1>1, <1>2, <1>6, <1>7, <1>8, <1>9

(* Where its parts are. *)
LEMMA Places ==
  ASSUME NEW s \in Sessions
  PROVE  /\ GridCountAt(s) \in 5 .. 131 /\ GridsAt(s) \in Nat /\ Length(s) \in Nat
         /\ GridCountAt(s) = 4 + Fds(s) /\ GridsAt(s) = 4 + GridCountAt(s)
         /\ s.granted => Length(s) = GridsAt(s) + 24 * GridCount(s)
         /\ ~s.granted => Length(s) = 4
         /\ GridSize = 24 /\ HeaderSize = 16 /\ ScreenSize = 8
<1>1. GridSize = 24 /\ HeaderSize = 16 /\ ScreenSize = 8
  BY DEF GridSize, HeaderSize, ScreenSize
<1>2. GridCountAt(s) = 4 + Fds(s)
  BY DEF GridCountAt, Fds, SendFds
<1>3. GridsAt(s) = 4 + GridCountAt(s)
  BY DEF GridsAt
<1>4. Length(s) = IF s.granted THEN GridsAt(s) + 24 * GridCount(s) ELSE 4
  BY <1>1 DEF Length, GridCount
<1>5. Fds(s) \in 1 .. 127 /\ GridCount(s) \in 0 .. 127
  BY SessionType
<1>6. GridCountAt(s) \in 5 .. 131 /\ GridsAt(s) \in Nat
  BY <1>2, <1>3, <1>5
<1>7. Length(s) \in Nat
  BY <1>4, <1>5, <1>6
<1>8. QED
  BY <1>1, <1>2, <1>3, <1>4, <1>6, <1>7

LEMMA Remainders ==
  /\ \A j \in Nat, r \in 0 .. 23 : (24 * j + r) % 24 = r /\ (24 * j + r) \div 24 = j
  /\ \A i \in Nat : \E j \in Nat, r \in 0 .. 23 : i = 24 * j + r
<1>1. \A j \in Nat, r \in 0 .. 23 : (24 * j + r) % 24 = r /\ (24 * j + r) \div 24 = j
  OBVIOUS
<1>2. ASSUME NEW i \in Nat
      PROVE  \E j \in Nat, r \in 0 .. 23 : i = 24 * j + r
  <2>1. i \div 24 \in Nat /\ i % 24 \in 0 .. 23 /\ i = 24 * (i \div 24) + (i % 24)
    BY SMT
  <2>2. QED
    BY <2>1
<1>3. QED
  BY <1>1, <1>2

(* The bytes of a screen, of a master, of the two counts. *)
LEMMA GridBytes ==
  ASSUME NEW s \in Sessions, NEW j \in 1 .. GridCount(s), NEW r \in 0 .. 23
  PROVE  /\ Answer(s, GridsAt(s) + 24 * (j - 1) + r) = GridByte(Saved(s, j), r)
         /\ GridOffset(s, GridsAt(s) + 24 * (j - 1) + r) = r
<1> DEFINE i == GridsAt(s) + 24 * (j - 1) + r
<1>1. GridCountAt(s) \in 5 .. 131 /\ GridsAt(s) \in Nat /\ GridsAt(s) = 4 + GridCountAt(s)
  BY Places
<1>2. GridCount(s) \in 0 .. 127
  BY SessionType
<1>3. j - 1 \in Nat /\ j \in Nat
  BY <1>2
<1>4. i \in Nat /\ i >= GridsAt(s) /\ i - GridsAt(s) = 24 * (j - 1) + r
  BY <1>1, <1>3
<1> HIDE DEF i
<1>5. GridOffset(s, i) = r /\ Grid(s, i) = j
  <2>1. /\ GridOffset(s, i) = (24 * (j - 1) + r) % 24
        /\ Grid(s, i) = (24 * (j - 1) + r) \div 24 + 1
    BY <1>4, Places DEF GridOffset, Grid
  <2>2. (24 * (j - 1) + r) % 24 = r /\ (24 * (j - 1) + r) \div 24 = j - 1
    BY <1>3, Remainders
  <2>3. QED
    BY <1>3, <2>1, <2>2
<1>6. /\ ~(i < 4) /\ ~(i \in 4 .. (GridCountAt(s) - 1))
      /\ ~(i \in GridCountAt(s) .. (GridsAt(s) - 1))
  BY <1>1, <1>4
<1>7. Answer(s, i) = GridByte(s.saved[Grid(s, i)], GridOffset(s, i))
  BY <1>6 DEF Answer
<1>8. QED
  BY <1>5, <1>7 DEF i, Saved

LEMMA MasterBytes ==
  ASSUME NEW s \in Sessions, NEW i \in 4 .. (GridCountAt(s) - 1)
  PROVE  /\ s.open[i - 3] \in 0 .. MaxPanes - 1 /\ i - 3 \in 1 .. Fds(s)
         /\ Answer(s, i) >= 256 /\ Answer(s, i) \in Nat
         /\ Answer(s, i) \div 256 - 1 = s.open[i - 3]
<1>1. /\ GridCountAt(s) \in 5 .. 131 /\ GridCountAt(s) = 4 + Fds(s)
      /\ GridsAt(s) \in Nat
  BY Places
<1>2. Fds(s) \in 1 .. 127
  BY SessionType
<1>3. i - 3 \in 1 .. Fds(s)
  BY <1>1, <1>2
<1>4. s.open[i - 3] \in 0 .. MaxPanes - 1
  BY <1>3, SessionType
<1>5. s.open[i - 3] \in Nat
  BY <1>4, MaxPanesAssumption
<1>6. /\ ~(i < 4) /\ ~(i \in GridCountAt(s) .. (GridsAt(s) - 1))
  BY <1>1
<1>7. Answer(s, i) = 256 * (s.open[i - 3] + 1)
  BY <1>6 DEF Answer, Master, SendFds
<1>8. QED
  BY <1>3, <1>4, <1>5, <1>7

LEMMA CountBytes ==
  ASSUME NEW s \in Sessions, NEW r \in 0 .. 3
  PROVE  /\ Answer(s, r) = IF r = 0 /\ s.granted THEN PaneCount(s) ELSE 0
         /\ Answer(s, GridCountAt(s) + r) = IF r = 0 THEN GridCount(s) ELSE 0
<1>1. GridCountAt(s) \in 5 .. 131 /\ GridsAt(s) \in Nat /\ GridsAt(s) = 4 + GridCountAt(s)
  BY Places
<1>2. GridCount(s) \in 0 .. 127 /\ PaneCount(s) \in 1 .. 127
  BY SessionType
<1>3. \A v \in 0 .. 127 : WordByte(v, r) = IF r = 0 THEN v ELSE 0
  BY DEF WordByte
<1>4. Answer(s, r) = WordByte(IF s.granted THEN PaneCount(s) ELSE 0, r)
  <2>1. /\ r < 4 /\ ~(r \in 4 .. (GridCountAt(s) - 1))
        /\ ~(r \in GridCountAt(s) .. (GridsAt(s) - 1))
    BY <1>1
  <2>2. QED
    BY <2>1 DEF Answer, PaneCount
<1>5. Answer(s, GridCountAt(s) + r) = WordByte(GridCount(s), r)
  <2> DEFINE i == GridCountAt(s) + r
  <2>1. /\ ~(i < 4) /\ ~(i \in 4 .. (GridCountAt(s) - 1))
        /\ i \in GridCountAt(s) .. (GridsAt(s) - 1) /\ i - GridCountAt(s) = r
    BY <1>1
  <2> HIDE DEF i
  <2>2. Answer(s, i) = WordByte(GridCount(s), i - GridCountAt(s))
    BY <2>1 DEF Answer
  <2>3. QED
    BY <2>1, <2>2 DEF i
<1>6. QED
  BY <1>2, <1>3, <1>4, <1>5

LEMMA GridByteValues ==
  ASSUME NEW n \in 0 .. MaxPanes - 1, NEW r \in 0 .. 23
  PROVE  /\ GridByte(n, r) = IF r = 0 THEN 52 ELSE IF r = 1 THEN 1 ELSE IF r = 8 THEN 8
                             ELSE IF r \in {16, 20} THEN n ELSE 0
         /\ GridByte(n, r) \in 0 .. 255
<1>1. n \in 0 .. 126
  BY MaxPanesAssumption
<1>2. r < 4 => WordByte(308, r) = IF r = 0 THEN 52 ELSE IF r = 1 THEN 1 ELSE 0
  BY DEF WordByte
<1>3. GridByte(n, r) = IF r = 0 THEN 52 ELSE IF r = 1 THEN 1 ELSE IF r = 8 THEN 8
                       ELSE IF r \in {16, 20} THEN n ELSE 0
  <2>1. CASE r < 4
    BY <2>1, <1>2 DEF GridByte, MSG_GRID_SAVE
  <2>2. CASE r = 8
    BY <2>2 DEF GridByte, ScreenSize
  <2>3. CASE r \in {16, 20}
    BY <2>3 DEF GridByte
  <2>4. CASE ~(r < 4) /\ r # 8 /\ r \notin {16, 20}
    BY <2>4 DEF GridByte
  <2>5. QED
    BY <2>1, <2>2, <2>3, <2>4
<1>4. QED
  BY <1>1, <1>3

(* Every byte behind grid_count is of a screen.                            *)
LEMMA InGrids ==
  ASSUME NEW s \in Sessions, s.granted,
         NEW i \in Nat, GridsAt(s) <= i, i < Length(s)
  PROVE  \E j \in 1 .. GridCount(s), r \in 0 .. 23 : i = GridsAt(s) + 24 * (j - 1) + r
<1>1. GridsAt(s) \in Nat /\ Length(s) \in Nat /\ Length(s) = GridsAt(s) + 24 * GridCount(s)
  BY Places
<1>2. GridCount(s) \in 0 .. 127
  BY SessionType
<1>3. i - GridsAt(s) \in Nat
  BY <1>1
<1>4. PICK j \in Nat, r \in 0 .. 23 : i - GridsAt(s) = 24 * j + r
  BY <1>3, Remainders
<1>5. j + 1 \in 1 .. GridCount(s) /\ i = GridsAt(s) + 24 * ((j + 1) - 1) + r
  BY <1>2, <1>1, <1>4
<1>6. QED
  BY <1>5

(* No byte behind the masters carries one.                                 *)
LEMMA PlainBytes ==
  ASSUME NEW s \in Sessions, s.granted,
         NEW i \in Nat, GridCountAt(s) <= i, i < Length(s)
  PROVE  Answer(s, i) \in 0 .. 255
<1>1. GridCountAt(s) \in Nat /\ GridsAt(s) \in Nat /\ GridsAt(s) = 4 + GridCountAt(s)
  BY Places
<1>2. CASE i < GridsAt(s)
  <2>1. i - GridCountAt(s) \in 0 .. 3 /\ i = GridCountAt(s) + (i - GridCountAt(s))
    BY <1>1, <1>2
  <2>2. GridCount(s) \in 0 .. 127
    BY SessionType
  <2>3. QED
    BY <2>1, <2>2, CountBytes
<1>3. CASE GridsAt(s) <= i
  <2>1. PICK j \in 1 .. GridCount(s), r \in 0 .. 23 : i = GridsAt(s) + 24 * (j - 1) + r
    BY <1>3, InGrids
  <2>2. Saved(s, j) \in 0 .. MaxPanes - 1
    BY SessionType
  <2>3. Answer(s, i) = GridByte(Saved(s, j), r)
    BY <2>1, GridBytes
  <2>4. GridByte(Saved(s, j), r) \in 0 .. 255
    BY <2>2, GridByteValues
  <2>5. QED
    BY <2>3, <2>4
<1>4. QED
  BY <1>1, <1>2, <1>3

LEMMA AnswerType ==
  ASSUME NEW s \in Sessions, NEW i \in Nat, i < Length(s)
  PROVE  Answer(s, i) \in Nat
<1>1. /\ GridCountAt(s) \in Nat /\ Length(s) \in Nat
      /\ s.granted \/ Length(s) = 4
  BY Places
<1>2. CASE i < 4
  <2>1. i \in 0 .. 3 /\ PaneCount(s) \in 1 .. 127
    BY <1>2, SessionType
  <2>2. QED
    BY <2>1, CountBytes
<1>3. CASE ~(i < 4) /\ i < GridCountAt(s)
  <2>1. i \in 4 .. (GridCountAt(s) - 1)
    BY <1>1, <1>3
  <2>2. QED
    BY <2>1, MasterBytes
<1>4. CASE ~(i < 4) /\ GridCountAt(s) <= i
  <2>1. s.granted
    BY <1>1, <1>4
  <2>2. QED
    BY <1>4, <2>1, PlainBytes
<1>5. QED
  BY <1>1, <1>2, <1>3, <1>4

-----------------------------------------------------------------------------
(* What the client reads. *)

LEMMA WordType ==
  ASSUME session \in Sessions, NEW i \in Nat, NEW n \in 0 .. 4, i + n <= Length(session)
  PROVE  IntAt(i, n) \in Nat
<1> DEFINE Byte(k) == IF k < n THEN Answer(session, i + k) % 256 ELSE 0
<1>1. ASSUME NEW k \in 0 .. 3 PROVE Byte(k) \in Nat
  <2>1. CASE k < n
    <3>1. Length(session) \in Nat
      BY Places
    <3>2. i + k \in Nat /\ i + k < Length(session)
      BY <2>1, <3>1
    <3>3. Answer(session, i + k) \in Nat
      BY <3>2, AnswerType
    <3>4. Answer(session, i + k) % 256 \in Nat
      BY <3>3
    <3>5. QED
      BY <2>1, <3>4
  <2>2. CASE ~(k < n)
    BY <2>2
  <2>3. QED
    BY <2>1, <2>2
<1>2. IntAt(i, n) = Byte(0) + 256 * Byte(1) + 65536 * Byte(2) + 16777216 * Byte(3)
  BY DEF IntAt
<1> HIDE DEF Byte
<1>3. Byte(0) \in Nat /\ Byte(1) \in Nat /\ Byte(2) \in Nat /\ Byte(3) \in Nat
  BY <1>1
<1>4. QED
  BY <1>2, <1>3

LEMMA WholeWord ==
  ASSUME NEW i \in Nat, \A k \in 0 .. 3 : Answer(session, i + k) \in 0 .. 255
  PROVE  IntAt(i, 4) = Answer(session, i) + 256 * Answer(session, i + 1)
           + 65536 * Answer(session, i + 2) + 16777216 * Answer(session, i + 3)
<1> DEFINE A(k) == Answer(session, i + k)
<1>1. \A k \in 0 .. 3 : A(k) \in 0 .. 255
  OBVIOUS
<1>2. IntAt(i, 4) = (A(0) % 256) + 256 * (A(1) % 256) + 65536 * (A(2) % 256) + 16777216 * (A(3) % 256)
  BY DEF IntAt
<1>3. A(0) = Answer(session, i)
  OBVIOUS
<1> HIDE DEF A
<1>4. A(0) \in 0 .. 255 /\ A(1) \in 0 .. 255 /\ A(2) \in 0 .. 255 /\ A(3) \in 0 .. 255
  BY <1>1
<1>5. /\ A(0) % 256 = A(0) /\ A(1) % 256 = A(1) /\ A(2) % 256 = A(2) /\ A(3) % 256 = A(3)
  BY <1>4
<1>6. IntAt(i, 4) = A(0) + 256 * A(1) + 65536 * A(2) + 16777216 * A(3)
  BY <1>2, <1>5
<1>7. QED
  BY <1>3, <1>6 DEF A

(* 308 is in no byte but the first two of a header.                        *)
LEMMA HeaderMatch ==
  ASSUME session \in Sessions, session.granted,
         NEW i \in Nat, GridCountAt(session) <= i, i + 16 <= Length(session),
         IntAt(i, 4) = MSG_GRID_SAVE
  PROVE  \E j \in 1 .. GridCount(session) : i = GridsAt(session) + 24 * (j - 1)
<1>1. /\ GridCountAt(session) \in Nat /\ GridsAt(session) \in Nat /\ Length(session) \in Nat
      /\ GridsAt(session) = 4 + GridCountAt(session)
      /\ Length(session) = GridsAt(session) + 24 * GridCount(session)
  BY Places
<1>2. GridCount(session) \in 0 .. 127
  BY SessionType
<1>3. \A k \in 0 .. 3 : Answer(session, i + k) \in 0 .. 255
  <2>1. ASSUME NEW k \in 0 .. 3
        PROVE  i + k \in Nat /\ GridCountAt(session) <= i + k /\ i + k < Length(session)
    BY <1>1
  <2>2. QED
    BY <2>1, PlainBytes
<1>4. Answer(session, i) = 52 /\ Answer(session, i + 1) = 1
  <2>1. IntAt(i, 4) = Answer(session, i) + 256 * Answer(session, i + 1)
          + 65536 * Answer(session, i + 2) + 16777216 * Answer(session, i + 3)
    BY <1>3, WholeWord
  <2>2. /\ Answer(session, i) \in 0 .. 255 /\ Answer(session, i + 1) \in 0 .. 255
        /\ Answer(session, i + 2) \in 0 .. 255 /\ Answer(session, i + 3) \in 0 .. 255
    <3>1. Answer(session, i + 0) \in 0 .. 255
      BY <1>3
    <3>2. i + 0 = i
      OBVIOUS
    <3>3. QED
      BY <1>3, <3>1, <3>2
  <2>3. QED
    <3> DEFINE a == Answer(session, i)
               b == Answer(session, i + 1)
               c == Answer(session, i + 2)
               d == Answer(session, i + 3)
    <3>1. 308 = a + 256 * b + 65536 * c + 16777216 * d
      BY <2>1 DEF MSG_GRID_SAVE
    <3>2. a \in 0 .. 255 /\ b \in 0 .. 255 /\ c \in 0 .. 255 /\ d \in 0 .. 255
      BY <2>2
    <3> HIDE DEF a, b, c, d
    <3>3. a = 52 /\ b = 1
      BY <3>1, <3>2
    <3>4. QED
      BY <3>3 DEF a, b
<1>5. ASSUME i < GridsAt(session) PROVE FALSE
  <2>1. PICK r \in 0 .. 3 : i = GridCountAt(session) + r
    <3>1. i - GridCountAt(session) \in 0 .. 3 /\ i = GridCountAt(session) + (i - GridCountAt(session))
      BY <1>1, <1>5
    <3>2. QED
      BY <3>1
  <2>2. r = 0
    <3>1. Answer(session, GridCountAt(session) + r) = 52
      BY <1>4, <2>1
    <3>2. r # 0 => Answer(session, GridCountAt(session) + r) = 0
      BY CountBytes
    <3>3. QED
      BY <3>1, <3>2
  <2>3. i + 1 = GridCountAt(session) + 1 /\ 1 \in 0 .. 3
    BY <1>1, <2>1, <2>2
  <2>4. Answer(session, GridCountAt(session) + 1) = 0
    BY <2>3, CountBytes
  <2>5. QED
    BY <1>4, <2>3, <2>4
<1>6. GridsAt(session) <= i
  BY <1>1, <1>5
<1>7. PICK j \in 1 .. GridCount(session), r \in 0 .. 23 : i = GridsAt(session) + 24 * (j - 1) + r
  <2>1. i < Length(session)
    BY <1>1
  <2>2. QED
    BY <1>6, <2>1, InGrids
<1>8. Saved(session, j) \in 0 .. MaxPanes - 1
  BY SessionType
<1>9. GridByte(Saved(session, j), r) = 52
  BY <1>4, <1>7, GridBytes
<1>10. r \in {0, 16, 20}
  BY <1>8, <1>9, GridByteValues
<1>11. j \in Nat
  BY <1>2
<1>12. CASE r \in {16, 20}
  <2>1. r + 1 \in 0 .. 23 /\ r + 1 \in {17, 21}
    BY <1>12
  <2>2. i + 1 = GridsAt(session) + 24 * (j - 1) + (r + 1)
    BY <1>1, <1>7, <1>11, <2>1
  <2>3. Answer(session, i + 1) = GridByte(Saved(session, j), r + 1)
    BY <2>1, <2>2, GridBytes
  <2>4. GridByte(Saved(session, j), r + 1) = 0
    BY <1>8, <2>1, GridByteValues
  <2>5. QED
    BY <1>4, <2>3, <2>4
<1>13. CASE r = 0
  <2>1. i = GridsAt(session) + 24 * (j - 1)
    BY <1>1, <1>7, <1>11, <1>13
  <2>2. QED
    BY <2>1
<1>14. QED
  BY <1>10, <1>12, <1>13

LEMMA ScreenWords ==
  ASSUME session \in Sessions, NEW j \in 1 .. GridCount(session),
         NEW i \in Nat, i = GridsAt(session) + 24 * (j - 1)
  PROVE  /\ IntAt(i, 4) = MSG_GRID_SAVE /\ IntAt(i + 8, 4) = ScreenSize
         /\ IntAt(i + 16, 4) = Saved(session, j) /\ IntAt(i + 20, 4) = Saved(session, j)
<1>1. Saved(session, j) \in 0 .. MaxPanes - 1
  BY SessionType
<1>2. Saved(session, j) \in Nat
  BY <1>1, MaxPanesAssumption
<1>3. GridsAt(session) \in Nat
  BY Places
<1>4. GridCount(session) \in 0 .. 127
  BY SessionType
<1>5. j \in Nat
  BY <1>4
<1>6. ASSUME NEW r \in 0 .. 23
      PROVE  Answer(session, i + r) = GridByte(Saved(session, j), r)
  <2>1. i + r = GridsAt(session) + 24 * (j - 1) + r
    OBVIOUS
  <2>2. QED
    BY <2>1, GridBytes
<1>7. ASSUME NEW r \in {0, 8, 16, 20}
      PROVE  IntAt(i + r, 4) = GridByte(Saved(session, j), r) + IF r = 0 THEN 256 ELSE 0
  <2>1. ASSUME NEW k \in 0 .. 3
        PROVE  Answer(session, (i + r) + k) = GridByte(Saved(session, j), r + k)
    <3>1. r + k \in 0 .. 23 /\ (i + r) + k = i + (r + k)
      OBVIOUS
    <3>2. QED
      BY <1>6, <3>1
  <2>2. \A k \in 0 .. 3 : Answer(session, (i + r) + k) \in 0 .. 255
    <3>1. ASSUME NEW k \in 0 .. 3 PROVE GridByte(Saved(session, j), r + k) \in 0 .. 255
      <4>1. r + k \in 0 .. 23
        OBVIOUS
      <4>2. QED
        BY <1>1, <4>1, GridByteValues
    <3>2. QED
      BY ONLY <2>1, <3>1
  <2>3. i + r \in Nat
    OBVIOUS
  <2>4. IntAt(i + r, 4) = Answer(session, i + r) + 256 * Answer(session, (i + r) + 1)
          + 65536 * Answer(session, (i + r) + 2) + 16777216 * Answer(session, (i + r) + 3)
    BY <2>2, <2>3, WholeWord
  <2>5. /\ Answer(session, i + r) = GridByte(Saved(session, j), r)
        /\ Answer(session, (i + r) + 1) = IF r = 0 THEN 1 ELSE 0
        /\ Answer(session, (i + r) + 2) = 0 /\ Answer(session, (i + r) + 3) = 0
    <3>1. /\ r \in 0 .. 23 /\ r + 1 \in 0 .. 23 /\ r + 2 \in 0 .. 23 /\ r + 3 \in 0 .. 23
          /\ r + 1 \in {1, 9, 17, 21} /\ r + 2 \in {2, 10, 18, 22} /\ r + 3 \in {3, 11, 19, 23}
          /\ r + 1 = 1 <=> r = 0
      OBVIOUS
    <3>2. /\ GridByte(Saved(session, j), r + 1) = IF r = 0 THEN 1 ELSE 0
          /\ GridByte(Saved(session, j), r + 2) = 0 /\ GridByte(Saved(session, j), r + 3) = 0
      BY <1>1, <3>1, GridByteValues
    <3>3. /\ 0 \in 0 .. 3 /\ 1 \in 0 .. 3 /\ 2 \in 0 .. 3 /\ 3 \in 0 .. 3
      OBVIOUS
    <3>4. Answer(session, i + r) = GridByte(Saved(session, j), r)
      BY <1>6, <3>1
    <3>5. Answer(session, (i + r) + 1) = GridByte(Saved(session, j), r + 1)
      BY ONLY <2>1, <3>3
    <3>6. Answer(session, (i + r) + 2) = GridByte(Saved(session, j), r + 2)
      BY ONLY <2>1, <3>3
    <3>7. Answer(session, (i + r) + 3) = GridByte(Saved(session, j), r + 3)
      BY ONLY <2>1, <3>3
    <3>8. QED
      BY ONLY <3>2, <3>4, <3>5, <3>6, <3>7
  <2>6. GridByte(Saved(session, j), r) \in 0 .. 255
    <3>1. r \in 0 .. 23
      OBVIOUS
    <3>2. QED
      BY <1>1, <3>1, GridByteValues
  <2>7. QED
    BY <2>4, <2>5, <2>6
<1>8. /\ GridByte(Saved(session, j), 0) = 52 /\ GridByte(Saved(session, j), 8) = 8
      /\ GridByte(Saved(session, j), 16) = Saved(session, j)
      /\ GridByte(Saved(session, j), 20) = Saved(session, j)
  BY <1>1, GridByteValues
<1>9. IntAt(i + 0, 4) = 308 /\ IntAt(i + 8, 4) = 8
  BY <1>7, <1>8
<1>10. IntAt(i + 16, 4) = Saved(session, j) /\ IntAt(i + 20, 4) = Saved(session, j)
  BY <1>2, <1>7, <1>8
<1>11. i + 0 = i
  OBVIOUS
<1>12. QED
  BY <1>9, <1>10, <1>11 DEF MSG_GRID_SAVE, ScreenSize

LEMMA CountWords ==
  ASSUME session \in Sessions
  PROVE  /\ IntAt(0, 4) = IF session.granted THEN PaneCount(session) ELSE 0
         /\ IntAt(GridCountAt(session), 4) = GridCount(session)
<1>1. GridCount(session) \in 0 .. 127 /\ PaneCount(session) \in 1 .. 127
  BY SessionType
<1>2. GridCountAt(session) \in Nat
  BY Places
<1>3. IntAt(0, 4) = IF session.granted THEN PaneCount(session) ELSE 0
  <2>1. ASSUME NEW k \in 0 .. 3
        PROVE  Answer(session, 0 + k) = IF k = 0 /\ session.granted THEN PaneCount(session) ELSE 0
    <3>1. 0 + k = k
      OBVIOUS
    <3>2. QED
      BY <3>1, CountBytes
  <2>2. \A k \in 0 .. 3 : Answer(session, 0 + k) \in 0 .. 255
    BY <1>1, <2>1
  <2>3. IntAt(0, 4) = Answer(session, 0) + 256 * Answer(session, 0 + 1)
          + 65536 * Answer(session, 0 + 2) + 16777216 * Answer(session, 0 + 3)
    BY <2>2, WholeWord
  <2>4. /\ Answer(session, 0) = IF session.granted THEN PaneCount(session) ELSE 0
        /\ Answer(session, 0 + 1) = 0 /\ Answer(session, 0 + 2) = 0 /\ Answer(session, 0 + 3) = 0
    BY <2>1, CountBytes
  <2>5. QED
    BY <1>1, <2>3, <2>4
<1>4. IntAt(GridCountAt(session), 4) = GridCount(session)
  <2> DEFINE i == GridCountAt(session)
  <2>1. \A k \in 0 .. 3 : Answer(session, i + k) = IF k = 0 THEN GridCount(session) ELSE 0
    BY CountBytes
  <2>2. i \in Nat
    BY <1>2
  <2> HIDE DEF i
  <2>3. \A k \in 0 .. 3 : Answer(session, i + k) \in 0 .. 255
    BY <1>1, <2>1
  <2>4. IntAt(i, 4) = Answer(session, i) + 256 * Answer(session, i + 1)
          + 65536 * Answer(session, i + 2) + 16777216 * Answer(session, i + 3)
    BY <2>2, <2>3, WholeWord
  <2>5. /\ Answer(session, i + 0) = GridCount(session)
        /\ Answer(session, i + 1) = 0 /\ Answer(session, i + 2) = 0 /\ Answer(session, i + 3) = 0
    BY <2>1
  <2>6. i + 0 = i
    BY <2>2
  <2>7. IntAt(i, 4) = GridCount(session)
    BY <1>1, <2>4, <2>5, <2>6
  <2>8. QED
    BY <2>7 DEF i
<1>5. QED
  BY <1>3, <1>4

-----------------------------------------------------------------------------
(* The steps. *)

LEMMA Numbers ==
  ASSUME TypeOK
  PROVE  /\ session \in Sessions
         /\ written \in Nat /\ got \in Nat /\ got <= written /\ written <= Length(session)
         /\ count \in Nat /\ len \in Nat /\ total \in Nat
         /\ PaneCount(session) \in 1 .. 127 /\ Fds(session) \in 1 .. 127
         /\ Fds(session) <= PaneCount(session) /\ GridCount(session) \in 0 .. 127
         /\ GridCountAt(session) \in Nat /\ GridsAt(session) \in Nat /\ Length(session) \in Nat
         /\ GridCountAt(session) = 4 + Fds(session)
         /\ GridsAt(session) = 4 + GridCountAt(session)
         /\ session.granted => Length(session) = GridsAt(session) + 24 * GridCount(session)
         /\ ~session.granted => Length(session) = 4
<1>1. /\ session \in Sessions
      /\ written \in 0 .. Length(session) /\ got \in 0 .. written
      /\ count \in Nat /\ len \in Nat /\ total \in Nat
  BY DEF TypeOK
<1>2. /\ GridCountAt(session) \in 5 .. 131 /\ GridsAt(session) \in Nat
      /\ Length(session) \in Nat
      /\ GridCountAt(session) = 4 + Fds(session)
      /\ GridsAt(session) = 4 + GridCountAt(session)
  BY <1>1, Places
<1>3. /\ session.granted => Length(session) = GridsAt(session) + 24 * GridCount(session)
      /\ ~session.granted => Length(session) = 4
  BY <1>1, Places
<1>4. /\ PaneCount(session) \in 1 .. 127 /\ Fds(session) \in 1 .. 127
      /\ Fds(session) <= PaneCount(session) /\ GridCount(session) \in 0 .. 127
  BY <1>1, SessionType
<1>5. written \in Nat /\ got \in Nat /\ got <= written /\ written <= Length(session)
  BY <1>1, <1>2
<1>6. GridCountAt(session) \in Nat
  BY <1>2
<1>7. QED
  BY <1>1, <1>2, <1>3, <1>4, <1>5, <1>6

(* Where a write leaves off.                                               *)
LEMMA NextWritten ==
  ASSUME TypeOK, Whole, written < Length(session),
         NEW w \in (written + 1) .. WriteEnd(session, written),
         w = WriteEnd(session, written) \/ InScreen(session, written)
  PROVE  /\ w \in Nat /\ written < w /\ w <= Length(session)
         /\ ~(w < 4) /\ (w > GridCountAt(session) => w >= GridsAt(session))
         /\ w >= GridsAt(session) =>
              GridOffset(session, w) = 0 \/ InScreen(session, w)
<1>1. /\ written \in Nat /\ written <= Length(session)
      /\ GridCount(session) \in 0 .. 127 /\ Fds(session) \in 1 .. 127
      /\ GridCountAt(session) \in Nat /\ GridsAt(session) \in Nat /\ Length(session) \in Nat
      /\ GridCountAt(session) = 4 + Fds(session)
      /\ GridsAt(session) = 4 + GridCountAt(session)
  BY Numbers
<1>2. /\ session \in Sessions
      /\ session.granted => Length(session) = GridsAt(session) + 24 * GridCount(session)
      /\ ~session.granted => Length(session) = 4
  BY Numbers
<1>3. HeaderSize = 16 /\ GridSize = 24
  BY DEF HeaderSize, GridSize, ScreenSize
<1>4. /\ written < 4 => written = 0
      /\ written > GridCountAt(session) => written >= GridsAt(session)
      /\ written >= GridsAt(session) =>
           GridOffset(session, written) = 0 \/ InScreen(session, written)
  BY DEF Whole
<1>5. CASE written < 4
  <2>1. ~InScreen(session, written)
    BY <1>1, <1>5 DEF InScreen
  <2>2. /\ ~(written \in 4 .. (GridCountAt(session) - 1))
        /\ ~(written \in GridCountAt(session) .. (GridsAt(session) - 1))
    BY <1>1, <1>5
  <2>3. w = 4
    BY <1>5, <2>1, <2>2 DEF WriteEnd
  <2>4. QED
    BY <1>1, <1>2, <1>4, <1>5, <2>3
<1>6. CASE written \in 4 .. (GridCountAt(session) - 1)
  <2>1. ~InScreen(session, written)
    BY <1>1, <1>6 DEF InScreen
  <2>2. /\ ~(written < 4)
        /\ ~(written \in GridCountAt(session) .. (GridsAt(session) - 1))
    BY <1>1, <1>6
  <2>3. w = written + 1
    BY <1>6, <2>1, <2>2 DEF WriteEnd
  <2>4. QED
    BY <1>1, <1>2, <1>4, <1>6, <2>3
<1>7. CASE written \in GridCountAt(session) .. (GridsAt(session) - 1)
  <2>1. ~InScreen(session, written)
    BY <1>1, <1>7 DEF InScreen
  <2>2. /\ ~(written < 4) /\ ~(written \in 4 .. (GridCountAt(session) - 1))
    BY <1>1, <1>7
  <2>3. w = GridsAt(session)
    BY <1>7, <2>1, <2>2 DEF WriteEnd
  <2>4. GridOffset(session, w) = 0
    BY <1>1, <1>3, <2>3 DEF GridOffset
  <2>5. session.granted
    BY <1>1, <1>2, <2>2
  <2>6. QED
    BY <1>1, <1>2, <1>7, <2>3, <2>4, <2>5
<1>8. CASE GridsAt(session) <= written
  <2>1. session.granted
    BY <1>1, <1>2, <1>8
  <2>2. PICK j \in 1 .. GridCount(session), r \in 0 .. 23 :
          written = GridsAt(session) + 24 * (j - 1) + r
    BY <1>1, <1>2, <1>8, <2>1, InGrids
  <2>3. GridOffset(session, written) = r
    BY <1>2, <2>2, GridBytes
  <2>4. /\ ~(written < 4) /\ ~(written \in 4 .. (GridCountAt(session) - 1))
        /\ ~(written \in GridCountAt(session) .. (GridsAt(session) - 1))
    BY <1>1, <1>8
  <2>5. InScreen(session, written) <=> r >= 16
    BY <1>3, <1>8, <2>3 DEF InScreen
  <2>6. r = 0 \/ r >= 16
    BY <1>4, <1>8, <2>3, <2>5
  <2>7. WriteEnd(session, written) = IF r >= 16 THEN written + (24 - r) ELSE written + 16 - r
    BY <1>3, <2>3, <2>4, <2>5 DEF WriteEnd
  <2>8. j \in Nat /\ j <= GridCount(session)
    BY <1>1
  <2>9. PICK q \in 16 .. 24 : w = GridsAt(session) + 24 * (j - 1) + q
    <3>1. w - (GridsAt(session) + 24 * (j - 1)) \in 16 .. 24
      BY <1>1, <2>2, <2>5, <2>6, <2>7, <2>8
    <3>2. QED
      BY <1>1, <2>2, <2>8, <3>1
  <2>10. w \in Nat /\ w >= GridsAt(session) /\ written < w
    BY <1>1, <2>2, <2>8, <2>9
  <2>11. w <= Length(session)
    BY <1>1, <1>2, <2>1, <2>8, <2>9
  <2>12. GridOffset(session, w) = 0 \/ InScreen(session, w)
    <3>1. CASE q = 24
      <4>1. w - GridsAt(session) = 24 * j + 0
        BY <1>1, <2>8, <2>9, <3>1
      <4>2. (24 * j + 0) % 24 = 0
        BY <2>8, Remainders
      <4>3. QED
        BY <1>3, <4>1, <4>2 DEF GridOffset
    <3>2. CASE q # 24
      <4>1. q \in 0 .. 23 /\ q >= 16
        BY <3>2
      <4>2. GridOffset(session, w) = q
        BY <1>2, <2>9, <4>1, GridBytes
      <4>3. QED
        BY <1>3, <2>10, <4>1, <4>2 DEF InScreen
    <3>3. QED
      BY <3>1, <3>2
  <2>13. QED
    BY <1>1, <2>10, <2>11, <2>12
<1>9. QED
  BY <1>1, <1>5, <1>6, <1>7, <1>8

LEMMA WritesKeep ==
  ASSUME IInv, ServerWrites
  PROVE  IInv'
<1>1. TypeOK /\ Whole /\ Stage /\ Synced
  BY DEF IInv
<1>2. PICK w \in (written + 1) .. WriteEnd(session, written) :
        /\ w = WriteEnd(session, written) \/ InScreen(session, written)
        /\ written' = w
  BY DEF ServerWrites
<1>3. /\ written < Length(session)
      /\ UNCHANGED <<session, got, pc, count, len, total, panes, screen>>
  BY DEF ServerWrites
<1>4. /\ w \in Nat /\ written < w /\ w <= Length(session)
      /\ ~(w < 4) /\ (w > GridCountAt(session) => w >= GridsAt(session))
      /\ w >= GridsAt(session) =>
           GridOffset(session, w) = 0 \/ InScreen(session, w)
  BY <1>1, <1>2, <1>3, NextWritten
<1>5. TypeOK'
  <2>1. /\ got \in Nat /\ written \in Nat /\ got <= written /\ Length(session) \in Nat
    BY <1>1, Numbers
  <2>2. w \in 0 .. Length(session) /\ got \in 0 .. w
    BY <1>4, <2>1
  <2>3. QED
    BY <1>1, <1>2, <1>3, <2>2 DEF TypeOK
<1>6. Whole'
  BY <1>2, <1>3, <1>4 DEF Whole
<1>7. Stage'
  BY <1>1, <1>3 DEF Stage, AtScreen, Attached
<1>8. Synced'
  BY <1>1, <1>3 DEF Synced, AllOpen, Restored, AtScreen
<1>9. QED
  BY <1>5, <1>6, <1>7, <1>8 DEF IInv

LEMMA LoopReadKeeps ==
  ASSUME IInv, LoopRead
  PROVE  IInv'
<1>1. TypeOK /\ Whole /\ Stage /\ Synced
  BY DEF IInv
<1>2. /\ pc = "loop" /\ written > got /\ got' = got + Got(1)
      /\ UNCHANGED <<session, written, pc, count, len, total, panes, screen>>
  BY DEF LoopRead, Take
<1>3. /\ written \in Nat /\ got \in Nat /\ written <= Length(session)
      /\ Length(session) \in Nat /\ PaneCount(session) \in 1 .. 127
  BY <1>1, Numbers
<1>4. got' = got + 1
  BY <1>2, <1>3 DEF Got
<1>5. TypeOK'
  <2>1. got' \in 0 .. written
    BY <1>2, <1>3, <1>4
  <2>2. QED
    BY <1>1, <1>2, <2>1 DEF TypeOK
<1>6. Whole'
  BY <1>1, <1>2 DEF Whole
<1>7. Stage'
  <2>1. /\ got >= 4 + PaneCount(session) /\ panes = session.open
        /\ session.granted
    BY <1>1, <1>2 DEF Stage, Attached
  <2>2. got' >= 4 + PaneCount(session)
    BY <1>3, <1>4, <2>1
  <2>3. QED
    BY <1>2, <2>1, <2>2 DEF Stage, Attached
<1>8. ~AllOpen
  BY <1>1, <1>2, <1>3 DEF Synced
<1>9. Synced'
  BY <1>2, <1>8 DEF Synced, AllOpen
<1>10. QED
  BY <1>5, <1>6, <1>7, <1>9 DEF IInv

LEMMA GotBytes ==
  ASSUME TypeOK, written > got, NEW n \in 1 .. 16
  PROVE  /\ Got(n) \in 1 .. n /\ got + Got(n) <= written
         /\ got + n <= written => Got(n) = n
         /\ Got(n) = n => got + n <= written
<1>1. written \in Nat /\ got \in Nat
  BY Numbers
<1>2. QED
  BY <1>1 DEF Got

LEMMA InitKeeps ==
  ASSUME Init
  PROVE  IInv
<1>1. /\ session \in Sessions /\ written = 0 /\ got = 0
      /\ pc = "pane_count" /\ count = 0 /\ len = 0 /\ total = 0
      /\ panes = <<>> /\ screen = <<>>
  BY DEF Init
<1>2. GridCountAt(session) \in 5 .. 131 /\ GridsAt(session) \in Nat /\ Length(session) \in Nat
      /\ GridsAt(session) = 4 + GridCountAt(session)
  BY <1>1, Places
<1>3. TypeOK
  <2>1. 0 \in 0 .. Length(session) /\ 0 \in 0 .. 0
    BY <1>2
  <2>2. <<>> \in Seq(0 .. MaxPanes - 1) /\ <<>> \in Seq(-1 .. MaxPanes - 1)
    OBVIOUS
  <2>3. QED
    BY <1>1, <2>1, <2>2 DEF TypeOK
<1>4. Whole
  <2>1. ~(0 > GridCountAt(session)) /\ ~(0 >= GridsAt(session))
    BY <1>2
  <2>2. QED
    BY <1>1, <2>1, Zenon DEF Whole
<1>5. Stage
  BY <1>1 DEF Stage, Attached
<1>6. Synced
  BY <1>1 DEF Synced, Restored
<1>7. QED
  BY <1>3, <1>4, <1>5, <1>6 DEF IInv

LEMMA ReadPaneCountKeeps ==
  ASSUME IInv, ReadPaneCount
  PROVE  IInv'
<1>1. TypeOK /\ Whole /\ Stage /\ Synced
  BY DEF IInv
<1>2. /\ pc = "pane_count" /\ written > got /\ got' = got + Got(4)
      /\ count' = IntAt(got, Got(4))
      /\ pc' = IF count' = 0 THEN "refused" ELSE "fds"
      /\ UNCHANGED <<session, written, len, total, panes, screen>>
  BY DEF ReadPaneCount, Take
<1>3. /\ session \in Sessions
      /\ written \in Nat /\ got \in Nat /\ PaneCount(session) \in 1 .. 127
      /\ Fds(session) \in 1 .. 127 /\ GridCountAt(session) \in Nat
      /\ GridCountAt(session) = 4 + Fds(session)
  BY <1>1, Numbers
<1>4. got = 0 /\ panes = <<>> /\ \A k \in 1 .. Len(screen) : screen[k] = -1
  BY <1>1, <1>2 DEF Stage, Attached
<1>5. written >= 4
  BY <1>1, <1>2, <1>3, <1>4 DEF Whole
<1>6. Got(4) = 4 /\ got' = 4
  BY <1>2, <1>3, <1>4, <1>5 DEF Got
<1>7. count' = IF session.granted THEN PaneCount(session) ELSE 0
  <2>1. count' = IntAt(0, 4)
    BY <1>2, <1>4, <1>6
  <2>2. QED
    BY <1>3, <2>1, CountWords
<1>8. TypeOK'
  <2>1. got' \in 0 .. written /\ count' \in Nat
    BY <1>3, <1>5, <1>6, <1>7
  <2>2. QED
    BY <1>1, <1>2, <2>1 DEF TypeOK
<1>9. Whole'
  BY <1>1, <1>2 DEF Whole
<1>10. session.granted <=> pc' = "fds"
  BY <1>2, <1>3, <1>7
<1>11. Stage'
  <2>1. pc' = "fds" =>
          /\ count' \in 1 .. PaneCount(session)
          /\ got' = 4 + PaneCount(session) - count'
          /\ got' < GridCountAt(session) /\ got' - 4 = 0
    BY <1>3, <1>6, <1>7, <1>10
  <2>2. Len(panes) = 0
    BY <1>4
  <2>3. pc' \in {"refused", "fds"}
    BY <1>2
  <2>4. QED
    BY <1>2, <1>4, <1>10, <2>1, <2>2, <2>3 DEF Stage, Attached
<1>12. Synced'
  BY <1>2, <1>4 DEF Synced, Restored, AllOpen
<1>13. QED
  BY <1>8, <1>9, <1>11, <1>12 DEF IInv

LEMMA AllOpenFds ==
  ASSUME session \in Sessions, AllOpen
  PROVE  Fds(session) = PaneCount(session)
<1>1. PaneCount(session) \in 1 .. 127
  BY SessionType
<1>2. PaneCount(session) \in Nat
  BY <1>1
<1>3. session.open = [k \in 1 .. PaneCount(session) |-> k - 1]
  BY DEF AllOpen, PaneCount
<1>4. ASSUME NEW n \in Nat PROVE Len([k \in 1 .. n |-> k - 1]) = n
  <2> DEFINE e == [k \in 1 .. n |-> k - 1]
  <2>1. e \in [1 .. n -> Int]
    OBVIOUS
  <2> HIDE DEF e
  <2>2. Len(e) = n
    BY <2>1
  <2>3. QED
    BY <2>2 DEF e
<1>5. QED
  BY <1>2, <1>3, <1>4 DEF Fds

LEMMA RecvFdKeeps ==
  ASSUME IInv, RecvFd
  PROVE  IInv'
<1>1. TypeOK /\ Whole /\ Stage /\ Synced
  BY DEF IInv
<1>2. /\ pc = "fds" /\ written > got /\ got' = got + Got(1)
      /\ count' = count - 1
      /\ pc' = IF count = 1 THEN "grid_count" ELSE "fds"
      /\ UNCHANGED <<session, written, len, total>>
  BY DEF RecvFd, Take, AfterFd
<1>3. \/ /\ Answer(session, got) >= 256
         /\ panes' = Append(panes, Answer(session, got) \div 256 - 1)
         /\ screen' = Append(screen, -1)
      \/ /\ Answer(session, got) < 256
         /\ UNCHANGED <<panes, screen>>
  BY DEF RecvFd
<1>4. /\ session \in Sessions
      /\ written \in Nat /\ got \in Nat /\ written <= Length(session)
      /\ count \in Nat /\ PaneCount(session) \in 1 .. 127 /\ Fds(session) \in 1 .. 127
      /\ Fds(session) <= PaneCount(session) /\ Length(session) \in Nat
      /\ GridCountAt(session) \in Nat /\ GridCountAt(session) = 4 + Fds(session)
  BY <1>1, Numbers
<1>5. count \in 1 .. PaneCount(session) /\ got = 4 + PaneCount(session) - count
  BY <1>1, <1>2 DEF Stage, Attached
<1>6. /\ Len(panes) = IF got < GridCountAt(session) THEN got - 4 ELSE Fds(session)
      /\ \A k \in 1 .. Len(panes) : panes[k] = session.open[k]
      /\ \A k \in 1 .. Len(screen) : screen[k] = -1
  BY <1>1, <1>2 DEF Stage, Attached
<1>7. session.granted
  BY <1>1, <1>2 DEF Stage
<1>8. got' = got + 1
  BY <1>2, <1>4 DEF Got
<1> DEFINE P == 0 .. MaxPanes - 1
           S == -1 .. MaxPanes - 1
<1>9. panes \in Seq(P) /\ screen \in Seq(S) /\ Len(panes) = Len(screen) /\ -1 \in S
  BY <1>1, MaxPanesAssumption DEF TypeOK
<1> HIDE DEF P, S
(* The panes the client has then. *)
<1>10. /\ panes' \in Seq(P) /\ screen' \in Seq(S) /\ Len(panes') = Len(screen')
       /\ Len(panes') = IF got' < GridCountAt(session) THEN got' - 4 ELSE Fds(session)
       /\ \A k \in 1 .. Len(panes') : panes'[k] = session.open[k]
       /\ \A k \in 1 .. Len(screen') : screen'[k] = -1
  <2>1. CASE got < GridCountAt(session)
    <3>1. got \in 4 .. (GridCountAt(session) - 1)
      BY <1>4, <1>5, <2>1
    <3>2. /\ session.open[got - 3] \in P
          /\ Answer(session, got) >= 256 /\ Answer(session, got) \in Nat
          /\ Answer(session, got) \div 256 - 1 = session.open[got - 3]
      BY <1>4, <3>1, MasterBytes DEF P
    <3>3. panes' = Append(panes, session.open[got - 3]) /\ screen' = Append(screen, -1)
      BY <1>3, <3>2
    <3>4. Len(panes) = got - 4 /\ Len(screen) = got - 4
      BY <1>6, <1>9, <2>1
    <3>5. /\ panes' \in Seq(P) /\ screen' \in Seq(S)
          /\ Len(panes') = Len(panes) + 1 /\ Len(screen') = Len(screen) + 1
          /\ \A k \in 1 .. Len(panes) : panes'[k] = panes[k]
          /\ \A k \in 1 .. Len(screen) : screen'[k] = screen[k]
          /\ panes'[Len(panes) + 1] = session.open[got - 3] /\ screen'[Len(screen) + 1] = -1
      BY <1>9, <3>2, <3>3
    <3>6. Len(panes') = got - 3 /\ Len(screen') = got - 3
      BY <1>4, <3>4, <3>5
    <3>7. got - 3 = IF got' < GridCountAt(session) THEN got' - 4 ELSE Fds(session)
      BY <1>4, <1>8, <2>1
    <3>8. ASSUME NEW k \in 1 .. got - 3
          PROVE  panes'[k] = session.open[k] /\ screen'[k] = -1
      <4>1. CASE k = got - 3
        BY <1>4, <3>4, <3>5, <4>1
      <4>2. CASE k # got - 3
        <5>1. k \in 1 .. got - 4
          BY <1>4, <4>2
        <5>2. QED
          BY <1>6, <3>4, <3>5, <5>1
      <4>3. QED
        BY <4>1, <4>2
    <3>9. QED
      BY <3>5, <3>6, <3>7, <3>8
  <2>2. CASE ~(got < GridCountAt(session))
    <3>1. GridCountAt(session) <= got /\ got < Length(session)
      BY <1>2, <1>4, <2>2
    <3>2. Answer(session, got) \in 0 .. 255
      BY <1>4, <1>7, <3>1, PlainBytes
    <3>3. UNCHANGED <<panes, screen>>
      <4>1. ~(Answer(session, got) >= 256)
        BY <3>2
      <4>2. QED
        BY <1>3, <4>1
    <3>4. ~(got' < GridCountAt(session))
      BY <1>4, <1>8, <2>2
    <3>5. QED
      BY <1>6, <1>9, <2>2, <3>3, <3>4
  <2>3. QED
    BY <2>1, <2>2
<1>11. TypeOK'
  <2>1. got' \in 0 .. written /\ count' \in Nat /\ pc' \in {"grid_count", "fds"}
    BY <1>2, <1>4, <1>5, <1>8
  <2>2. QED
    BY <1>1, <1>2, <1>10, <2>1 DEF TypeOK, P, S
<1>12. Whole'
  BY <1>1, <1>2 DEF Whole
<1>13. CASE count = 1
  <2>1. pc' = "grid_count" /\ got' = 4 + PaneCount(session)
    BY <1>2, <1>4, <1>5, <1>8, <1>13
  <2>2. panes' = session.open
    <3>1. Len(panes') = Fds(session)
      <4>1. ~(got' < GridCountAt(session))
        BY <1>4, <2>1
      <4>2. QED
        BY <1>10, <4>1
    <3>2. panes' \in [1 .. Fds(session) -> P]
      BY <1>10, <3>1
    <3>3. session.open \in [1 .. Fds(session) -> P]
      BY <1>4, SessionType DEF P
    <3>4. \A k \in 1 .. Fds(session) : panes'[k] = session.open[k]
      BY <1>10, <3>1
    <3>5. /\ panes' = [k \in 1 .. Fds(session) |-> panes'[k]]
          /\ session.open = [k \in 1 .. Fds(session) |-> session.open[k]]
      BY <3>2, <3>3
    <3>6. [k \in 1 .. Fds(session) |-> panes'[k]] = [k \in 1 .. Fds(session) |-> session.open[k]]
      BY <3>4
    <3>7. QED
      BY <3>5, <3>6
  <2>3. Stage'
    <3>1. got' >= 4 + PaneCount(session)
      BY <1>4, <2>1
    <3>2. QED
      BY <1>2, <1>7, <2>1, <2>2, <3>1 DEF Stage, Attached
  <2>4. Synced'
    <3>1. AllOpen => got' = GridCountAt(session)
      <4>1. ASSUME AllOpen PROVE Fds(session) = PaneCount(session)
        BY <1>4, <4>1, AllOpenFds
      <4>2. QED
        BY <1>4, <2>1, <4>1
    <3>2. AllOpen' <=> AllOpen
      BY <1>2 DEF AllOpen
    <3>3. Restored' = 0
      BY <2>1 DEF Restored
    <3>4. QED
      BY <1>2, <1>10, <2>1, <3>1, <3>2, <3>3 DEF Synced
  <2>5. QED
    BY <1>11, <1>12, <2>3, <2>4 DEF IInv
<1>14. CASE count # 1
  <2>1. /\ pc' = "fds" /\ count' \in 1 .. PaneCount(session)
        /\ got' = 4 + PaneCount(session) - count'
    BY <1>2, <1>4, <1>5, <1>8, <1>14
  <2>2. Stage'
    BY <1>2, <1>7, <1>10, <2>1 DEF Stage, Attached
  <2>3. Synced'
    <3>1. Restored' = 0
      BY <2>1 DEF Restored
    <3>2. QED
      BY <1>10, <2>1, <3>1 DEF Synced
  <2>4. QED
    BY <1>11, <1>12, <2>2, <2>3 DEF IInv
<1>15. QED
  BY <1>13, <1>14

LEMMA ReadGridCountKeeps ==
  ASSUME IInv, ReadGridCount
  PROVE  IInv'
<1>1. TypeOK /\ Whole /\ Stage /\ Synced
  BY DEF IInv
<1>2. /\ pc = "grid_count" /\ written > got /\ got' = got + Got(4)
      /\ count' = IntAt(got, Got(4))
      /\ pc' = IF count' = 0 THEN "loop" ELSE "header"
      /\ UNCHANGED <<session, written, len, total, panes, screen>>
  BY DEF ReadGridCount, Take
<1>3. /\ session \in Sessions
      /\ written \in Nat /\ got \in Nat /\ written <= Length(session)
      /\ PaneCount(session) \in 1 .. 127 /\ GridCount(session) \in 0 .. 127
      /\ GridCountAt(session) \in Nat /\ GridsAt(session) \in Nat /\ Length(session) \in Nat
      /\ GridsAt(session) = 4 + GridCountAt(session)
  BY <1>1, Numbers
<1>4. got >= 4 + PaneCount(session)
  BY <1>1, <1>2 DEF Stage, Attached
<1>5. panes = session.open /\ session.granted
  BY <1>1, <1>2 DEF Stage, Attached
<1>6. Got(4) \in 1 .. 4 /\ got + Got(4) <= written
  BY <1>1, <1>2, GotBytes
<1>7. count' \in Nat
  <2>1. Got(4) \in 0 .. 4 /\ got + Got(4) <= Length(session)
    BY <1>3, <1>6
  <2>2. QED
    BY <1>2, <1>3, <2>1, WordType
<1>8. TypeOK'
  <2>1. got' \in 0 .. written /\ pc' \in {"loop", "header"}
    BY <1>2, <1>3, <1>6
  <2>2. QED
    BY <1>1, <1>2, <1>7, <2>1 DEF TypeOK
<1>9. Whole'
  BY <1>1, <1>2 DEF Whole
<1>10. Stage'
  <2>1. got' >= 4 + PaneCount(session)
    BY <1>2, <1>3, <1>4, <1>6
  <2>2. pc' = "header" => count' >= 1
    BY <1>2, <1>7
  <2>3. pc' \in {"loop", "header"}
    BY <1>2
  <2>4. QED
    BY <1>2, <1>5, <2>1, <2>2, <2>3 DEF Stage, Attached
<1>11. Synced'
  <2>1. SUFFICES ASSUME AllOpen
                 PROVE  Synced'
    BY <1>2 DEF Synced, AllOpen
  <2>2. got = GridCountAt(session) /\ \A k \in 1 .. Len(screen) : screen[k] = -1
    BY <1>1, <1>2, <2>1 DEF Synced, Restored
  <2>3. written >= GridsAt(session)
    BY <1>1, <1>2, <2>2 DEF Whole
  <2>4. Got(4) = 4
    BY <1>2, <1>3, <2>2, <2>3 DEF Got
  <2>5. count' = GridCount(session) /\ got' = GridsAt(session)
    <3>1. count' = IntAt(GridCountAt(session), 4)
      BY <1>2, <2>2, <2>4
    <3>2. got' = GridsAt(session)
      BY <1>2, <1>3, <2>2, <2>4
    <3>3. QED
      BY <1>3, <3>1, <3>2, CountWords
  <2>6. Restored' = 0
    BY <1>2, <1>3, <2>5 DEF Restored
  <2>7. /\ got' = GridsAt(session) + GridSize * 0
        /\ pc' = "loop" => got' = Length(session)
    <3>1. pc' = "loop" => Length(session) = GridsAt(session) + 24 * 0
      <4>1. Length(session) = GridsAt(session) + 24 * GridCount(session)
        BY <1>3, <1>5, Places
      <4>2. pc' = "loop" => GridCount(session) = 0
        BY <1>2, <2>5
      <4>3. QED
        BY <4>1, <4>2
    <3>2. GridSize * 0 = 0
      BY DEF GridSize, HeaderSize, ScreenSize
    <3>3. QED
      BY <1>3, <2>5, <3>1, <3>2
  <2>8. pc' \in {"loop", "header"}
    BY <1>2
  <2>9. QED
    BY <1>2, <2>2, <2>6, <2>7, <2>8 DEF Synced
<1>12. QED
  BY <1>8, <1>9, <1>10, <1>11 DEF IInv

LEMMA ReadHeaderKeeps ==
  ASSUME IInv, ReadHeader
  PROVE  IInv'
<1>1. TypeOK /\ Whole /\ Stage /\ Synced
  BY DEF IInv
<1>2. /\ pc = "header" /\ written > got /\ got' = got + Got(16)
      /\ UNCHANGED <<session, written, panes, screen>>
  BY DEF ReadHeader, Take, HeaderSize
<1>3. /\ session \in Sessions /\ count \in Nat
      /\ written \in Nat /\ got \in Nat /\ written <= Length(session)
      /\ PaneCount(session) \in 1 .. 127 /\ GridCount(session) \in 0 .. 127
      /\ GridCountAt(session) \in Nat /\ GridsAt(session) \in Nat /\ Length(session) \in Nat
      /\ GridsAt(session) = 4 + GridCountAt(session)
      /\ GridCountAt(session) = 4 + Fds(session)
      /\ Fds(session) <= PaneCount(session) /\ Fds(session) \in 1 .. 127
  BY <1>1, Numbers
<1>4. got >= 4 + PaneCount(session) /\ count >= 1
  BY <1>1, <1>2 DEF Stage, Attached
<1>5. panes = session.open /\ session.granted
  BY <1>1, <1>2 DEF Stage, Attached
<1>6. Got(16) \in 1 .. 16 /\ got + Got(16) <= written
  BY <1>1, <1>2, GotBytes
<1>7. got' \in 0 .. written /\ got' >= 4 + PaneCount(session)
  BY <1>2, <1>3, <1>4, <1>6
<1>8. Whole'
  BY <1>1, <1>2 DEF Whole
<1>9. AllOpen => got = GridsAt(session) + 24 * (GridCount(session) - count)
                 /\ GridCount(session) - count >= 0
  BY <1>1, <1>2 DEF Synced, Restored, GridSize, HeaderSize, ScreenSize
(* A header of a screen. *)
<1>10. CASE IsHeader
  <2>1. pc' = "data" /\ len' = IntAt(got + 8, 4) /\ total' = 0 /\ count' = count
    BY <1>10 DEF ReadHeader
  <2>2. Got(16) = 16 /\ IntAt(got, 4) = MSG_GRID_SAVE
    BY <1>10 DEF IsHeader, HeaderSize
  <2>3. got + 16 <= Length(session) /\ GridCountAt(session) <= got /\ got' = got + 16
    BY <1>2, <1>3, <1>4, <1>6, <2>2
  <2>4. PICK j \in 1 .. GridCount(session) : got = GridsAt(session) + 24 * (j - 1)
    BY <1>3, <1>5, <2>2, <2>3, HeaderMatch
  <2>5. len' = 8
    BY <1>3, <2>1, <2>4, ScreenWords DEF ScreenSize
  <2>6. TypeOK'
    BY <1>1, <1>2, <1>7, <2>1, <2>5 DEF TypeOK
  <2>7. AtScreen(j)'
    <3>1. got' = GridsAt(session) + 24 * (j - 1) + 16 + 0
      BY <1>3, <2>3, <2>4
    <3>2. QED
      BY <1>2, <2>1, <2>5, <3>1 DEF AtScreen, GridSize, HeaderSize, ScreenSize
  <2>8. Stage'
    BY <1>2, <1>4, <1>5, <1>7, <2>1, <2>7 DEF Stage, Attached
  <2>9. Synced'
    <3>1. SUFFICES ASSUME AllOpen
                   PROVE  Synced'
      BY <1>2 DEF Synced, AllOpen
    <3>2. Restored' = Restored /\ Restored = GridCount(session) - count /\ Restored >= 0
      BY <1>1, <1>2, <2>1, <3>1 DEF Synced, Restored
    <3>3. AtScreen(Restored + 1)'
      <4>1. Restored + 1 = j /\ Restored' + 1 = j
        BY <1>3, <1>9, <2>4, <3>1, <3>2
      <4>2. QED
        BY <2>7, <4>1
    <3>4. QED
      BY <1>1, <1>2, <2>1, <3>1, <3>2, <3>3 DEF Synced
  <2>10. QED
    BY <1>8, <2>6, <2>8, <2>9 DEF IInv
(* Something else, which is not there to read without a closed master. *)
<1>11. CASE ~IsHeader
  <2>1. /\ count' = count - 1 /\ pc' = IF count = 1 THEN "loop" ELSE "header"
        /\ UNCHANGED <<len, total>>
    BY <1>11 DEF ReadHeader, NextGrid
  <2>2. count' \in Nat /\ pc' \in {"loop", "header"} /\ (pc' = "header" => count' >= 1)
    BY <1>3, <1>4, <2>1
  <2>3. TypeOK'
    BY <1>1, <1>2, <1>7, <2>1, <2>2 DEF TypeOK
  <2>4. Stage'
    BY <1>2, <1>5, <1>7, <2>2 DEF Stage, Attached
  <2>5. ~AllOpen
    <3>1. SUFFICES ASSUME AllOpen
                   PROVE  FALSE
      OBVIOUS
    <3>2. PICK j \in 1 .. GridCount(session) : got = GridsAt(session) + 24 * (j - 1)
      <4>1. GridCount(session) - count + 1 \in 1 .. GridCount(session)
        BY <1>3, <1>4, <1>9, <3>1
      <4>2. got = GridsAt(session) + 24 * ((GridCount(session) - count + 1) - 1)
        BY <1>3, <1>9, <3>1
      <4>3. QED
        BY <4>1, <4>2
    <3>3. IntAt(got, 4) = MSG_GRID_SAVE
      BY <1>3, <3>2, ScreenWords
    <3>4. got + 16 <= written
      <4>1. SUFFICES ASSUME written < got + 16
                     PROVE  FALSE
        BY <1>3
      <4>2. j \in Nat
        BY <1>3
      <4>3. PICK r \in 1 .. 15 : written = got + r
        <5>1. written - got \in 1 .. 15 /\ written = got + (written - got)
          BY <1>2, <1>3, <4>1
        <5>2. QED
          BY <5>1
      <4>4. r \in 0 .. 23 /\ written = GridsAt(session) + 24 * (j - 1) + r
        BY <1>3, <3>2, <4>2, <4>3
      <4>5. GridOffset(session, written) = r
        BY <1>3, <4>4, GridBytes
      <4>6. written >= GridsAt(session)
        BY <1>3, <4>2, <4>4
      <4>7. r = 0 \/ r >= 16
        BY <1>1, <4>5, <4>6 DEF Whole, InScreen, HeaderSize
      <4>8. QED
        BY <4>3, <4>7
    <3>5. Got(16) = 16
      BY <1>1, <1>2, <3>4, GotBytes
    <3>6. QED
      BY <1>11, <3>3, <3>5 DEF IsHeader, HeaderSize
  <2>6. Synced'
    BY <1>2, <2>5 DEF Synced, AllOpen
  <2>7. QED
    BY <1>8, <2>3, <2>4, <2>6 DEF IInv
<1>12. QED
  BY <1>10, <1>11

LEMMA ReadDataKeeps ==
  ASSUME IInv, ReadData
  PROVE  IInv'
<1>1. TypeOK /\ Whole /\ Stage /\ Synced
  BY DEF IInv
<1>2. /\ pc = "data" /\ written > got /\ got' = got + Got(len - total)
      /\ total' = total + Got(len - total)
      /\ UNCHANGED <<session, written, len, panes>>
  BY DEF ReadData, Take
<1>3. /\ session \in Sessions /\ count \in Nat /\ total \in Nat
      /\ written \in Nat /\ got \in Nat /\ written <= Length(session)
      /\ PaneCount(session) \in 1 .. 127 /\ GridCount(session) \in 0 .. 127
      /\ GridsAt(session) \in Nat /\ Length(session) \in Nat
  BY <1>1, Numbers
<1>4. PICK j \in 1 .. GridCount(session) : AtScreen(j)
  BY <1>1, <1>2 DEF Stage
<1>5. /\ got = GridsAt(session) + 24 * (j - 1) + 16 + total /\ len = 8 /\ total < 8
  BY <1>4 DEF AtScreen, GridSize, HeaderSize, ScreenSize
<1>6. count >= 1 /\ got >= 4 + PaneCount(session)
  BY <1>1, <1>2 DEF Stage, Attached
<1>7. panes = session.open /\ session.granted
  BY <1>1, <1>2 DEF Stage, Attached
<1>8. Got(8 - total) \in 1 .. 8 - total /\ got + Got(8 - total) <= written
  <2>1. 8 - total \in 1 .. 16
    BY <1>3, <1>5
  <2>2. QED
    BY <1>1, <1>2, <2>1, GotBytes
<1>9. /\ got' = got + Got(8 - total) /\ total' = total + Got(8 - total) /\ len' = 8
  BY <1>2, <1>5
<1>10. /\ got' \in 0 .. written /\ got' >= 4 + PaneCount(session)
       /\ total' \in Nat /\ total' <= 8
       /\ got' = GridsAt(session) + 24 * (j - 1) + 16 + total'
  <2>1. j \in Nat
    BY <1>3
  <2>2. QED
    BY <1>3, <1>5, <1>6, <1>8, <1>9, <2>1
<1>11. Whole'
  BY <1>1, <1>2 DEF Whole
<1>12. AllOpen => j = Restored + 1 /\ Restored = GridCount(session) - count
  <2>1. SUFFICES ASSUME AllOpen
                 PROVE  j = Restored + 1 /\ Restored = GridCount(session) - count
    OBVIOUS
  <2>2. Restored = GridCount(session) - count
    BY <1>2 DEF Restored
  <2>3. got = GridsAt(session) + 24 * ((Restored + 1) - 1) + 16 + total
    BY <1>1, <1>2, <2>1 DEF Synced, AtScreen, GridSize, HeaderSize, ScreenSize
  <2>4. j \in Nat /\ Restored \in Int
    BY <1>3, <2>2
  <2>5. j = Restored + 1
    BY <1>3, <1>5, <2>3, <2>4
  <2>6. QED
    BY <2>2, <2>5
(* A part of the screen. *)
<1>13. CASE total' < len
  <2>1. UNCHANGED <<pc, count, screen>>
    <3>1. ~(total' = len)
      BY <1>5, <1>10, <1>13
    <3>2. QED
      BY <3>1 DEF ReadData
  <2>2. TypeOK'
    BY <1>1, <1>2, <1>10, <2>1 DEF TypeOK
  <2>3. AtScreen(j)'
    BY <1>2, <1>5, <1>10, <1>13 DEF AtScreen, GridSize, HeaderSize, ScreenSize
  <2>4. Stage'
    BY <1>2, <1>6, <1>7, <1>10, <2>1, <2>3 DEF Stage, Attached
  <2>5. Synced'
    <3>1. SUFFICES ASSUME AllOpen
                   PROVE  Synced'
      BY <1>2 DEF Synced, AllOpen
    <3>2. Restored' = Restored
      BY <1>2, <2>1 DEF Restored
    <3>3. AtScreen(Restored + 1)'
      BY <1>12, <2>3, <3>1, <3>2
    <3>4. QED
      BY <1>1, <1>2, <2>1, <3>1, <3>2, <3>3 DEF Synced
  <2>6. QED
    BY <1>11, <2>2, <2>4, <2>5 DEF IInv
(* The rest of it. *)
<1>14. CASE total' = len
  <2>1. /\ Deserialize(got - total)
        /\ count' = count - 1 /\ pc' = IF count = 1 THEN "loop" ELSE "header"
    <3>1. ~(total' < len)
      BY <1>5, <1>10, <1>14
    <3>2. QED
      BY <3>1 DEF ReadData, NextGrid
  <2>2. count' \in Nat /\ pc' \in {"loop", "header"} /\ (pc' = "header" => count' >= 1)
    BY <1>3, <1>6, <2>1
  <2>3. Saved(session, j) \in 0 .. MaxPanes - 1
    BY <1>3, SessionType
  <2>4. screen' = [k \in DOMAIN screen |->
                     IF k - 1 = Saved(session, j) THEN Saved(session, j) ELSE screen[k]]
    <3> DEFINE i == GridsAt(session) + 24 * (j - 1)
    <3>1. i \in Nat /\ got - total = i + 16 /\ got - total + 4 = i + 20
      <4>1. j \in Nat /\ j >= 1
        BY <1>3
      <4>2. QED
        BY <1>3, <1>5, <4>1
    <3>2. i = GridsAt(session) + 24 * (j - 1)
      OBVIOUS
    <3> HIDE DEF i
    <3>3. IntAt(i + 16, 4) = Saved(session, j) /\ IntAt(i + 20, 4) = Saved(session, j)
      BY <1>3, <3>1, <3>2, ScreenWords
    <3>4. IntAt(got - total, 4) = Saved(session, j) /\ IntAt(got - total + 4, 4) = Saved(session, j)
      BY <3>1, <3>3
    <3>5. QED
      BY <2>1, <3>4 DEF Deserialize
  <2>5. /\ screen' \in Seq(-1 .. MaxPanes - 1) /\ Len(screen') = Len(screen)
        /\ \A k \in 1 .. Len(screen) :
             screen'[k] = IF k - 1 = Saved(session, j) THEN Saved(session, j) ELSE screen[k]
    <3> DEFINE S == -1 .. MaxPanes - 1
    <3>1. screen \in Seq(S) /\ Saved(session, j) \in S
      BY <1>1, <2>3, MaxPanesAssumption DEF TypeOK
    <3> HIDE DEF S
    <3>2. DOMAIN screen = 1 .. Len(screen) /\ Len(screen) \in Nat
          /\ \A k \in 1 .. Len(screen) : screen[k] \in S
      BY <3>1
    <3>3. screen' \in [1 .. Len(screen) -> S]
      BY <2>4, <3>1, <3>2
    <3>4. screen' \in Seq(S) /\ Len(screen') = Len(screen)
      BY <3>2, <3>3
    <3>5. QED
      BY <2>4, <3>2, <3>4 DEF S
  <2>6. TypeOK'
    BY <1>1, <1>2, <1>10, <2>2, <2>5 DEF TypeOK
  <2>7. Stage'
    BY <1>2, <1>7, <1>10, <2>2 DEF Stage, Attached
  <2>8. Synced'
    <3>1. SUFFICES ASSUME AllOpen
                   PROVE  Synced'
      BY <1>2 DEF Synced, AllOpen
    <3>2. Restored' = Restored + 1 /\ Restored = GridCount(session) - count /\ Restored' = j
      <4>1. pc' = "header" => Restored' = GridCount(session) - (count - 1)
        BY <1>2, <2>1 DEF Restored
      <4>2. pc' = "loop" => Restored' = GridCount(session) /\ count = 1
        BY <1>2, <2>1 DEF Restored
      <4>3. QED
        BY <1>3, <1>12, <2>2, <3>1, <4>1, <4>2
    <3>3. /\ got' = GridsAt(session) + 24 * Restored'
          /\ Restored' >= 0
          /\ pc' = "loop" => got' = Length(session)
      <4>1. j \in Nat /\ j >= 1
        BY <1>3
      <4>2. got' = GridsAt(session) + 24 * Restored'
        BY <1>3, <1>5, <1>10, <1>14, <3>2, <4>1
      <4>3. pc' = "loop" => Restored' = GridCount(session)
        BY <1>2, <2>1 DEF Restored
      <4>4. Length(session) = GridsAt(session) + 24 * GridCount(session)
        BY <1>3, <1>7, Places
      <4>5. QED
        BY <3>2, <4>1, <4>2, <4>3, <4>4
    <3>4. \A k \in 1 .. Len(screen) :
            screen[k] = IF \E q \in 1 .. Restored : Saved(session, q) = k - 1 THEN k - 1 ELSE -1
      BY <1>1, <3>1 DEF Synced
    <3>5. \A k \in 1 .. Len(screen') :
            screen'[k] = IF \E q \in 1 .. Restored' : Saved(session, q) = k - 1 THEN k - 1 ELSE -1
      <4>1. ASSUME NEW k
            PROVE  (\E q \in 1 .. Restored' : Saved(session, q) = k - 1)
                     <=> (\E q \in 1 .. Restored : Saved(session, q) = k - 1) \/ Saved(session, j) = k - 1
        <5>1. 1 .. Restored' = (1 .. Restored) \cup {j}
          BY <1>3, <3>2
        <5>2. QED
          BY <5>1
      <4>2. QED
        BY <2>5, <3>4, <4>1
    <3>6. QED
      BY <1>2, <2>2, <3>3, <3>5 DEF Synced, GridSize, HeaderSize, ScreenSize
  <2>9. QED
    BY <1>11, <2>6, <2>7, <2>8 DEF IInv
<1>15. QED
  BY <1>5, <1>10, <1>13, <1>14

-----------------------------------------------------------------------------
(* Theorems. *)

(* The invariant: wherever the writes and reads were cut, the client reads *)
(* the masters where they are (server.c:293-338, client.c:583-683).        *)
THEOREM Invariance == Spec => []IInv
<1>1. Init => IInv
  BY InitKeeps
<1>2. IInv /\ [Next]_vars => IInv'
  <2>1. SUFFICES ASSUME IInv, [Next]_vars
                 PROVE  IInv'
    OBVIOUS
  <2>2. CASE ServerWrites
    BY <2>1, <2>2, WritesKeep
  <2>3. CASE ReadPaneCount
    BY <2>1, <2>3, ReadPaneCountKeeps
  <2>4. CASE RecvFd
    BY <2>1, <2>4, RecvFdKeeps
  <2>5. CASE ReadGridCount
    BY <2>1, <2>5, ReadGridCountKeeps
  <2>6. CASE ReadHeader
    BY <2>1, <2>6, ReadHeaderKeeps
  <2>7. CASE ReadData
    BY <2>1, <2>7, ReadDataKeeps
  <2>8. CASE LoopRead
    BY <2>1, <2>8, LoopReadKeeps
  <2>9. CASE UNCHANGED vars
    <3>1. TypeOK'
      BY <2>1, <2>9 DEF IInv, TypeOK, vars
    <3>2. Whole'
      BY <2>1, <2>9 DEF IInv, Whole, vars
    <3>3. Stage'
      BY <2>1, <2>9 DEF IInv, Stage, Attached, AtScreen, vars
    <3>4. Synced'
      BY <2>1, <2>9 DEF IInv, Synced, AllOpen, Restored, AtScreen, vars
    <3>5. QED
      BY <3>1, <3>2, <3>3, <3>4 DEF IInv
  <2>10. QED
    BY <2>1, <2>2, <2>3, <2>4, <2>5, <2>6, <2>7, <2>8, <2>9 DEF Next, Client
<1>3. QED
  BY <1>1, <1>2, PTL DEF Spec

(* No byte is read before it was written and every pane the client makes   *)
(* is one of the session's (client.c:583-683).                             *)
THEOREM TypeCorrect == Spec => []TypeOK
<1>1. IInv => TypeOK
  BY DEF IInv
<1>2. QED
  BY <1>1, Invariance, PTL

(* Every shell of the session gets across, in order and once, also if its  *)
(* neighbours' masters are closed (server.c:296-298, client.c:607-626).    *)
THEOREM ShellsGetAcross == Spec => []NoShellLeftBehind
<1>1. IInv => NoShellLeftBehind
  BY DEF IInv, Stage, NoShellLeftBehind
<1>2. QED
  BY <1>1, Invariance, PTL

(* Without a closed master the two sides agree on every byte, and every    *)
(* screen is back in its pane when the attach is over (server.c:293-328,   *)
(* client.c:583-683).                                                      *)
THEOREM SidesStayInStep == Spec => []InStep
<1>1. ASSUME IInv, AllOpen
      PROVE  /\ \A k \in 1 .. Len(panes) : panes[k] = k - 1
             /\ \A k \in 1 .. Len(screen) : screen[k] \in {-1, k - 1}
             /\ pc \notin {"loop", "refused"} => got < Length(session)
             /\ pc = "loop" =>
                  /\ got = Length(session)
                  /\ \A k \in 1 .. Len(screen) :
                       screen[k] = k - 1 <=> \E j \in 1 .. Len(session.saved) : session.saved[j] = k - 1
  <2>1. TypeOK /\ Whole /\ Stage /\ Synced
    BY <1>1 DEF IInv
  <2>2. /\ session \in Sessions /\ count \in Nat /\ got \in Nat
        /\ PaneCount(session) \in 1 .. 127 /\ GridCount(session) \in 0 .. 127
        /\ Fds(session) \in 1 .. 127
        /\ GridCountAt(session) \in Nat /\ GridsAt(session) \in Nat /\ Length(session) \in Nat
        /\ GridCountAt(session) = 4 + Fds(session)
        /\ GridsAt(session) = 4 + GridCountAt(session)
        /\ session.granted => Length(session) = GridsAt(session) + 24 * GridCount(session)
        /\ ~session.granted => Length(session) = 4
    BY <2>1, Numbers
  <2>3. Fds(session) = PaneCount(session)
    BY <1>1, <2>2, AllOpenFds
  <2>4. \A k \in 1 .. Fds(session) : session.open[k] = k - 1
    BY <1>1, <2>3 DEF AllOpen, PaneCount
  <2>5. \A k \in 1 .. Len(panes) : panes[k] = k - 1
    <3>1. CASE pc \in {"pane_count", "refused"}
      BY <2>1, <3>1 DEF Stage
    <3>2. CASE pc = "fds"
      <4>1. got = 4 + PaneCount(session) - count /\ count \in 1 .. PaneCount(session)
        BY <2>1, <3>2 DEF Stage
      <4>2. got - 4 <= Fds(session) /\ got < GridCountAt(session) /\ got - 4 \in Nat
        BY <2>2, <2>3, <4>1
      <4>3. Len(panes) = got - 4 /\ \A k \in 1 .. Len(panes) : panes[k] = session.open[k]
        BY <2>1, <3>2, <4>2 DEF Stage
      <4>4. 1 .. (got - 4) \subseteq 1 .. Fds(session)
        BY <2>2, <4>2
      <4>5. QED
        BY <2>4, <4>3, <4>4
    <3>3. CASE Attached
      BY <2>1, <2>4, <3>3 DEF Stage, Fds
    <3>4. QED
      BY <2>1, <3>1, <3>2, <3>3 DEF TypeOK, Attached
  <2>6. \A k \in 1 .. Len(screen) : screen[k] \in {-1, k - 1}
    BY <1>1, <2>1 DEF Synced
  <2>7. pc \notin {"loop", "refused"} => got < Length(session)
    <3>1. CASE pc = "pane_count"
      <4>1. got = 0
        BY <2>1, <3>1 DEF Stage
      <4>2. QED
        BY <2>2, <4>1
    <3>2. CASE pc = "fds"
      <4>1. got = 4 + PaneCount(session) - count /\ count \in 1 .. PaneCount(session)
        BY <2>1, <3>2 DEF Stage
      <4>2. session.granted
        BY <2>1, <3>2 DEF Stage
      <4>3. QED
        BY <2>2, <2>3, <4>1, <4>2
    <3>3. CASE pc = "grid_count"
      <4>1. got = GridCountAt(session) /\ session.granted
        BY <1>1, <2>1, <3>3 DEF Stage, Synced
      <4>2. QED
        BY <2>2, <4>1
    <3>4. CASE pc = "header"
      <4>1. got = GridsAt(session) + 24 * (GridCount(session) - count)
        BY <1>1, <2>1, <3>4 DEF Synced, Restored, GridSize, HeaderSize, ScreenSize
      <4>2. session.granted /\ count >= 1
        BY <2>1, <3>4 DEF Stage
      <4>3. QED
        BY <2>2, <4>1, <4>2
    <3>5. CASE pc = "data"
      <4>1. PICK j \in 1 .. GridCount(session) : AtScreen(j)
        BY <2>1, <3>5 DEF Stage
      <4>2. got = GridsAt(session) + 24 * (j - 1) + 16 + total /\ total < 8
        BY <4>1 DEF AtScreen, GridSize, HeaderSize, ScreenSize
      <4>3. session.granted /\ total \in Nat
        BY <2>1, <3>5 DEF Stage, TypeOK
      <4>4. j \in Nat /\ j <= GridCount(session)
        BY <2>2
      <4>5. QED
        BY <2>2, <4>2, <4>3, <4>4
    <3>6. QED
      BY <2>1, <3>1, <3>2, <3>3, <3>4, <3>5 DEF TypeOK
  <2>8. ASSUME pc = "loop"
        PROVE  /\ got = Length(session)
               /\ \A k \in 1 .. Len(screen) :
                    screen[k] = k - 1 <=> \E j \in 1 .. Len(session.saved) : session.saved[j] = k - 1
    <3>1. got = Length(session) /\ Restored = GridCount(session)
      BY <1>1, <2>1, <2>8 DEF Synced, Restored
    <3>2. \A k \in 1 .. Len(screen) :
            screen[k] = IF \E j \in 1 .. GridCount(session) : Saved(session, j) = k - 1 THEN k - 1 ELSE -1
      BY <1>1, <2>1, <3>1 DEF Synced
    <3>3. screen \in Seq(-1 .. MaxPanes - 1)
      BY <2>1 DEF TypeOK
    <3>4. ASSUME NEW k \in 1 .. Len(screen)
          PROVE  screen[k] = k - 1 <=> \E j \in 1 .. GridCount(session) : Saved(session, j) = k - 1
      <4>1. k - 1 # -1
        BY <3>3
      <4>2. QED
        BY <3>2, <4>1
    <3>5. QED
      BY <3>1, <3>4 DEF GridCount, Saved
  <2>9. QED
    BY <2>5, <2>6, <2>7, <2>8
<1>2. IInv => InStep
  BY <1>1 DEF InStep
<1>3. QED
  BY <1>2, Invariance, PTL
=============================================================================
