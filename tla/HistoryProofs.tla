--------------------------- MODULE HistoryProofs ----------------------------
(***************************************************************************)
(* For every width, height and ring size: the ring of a pane that keeps    *)
(* its width is a scrollback (History's Spec implements Scrollback's), its *)
(* accesses stay inside the allocation, and the pane shows the view.       *)
(*                                                                         *)
(* The ring is arithmetic modulo history_size laid over memory in rows of  *)
(* width cells, so the first two parts are about remainders and rows.      *)
(***************************************************************************)
EXTENDS History, SequenceTheorems, TLAPS

-----------------------------------------------------------------------------
(* Remainders. *)

(* A number below the modulus is its own remainder. *)
LEMMA ModSmall ==
  ASSUME NEW n \in Nat \ {0}, NEW a \in 0 .. (n - 1)
  PROVE  a % n = a
BY SMTT(20)

(* Once round: the remainder is what is past the modulus. *)
LEMMA ModOnce ==
  ASSUME NEW n \in Nat \ {0}, NEW a \in n .. (2 * n - 1)
  PROVE  a % n = a - n
BY SMTT(20)

(* The remainder of a sum of an index and at most one round. *)
LEMMA ModSum ==
  ASSUME NEW n \in Nat \ {0}, NEW d \in 0 .. (n - 1), NEW j \in 0 .. n
  PROVE  (d + j) % n = IF d + j < n THEN d + j ELSE d + j - n
BY SMTT(20)

(* A remainder is an index of the ring. *)
LEMMA ModRange ==
  ASSUME NEW n \in Nat \ {0}, NEW a \in Nat
  PROVE  a % n \in 0 .. (n - 1)
BY SMTT(20)

(* Quotient and remainder. *)
LEMMA DivMod ==
  ASSUME NEW n \in Nat \ {0}, NEW a \in Nat
  PROVE  \E q \in Nat, r \in 0 .. (n - 1) : a = n * q + r
<1>1. a \div n \in Nat /\ a % n \in 0 .. (n - 1) /\ a = n * (a \div n) + (a % n)
  BY SMTT(20)
<1>2. QED BY <1>1

(* Multiples of the modulus do not change the remainder. *)
LEMMA ModOf ==
  ASSUME NEW n \in Nat \ {0}, NEW q \in Nat, NEW r \in 0 .. (n - 1)
  PROVE  (n * q + r) % n = r
BY SMTT(20)

(* The row written next moves on by one, and from the last to the first. *)
LEMMA ModSucc ==
  ASSUME NEW n \in Nat \ {0}, NEW a \in Nat
  PROVE  (a + 1) % n = IF a % n = n - 1 THEN 0 ELSE (a % n) + 1
<1>1. PICK q \in Nat, r \in 0 .. (n - 1) : a = n * q + r
  BY DivMod
<1>2. a % n = r
  BY <1>1, ModOf
<1>3. CASE r = n - 1
  <2>1. a + 1 = n * (q + 1) + 0
    BY <1>1, <1>3
  <2>2. (n * (q + 1) + 0) % n = 0
    <3>1. q + 1 \in Nat /\ 0 \in 0 .. (n - 1) OBVIOUS
    <3>2. QED BY <3>1, ModOf
  <2>3. QED BY <1>2, <1>3, <2>1, <2>2
<1>4. CASE r # n - 1
  <2>1. a + 1 = n * q + (r + 1) /\ r + 1 \in 0 .. (n - 1)
    BY <1>1, <1>4
  <2>2. (n * q + (r + 1)) % n = r + 1
    BY <2>1, ModOf
  <2>3. QED BY <1>2, <1>4, <2>1, <2>2
<1>5. QED BY <1>3, <1>4

-----------------------------------------------------------------------------
(* Rows of a memory. *)

(* A row ends before the next one begins. *)
LEMMA RowsApart ==
  ASSUME NEW w \in Nat, NEW r \in Nat, NEW d \in Nat, r < d
  PROVE  r * w + w <= d * w
<1>1. r * w \in Nat /\ d * w \in Nat /\ (r + 1) * w = r * w + w
  BY SMTT(20)
<1>2. (r + 1) * w <= d * w
  BY SMTT(20)
<1>3. QED BY <1>1, <1>2

(* The cells of row r of a memory of n rows are inside the memory. *)
LEMMA CellInMemory ==
  ASSUME NEW w \in Nat \ {0}, NEW n \in Nat, NEW r \in 0 .. (n - 1), NEW x \in 1 .. w
  PROVE  /\ r * w \in Nat /\ n * w \in Nat
         /\ r * w + x - 1 \in 0 .. (n * w - 1)
<1>1. r * w \in Nat /\ n * w \in Nat
  BY SMTT(20)
<1>2. r * w + w <= n * w
  BY RowsApart
<1>3. QED BY <1>1, <1>2

(* A row of the ring is a row. *)
LEMMA RowAtType ==
  ASSUME NEW w \in Nat \ {0}, NEW mem \in Memory(w), NEW r \in 0 .. (history_size - 1)
  PROVE  RowAt(mem, w, r) \in Row(w)
<1>1. \A x \in 1 .. w : r * w + x - 1 \in 0 .. (history_size * w - 1)
  BY CellInMemory, SizeAssumption
<1>2. \A x \in 1 .. w : mem[r * w + x - 1] \in Cell
  BY <1>1 DEF Memory
<1>3. QED BY <1>2 DEF RowAt, Row

(* Writing row d changes that row and no other. *)
LEMMA RowWritten ==
  ASSUME NEW w \in Nat \ {0}, NEW mem \in Memory(w), NEW line \in Row(w),
         NEW d \in 0 .. (history_size - 1), NEW r \in 0 .. (history_size - 1)
  PROVE  LET written == [a \in DOMAIN mem |->
               IF a \in (d * w) .. (d * w + w - 1) THEN line[a - d * w + 1] ELSE mem[a]]
         IN  RowAt(written, w, r) = IF r = d THEN line ELSE RowAt(mem, w, r)
<1> DEFINE written == [a \in DOMAIN mem |->
      IF a \in (d * w) .. (d * w + w - 1) THEN line[a - d * w + 1] ELSE mem[a]]
<1>1. \A x \in 1 .. w : /\ r * w \in Nat /\ d * w \in Nat
                        /\ r * w + x - 1 \in 0 .. (history_size * w - 1)
  BY CellInMemory, SizeAssumption
<1>2. DOMAIN mem = 0 .. (history_size * w - 1) /\ DOMAIN line = 1 .. w
  BY DEF Memory, Row
<1>3. CASE r = d
  <2>1. \A x \in 1 .. w : written[r * w + x - 1] = line[x]
    <3>1. TAKE x \in 1 .. w
    <3>2. r * w + x - 1 \in (d * w) .. (d * w + w - 1)
      BY <1>1, <1>3
    <3>3. r * w + x - 1 - d * w + 1 = x
      BY <1>1, <1>3
    <3>4. QED BY SMTT(30), <1>1, <1>2, <3>2, <3>3
  <2>2. RowAt(written, w, r) = [x \in 1 .. w |-> line[x]]
    BY <2>1 DEF RowAt
  <2>3. line = [x \in 1 .. w |-> line[x]]
    BY DEF Row
  <2>4. QED BY <1>3, <2>2, <2>3
<1>4. CASE r # d
  <2>1. \A x \in 1 .. w : written[r * w + x - 1] = mem[r * w + x - 1]
    <3>1. TAKE x \in 1 .. w
    <3>2. r * w + w <= d * w \/ d * w + w <= r * w
      BY <1>4, RowsApart, SizeAssumption
    <3>3. r * w + x - 1 \notin (d * w) .. (d * w + w - 1)
      BY <1>1, <3>2
    <3>4. QED BY <1>1, <1>2, <3>3
  <2>2. QED BY <1>4, <2>1 DEF RowAt
<1>5. QED BY <1>3, <1>4

-----------------------------------------------------------------------------
(* The order of the ring. *)

(* Where a kept row lies is a row of the ring. *)
LEMMA RingRowType ==
  ASSUME NEW c \in Nat, NEW k \in 0 .. (Stored(c) - 1)
  PROVE  RingRow(c, k) \in 0 .. (history_size - 1)
<1>1. c % history_size \in 0 .. (history_size - 1)
  BY ModRange, SizeAssumption
<1>2. (c % history_size) + k \in Nat
  BY <1>1, SizeAssumption DEF Stored
<1>3. ((c % history_size) + k) % history_size \in 0 .. (history_size - 1)
  BY <1>2, ModRange, SizeAssumption
<1>4. k \in 0 .. (history_size - 1) /\ k \in Nat
  BY SizeAssumption DEF Stored
<1>5. QED BY <1>3, <1>4 DEF RingRow

(* A full ring is read from the row that will be written next. *)
LEMMA FullRing ==
  ASSUME NEW c \in Nat, c >= history_size, NEW k \in 0 .. (history_size - 1)
  PROVE  RingRow(c, k) = ((c % history_size) + k) % history_size
<1>1. CASE c > history_size
  BY <1>1, SizeAssumption DEF RingRow
<1>2. CASE c = history_size
  <2>1. c % history_size = 0
    <3>1. history_size \in history_size .. (2 * history_size - 1)
      BY SizeAssumption
    <3>2. history_size % history_size = history_size - history_size
      BY <3>1, ModOnce, SizeAssumption
    <3>3. QED BY <1>2, <3>2, SizeAssumption
  <2>2. k % history_size = k
    BY ModSmall, SizeAssumption
  <2>3. QED BY <1>2, <2>1, <2>2, SizeAssumption DEF RingRow
<1>3. QED BY <1>1, <1>2, SizeAssumption

(* After a push the row just written is the last, and the others have      *)
(* moved up by one place if the ring was full, by none if it was not.      *)
LEMMA RingStep ==
  ASSUME NEW c \in Nat, NEW k \in 0 .. (Stored(c + 1) - 1),
         NEW d, d = c % history_size
  PROVE  /\ k = Stored(c + 1) - 1 => RingRow(c + 1, k) = d
         /\ k < Stored(c + 1) - 1 =>
              /\ RingRow(c + 1, k) # d
              /\ RingRow(c + 1, k) = RingRow(c, IF c < history_size THEN k ELSE k + 1)
<1>1. history_size \in Nat \ {0}
  BY SizeAssumption
<1>2. d \in 0 .. (history_size - 1)
  BY <1>1, ModRange
<1>3. CASE c < history_size
  <2>1. Stored(c + 1) = c + 1
    BY <1>1, <1>3 DEF Stored
  <2>2. d = c
    BY <1>1, <1>3, ModSmall
  <2>3. RingRow(c + 1, k) = k /\ RingRow(c, k) = k
    BY <1>1, <1>3, <2>1 DEF RingRow
  <2>4. QED BY <1>3, <2>1, <2>2, <2>3
<1>4. CASE c >= history_size
  <2>1. Stored(c + 1) = history_size
    BY <1>1, <1>4 DEF Stored
  <2>2. RingRow(c + 1, k) = (((c + 1) % history_size) + k) % history_size
    <3>1. c + 1 \in Nat /\ c + 1 >= history_size /\ k \in 0 .. (history_size - 1)
      BY <1>1, <1>4, <2>1
    <3>2. QED BY <3>1, FullRing
  <2>3. k < history_size - 1 => RingRow(c, k + 1) = (d + (k + 1)) % history_size
    <3>1. HAVE k < history_size - 1
    <3>2. k + 1 \in 0 .. (history_size - 1)
      BY <1>1, <2>1, <3>1
    <3>3. QED BY <1>4, <3>2, FullRing
  <2>4. (c + 1) % history_size = IF d = history_size - 1 THEN 0 ELSE d + 1
    BY <1>1, ModSucc
  <2>5. CASE d = history_size - 1
    <3>1. RingRow(c + 1, k) = k
      <4>1. k \in 0 .. (history_size - 1) /\ 0 + k = k
        BY <2>1
      <4>2. k % history_size = k
        BY <1>1, <4>1, ModSmall
      <4>3. QED BY <2>2, <2>4, <2>5, <4>1, <4>2
    <3>2. k < history_size - 1 => (d + (k + 1)) % history_size = k
      <4>1. k + 1 \in 0 .. history_size
        BY <1>1, <2>1
      <4>2. (d + (k + 1)) % history_size = IF d + (k + 1) < history_size THEN d + (k + 1)
                                           ELSE d + (k + 1) - history_size
        BY <1>1, <1>2, <4>1, ModSum
      <4>3. QED BY <1>1, <2>1, <2>5, <4>2
    <3>3. QED BY <1>1, <1>4, <2>1, <2>3, <2>5, <3>1, <3>2
  <2>6. CASE d # history_size - 1
    <3>1. RingRow(c + 1, k) = (d + (k + 1)) % history_size
      <4>1. (d + 1) + k = d + (k + 1)
        BY <1>2, <2>1
      <4>2. QED BY <2>2, <2>4, <2>6, <4>1
    <3>2. (d + (k + 1)) % history_size = IF d + (k + 1) < history_size THEN d + (k + 1)
                                         ELSE d + (k + 1) - history_size
      <4>1. k + 1 \in 0 .. history_size
        BY <1>1, <2>1
      <4>2. QED BY <1>1, <1>2, <4>1, ModSum
    <3>3. k = history_size - 1 => RingRow(c + 1, k) = d
      BY <1>1, <1>2, <2>1, <3>1, <3>2
    <3>4. k < history_size - 1 => RingRow(c + 1, k) # d
      BY <1>1, <1>2, <2>1, <3>1, <3>2
    <3>5. QED BY <1>1, <1>4, <2>1, <2>3, <3>1, <3>3, <3>4
  <2>7. QED BY <2>5, <2>6
<1>5. QED BY <1>1, <1>3, <1>4

-----------------------------------------------------------------------------
(* Type correctness. *)

(* A row of blanks is a row; a cleared memory is a memory. *)
LEMMA InitType == Init => TypeOK
<1> SUFFICES ASSUME Init PROVE TypeOK
  OBVIOUS
<1>1. width \in Nat \ {0} /\ width = Width
  BY SizeAssumption DEF Init
<1>2. cells \in [1 .. Height -> Row(width)]
  BY CellAssumption, <1>1 DEF Init, Row
<1>3. history_cells \in Memory(width)
  BY CellAssumption, <1>1 DEF Init, Memory, Cleared
<1>4. history_count \in 0 .. (UintMod - 1) /\ scroll_offset \in 0 .. Stored(history_count)
  BY SizeAssumption, CountAssumption DEF Init, Stored
<1>5. QED BY <1>1, <1>2, <1>3, <1>4 DEF TypeOK

(* The count does not wrap within the bound. *)
LEMMA CountStep ==
  ASSUME TypeOK, history_count < MaxCount
  PROVE  /\ (history_count + 1) % UintMod = history_count + 1
         /\ history_count + 1 \in 0 .. (UintMod - 1)
<1>1. UintMod \in Nat \ {0} /\ history_count + 1 \in 0 .. (UintMod - 1)
  BY CountAssumption DEF TypeOK
<1>2. QED BY <1>1, ModSmall

(* A push keeps the types. *)
LEMMA PushType ==
  ASSUME TypeOK, NEW row \in Row(width), PushLine(row)
  PROVE  TypeOK'
<1>1. history_count' = history_count + 1 /\ history_count' \in 0 .. (UintMod - 1)
  BY CountStep DEF PushLine
<1>2. width' = width /\ scroll_offset' = scroll_offset
  BY DEF PushLine
<1>3. scroll_offset' \in 0 .. Stored(history_count)'
  BY <1>1, <1>2, SizeAssumption DEF TypeOK, Stored
<1>4. cells' \in [1 .. Height -> Row(width)]
  BY SizeAssumption DEF TypeOK, PushLine
<1>5. history_cells' \in Memory(width)
  <2> DEFINE dst == (history_count % history_size) * width
  <2>1. dst \in Nat
    <3>1. history_count % history_size \in 0 .. (history_size - 1)
      <4>1. history_count \in Nat /\ history_size \in Nat \ {0}
        BY SizeAssumption, CountAssumption DEF TypeOK
      <4>2. QED BY <4>1, ModRange
    <3>2. 1 \in 1 .. width /\ history_size \in Nat /\ width \in Nat \ {0}
      BY SizeAssumption DEF TypeOK
    <3>3. QED BY <3>1, <3>2, CellInMemory
  <2>2. cells[1] \in Row(width)
    BY SizeAssumption DEF TypeOK
  <2> HIDE DEF dst
  <2>3. \A a \in DOMAIN history_cells :
          a \in dst .. (dst + width - 1) => cells[1][a - dst + 1] \in Cell
    <3>1. TAKE a \in DOMAIN history_cells
    <3>2. HAVE a \in dst .. (dst + width - 1)
    <3>3. a - dst + 1 \in 1 .. width
      BY <2>1, <3>2 DEF TypeOK
    <3>4. QED BY <2>2, <3>3 DEF Row
  <2>4. history_cells' = [a \in DOMAIN history_cells |->
          IF a \in dst .. (dst + width - 1) THEN cells[1][a - dst + 1] ELSE history_cells[a]]
    BY DEF PushLine, dst
  <2>5. QED BY <2>3, <2>4 DEF TypeOK, Memory
<1>6. QED BY <1>1, <1>2, <1>3, <1>4, <1>5 DEF TypeOK

(* The rows of the serialised history, and where their cells come from:    *)
(* row k of it is the k-th oldest.                                         *)
LEMMA SavedRow ==
  ASSUME TypeOK, NEW k \in 0 .. (Stored(history_count) - 1), NEW x \in 1 .. width
  PROVE  SavedCell(k * width + x - 1)
           = history_cells[RingRow(history_count, k) * width + x - 1]
<1> DEFINE oldest == history_count % history_size
           tail == history_size - oldest
<1>1. history_size \in Nat \ {0} /\ width \in Nat \ {0} /\ history_count \in Nat
  BY SizeAssumption DEF TypeOK
<1>2. CASE history_count <= history_size
  BY <1>1, <1>2 DEF SavedCell, RingRow
<1>3. CASE history_count > history_size
  <2>1. k \in 0 .. (history_size - 1) /\ Stored(history_count) = history_size
    BY <1>1, <1>3 DEF Stored
  <2>2. oldest \in 0 .. (history_size - 1)
    BY <1>1, ModRange
  <2>3. RingRow(history_count, k) = (oldest + k) % history_size
    BY <1>1, <1>3 DEF RingRow
  <2>4. (oldest + k) % history_size = IF oldest + k < history_size THEN oldest + k
                                      ELSE oldest + k - history_size
    <3> HIDE DEF oldest
    <3>1. k \in 0 .. history_size
      BY <1>1, <2>1
    <3>2. QED BY <1>1, <2>2, <3>1, ModSum
  <2>5. SavedCell(k * width + x - 1) =
          IF k * width + x - 1 < tail * width THEN history_cells[oldest * width + (k * width + x - 1)]
          ELSE history_cells[(k * width + x - 1) - tail * width]
    BY <1>1, <1>3 DEF SavedCell
  <2> HIDE DEF oldest
  <2>6. CASE k < tail
    <3>1. k * width + width <= tail * width
      BY <1>1, <2>1, <2>2, <2>6, RowsApart
    <3>2. k * width \in Nat /\ tail * width \in Nat /\ oldest * width \in Nat
          /\ (oldest + k) * width = oldest * width + k * width
      BY <1>1, <2>1, <2>2, SMTT(20)
    <3>3. k * width + x - 1 < tail * width
      BY <1>1, <3>1, <3>2
    <3>4. oldest * width + (k * width + x - 1) = (oldest + k) * width + x - 1
      BY <1>1, <3>2
    <3>5. RingRow(history_count, k) = oldest + k
      BY <1>1, <2>1, <2>2, <2>3, <2>4, <2>6
    <3>6. QED BY <2>5, <3>3, <3>4, <3>5
  <2>7. CASE k >= tail
    <3>1. PICK j \in Nat : k = tail + j
      <4>1. k - tail \in Nat /\ k = tail + (k - tail)
        BY <1>1, <2>1, <2>2, <2>7
      <4>2. QED BY <4>1
    <3>2. j * width \in Nat /\ tail * width \in Nat /\ k * width = tail * width + j * width
      BY <1>1, <2>1, <2>2, <3>1, SMTT(20)
    <3>3. ~(k * width + x - 1 < tail * width)
      BY <1>1, <3>2
    <3>4. (k * width + x - 1) - tail * width = j * width + x - 1
      BY <1>1, <3>2
    <3>5. RingRow(history_count, k) = j
      BY <1>1, <2>1, <2>2, <2>3, <2>4, <2>7, <3>1
    <3>6. QED BY <2>5, <3>3, <3>4, <3>5
  <2>8. QED BY <1>1, <2>1, <2>2, <2>6, <2>7
<1>4. QED BY <1>1, <1>2, <1>3

(* The cells the restored grid takes from the serialised history are those *)
(* of the rows stored, so each one is some row's.                          *)
LEMMA RowOfCell ==
  ASSUME NEW w \in Nat \ {0}, NEW n \in Nat, NEW a \in Nat, a < n * w
  PROVE  \E k \in 0 .. (n - 1), x \in 1 .. w : a = k * w + x - 1
<1>1. PICK q \in Nat, r \in 0 .. (w - 1) : a = w * q + r
  BY DivMod
<1>2. w * q = q * w /\ q * w \in Nat /\ n * w \in Nat
  BY SMTT(20)
<1>3. q < n
  <2>1. SUFFICES ASSUME q >= n PROVE FALSE
    OBVIOUS
  <2>2. q * w >= n * w
    <3>1. CASE q = n
      BY <1>2, <3>1
    <3>2. CASE n < q
      BY <1>2, <3>2, RowsApart
    <3>3. QED BY <2>1, <3>1, <3>2
  <2>3. QED BY <1>1, <1>2, <2>2
<1>4. q \in 0 .. (n - 1) /\ r + 1 \in 1 .. w /\ a = q * w + (r + 1) - 1
  BY <1>1, <1>2, <1>3
<1>5. QED BY <1>4

(* Detach and attach give a ring of the same size. *)
LEMMA SaveType ==
  ASSUME TypeOK, SaveAndRestore
  PROVE  TypeOK'
<1> DEFINE n == Stored(history_count)
<1>1. /\ history_size \in Nat \ {0} /\ width \in Nat \ {0} /\ history_count \in Nat
      /\ n \in Nat /\ n <= history_size /\ n <= history_count
  BY SizeAssumption DEF TypeOK, Stored
<1>2. width' = width /\ cells' = cells /\ scroll_offset' = scroll_offset /\ history_count' = n
  BY DEF SaveAndRestore
<1>3. history_count' \in 0 .. (UintMod - 1) /\ Stored(history_count)' = n
  <2>1. n \in 0 .. (UintMod - 1) /\ Stored(n) = n
    BY <1>1, CountAssumption DEF TypeOK, Stored
  <2>2. QED BY <1>2, <2>1
<1>4. \A a \in 0 .. (history_size * width - 1) : a < n * width => SavedCell(a) \in Cell
  <2>1. TAKE a \in 0 .. (history_size * width - 1)
  <2>2. HAVE a < n * width
  <2>3. PICK k \in 0 .. (n - 1), x \in 1 .. width : a = k * width + x - 1
    <3>1. history_size * width \in Nat
      BY <1>1, SMTT(20)
    <3>2. a \in Nat
      BY <3>1
    <3>3. QED BY <1>1, <2>2, <3>2, RowOfCell
  <2>4. SavedCell(a) = history_cells[RingRow(history_count, k) * width + x - 1]
    BY <2>3, SavedRow
  <2>5. RingRow(history_count, k) \in 0 .. (history_size - 1)
    BY <1>1, RingRowType
  <2>6. RingRow(history_count, k) * width + x - 1 \in 0 .. (history_size * width - 1)
    BY <1>1, <2>5, CellInMemory
  <2>7. QED BY <2>4, <2>6 DEF TypeOK, Memory
<1>5. history_cells' \in Memory(width)
  BY <1>4, CellAssumption DEF SaveAndRestore, Memory
<1>6. QED BY <1>2, <1>3, <1>5 DEF TypeOK

(* Every step keeps the types and the width. *)
LEMMA NextType ==
  ASSUME TypeOK, [Next]_vars
  PROVE  TypeOK' /\ width' = width
<1>1. CASE \E row \in Row(width) : PushLine(row)
  BY <1>1, PushType DEF PushLine
<1>2. CASE \E y \in 1 .. Height, row \in Row(width) : PaneInput(y, row)
  BY <1>2 DEF PaneInput, TypeOK
<1>3. CASE ScrollUp
  BY <1>3, SizeAssumption DEF ScrollUp, TypeOK, Stored
<1>4. CASE ScrollDown
  BY <1>4, SizeAssumption DEF ScrollDown, TypeOK, Stored
<1>5. CASE LeaveHistory
  BY <1>5, SizeAssumption DEF LeaveHistory, TypeOK, Stored
<1>6. CASE SaveAndRestore
  BY <1>6, SaveType DEF SaveAndRestore
<1>7. CASE UNCHANGED vars
  BY <1>7 DEF vars, TypeOK, Stored, Row, Memory
<1>8. QED BY <1>1, <1>2, <1>3, <1>4, <1>5, <1>6, <1>7 DEF Next

(* A pane that keeps its width: every access to the ring is inside its     *)
(* allocation and the view is never above the oldest line kept.            *)
THEOREM TypeCorrect == Spec => []TypeOK
<1>1. Init => TypeOK
  BY InitType
<1>2. TypeOK /\ [Next]_vars => TypeOK'
  BY NextType
<1>3. QED BY <1>1, <1>2, PTL DEF Spec

-----------------------------------------------------------------------------
(* The ring as a list of lines. *)

(* Facts about the types in the form the proofs below use them. *)
LEMMA Sizes ==
  ASSUME TypeOK
  PROVE  /\ history_size \in Nat \ {0} /\ Height \in Nat \ {0} /\ width \in Nat \ {0}
         /\ history_count \in Nat /\ Stored(history_count) \in Nat
         /\ Stored(history_count) <= history_size /\ 1 \in 1 .. Height
         /\ scroll_offset \in 0 .. Stored(history_count)
BY SizeAssumption, CountAssumption DEF TypeOK, Stored

(* The lines kept are a sequence of rows. *)
LEMMA LinesType ==
  ASSUME TypeOK
  PROVE  /\ Lines \in Seq(Row(width)) /\ Len(Lines) = Stored(history_count)
         /\ \A k \in 1 .. Stored(history_count) :
              Lines[k] = RowAt(history_cells, width, RingRow(history_count, k - 1))
<1> DEFINE n == Stored(history_count)
<1>1. \A k \in 1 .. n : RowAt(history_cells, width, RingRow(history_count, k - 1)) \in Row(width)
  <2>1. TAKE k \in 1 .. n
  <2>2. k - 1 \in 0 .. (n - 1)
    BY Sizes
  <2>3. RingRow(history_count, k - 1) \in 0 .. (history_size - 1)
    BY <2>2, RingRowType, Sizes
  <2>4. QED BY <2>3, RowAtType, Sizes DEF TypeOK
<1>2. Lines = [k \in 1 .. n |-> RowAt(history_cells, width, RingRow(history_count, k - 1))]
  BY DEF Lines
<1>3. n \in Nat
  BY Sizes
<1> HIDE DEF n
<1>4. Lines \in [1 .. n -> Row(width)]
  BY <1>1, <1>2
<1>5. Lines \in Seq(Row(width)) /\ Len(Lines) = n
  BY <1>3, <1>4
<1>6. QED BY <1>2, <1>5 DEF n

(* The k-th line after a push: the new one is last, the others are the     *)
(* lines there were, without the oldest if the ring was full.              *)
LEMMA PushedLines ==
  ASSUME TypeOK, NEW row \in Row(width), PushLine(row),
         NEW k \in 1 .. Stored(history_count + 1)
  PROVE  RowAt(history_cells', width, RingRow(history_count + 1, k - 1)) =
           IF k = Stored(history_count + 1) THEN cells[1]
           ELSE Lines[IF history_count < history_size THEN k ELSE k + 1]
<1> DEFINE c == history_count
           d == c % history_size
           r == RingRow(c + 1, k - 1)
           j == IF c < history_size THEN k ELSE k + 1
<1>1. c \in Nat /\ c + 1 \in Nat /\ history_size \in Nat \ {0} /\ width \in Nat \ {0}
  BY Sizes
<1>2. d \in 0 .. (history_size - 1)
  BY <1>1, ModRange
<1>3. k - 1 \in 0 .. (Stored(c + 1) - 1) /\ Stored(c + 1) \in Nat
  BY <1>1 DEF Stored
<1>4. r \in 0 .. (history_size - 1)
  BY <1>1, <1>3, RingRowType
<1>5. RowAt(history_cells', width, r) = IF r = d THEN cells[1] ELSE RowAt(history_cells, width, r)
  <2>1. history_cells \in Memory(width) /\ cells[1] \in Row(width)
    BY Sizes DEF TypeOK
  <2>2. history_cells' = [a \in DOMAIN history_cells |->
          IF a \in (d * width) .. (d * width + width - 1) THEN cells[1][a - d * width + 1]
          ELSE history_cells[a]]
    BY DEF PushLine
  <2> HIDE DEF d, r
  <2>3. QED BY <1>1, <1>2, <1>4, <2>1, <2>2, RowWritten
<1>6. /\ k - 1 = Stored(c + 1) - 1 => r = d
      /\ k - 1 < Stored(c + 1) - 1 =>
           r # d /\ r = RingRow(c, IF c < history_size THEN k - 1 ELSE (k - 1) + 1)
  BY <1>1, <1>3, RingStep
<1>7. CASE k = Stored(c + 1)
  BY <1>3, <1>5, <1>6, <1>7
<1>8. CASE k # Stored(c + 1)
  <2>1. k - 1 < Stored(c + 1) - 1
    BY <1>3, <1>8
  <2>2. j \in 1 .. Stored(c) /\ j - 1 = (IF c < history_size THEN k - 1 ELSE (k - 1) + 1)
    BY <1>1, <1>3, <2>1 DEF Stored
  <2>3. r # d /\ r = RingRow(c, j - 1)
    BY <1>6, <2>1, <2>2
  <2>4. Lines[j] = RowAt(history_cells, width, r)
    BY <2>2, <2>3, LinesType
  <2>5. QED BY <1>5, <1>8, <2>3, <2>4
<1>9. QED BY <1>7, <1>8

(* Sequences: an element added at the end, and the oldest dropped. *)
LEMMA AppendKeep ==
  ASSUME NEW S, NEW s \in Seq(S), NEW e \in S
  PROVE  /\ Append(s, e) = [k \in 1 .. (Len(s) + 1) |-> IF k = Len(s) + 1 THEN e ELSE s[k]]
         /\ Len(Append(s, e)) = Len(s) + 1
         /\ Tail(Append(s, e)) = [k \in 1 .. Len(s) |-> IF k = Len(s) THEN e ELSE s[k + 1]]
<1>1. Append(s, e) \in Seq(S) /\ Len(Append(s, e)) = Len(s) + 1 /\ Len(s) \in Nat
  OBVIOUS
<1>2. \A k \in 1 .. (Len(s) + 1) : Append(s, e)[k] = IF k = Len(s) + 1 THEN e ELSE s[k]
  OBVIOUS
<1>3. Append(s, e) = [k \in 1 .. (Len(s) + 1) |-> IF k = Len(s) + 1 THEN e ELSE s[k]]
  <2>1. Append(s, e) = [k \in 1 .. (Len(s) + 1) |-> Append(s, e)[k]]
    BY <1>1, LenProperties
  <2>2. QED BY <1>2, <2>1
<1>4. Tail(Append(s, e)) = [k \in 1 .. Len(s) |-> Append(s, e)[k + 1]]
  <2> DEFINE t == Tail(Append(s, e))
  <2>1. Append(s, e) # <<>>
    BY <1>1, EmptySeq
  <2>2. t \in Seq(S) /\ Len(t) = Len(s) /\ \A k \in 1 .. Len(t) : t[k] = Append(s, e)[k + 1]
    BY <1>1, <2>1, HeadTailProperties
  <2> HIDE DEF t
  <2>3. t = [k \in 1 .. Len(s) |-> t[k]]
    BY <2>2, LenProperties
  <2>4. t = [k \in 1 .. Len(s) |-> Append(s, e)[k + 1]]
    BY <2>2, <2>3
  <2>5. QED BY <2>4 DEF t
<1>5. \A k \in 1 .. Len(s) : Append(s, e)[k + 1] = IF k = Len(s) THEN e ELSE s[k + 1]
  BY <1>1, <1>2
<1>6. QED BY <1>1, <1>3, <1>4, <1>5

(* Pushing a line onto the ring is scrolling the scrollback. *)
LEMMA PushScrolls ==
  ASSUME TypeOK, NEW row \in Row(width), PushLine(row)
  PROVE  Ideal!Scroll(row)
<1> DEFINE c == history_count
           m == Stored(c + 1)
<1>1. /\ c \in Nat /\ history_size \in Nat \ {0} /\ m \in Nat
      /\ Stored(c) = (IF c < history_size THEN c ELSE history_size)
      /\ m = (IF c < history_size THEN c + 1 ELSE history_size)
  BY Sizes DEF Stored
<1>2. history_count' = c + 1 /\ width' = width
  BY CountStep DEF PushLine
<1>3. Lines' = [k \in 1 .. m |-> RowAt(history_cells', width, RingRow(c + 1, k - 1))]
  BY <1>2 DEF Lines, Stored, RingRow, RowAt
<1>4. Lines' = [k \in 1 .. m |-> IF k = m THEN cells[1]
                 ELSE Lines[IF c < history_size THEN k ELSE k + 1]]
  BY <1>3, PushedLines
<1>5. Lines \in Seq(Row(width)) /\ cells[1] \in Row(width) /\ Len(Lines) = Stored(c)
  BY LinesType, Sizes DEF TypeOK
<1>6. Lines' = Ideal!Keep(Append(Lines, cells[1]))
  <2>1. Len(Append(Lines, cells[1])) = Stored(c) + 1
    BY <1>5, AppendKeep
  <2>2. CASE c < history_size
    <3>1. Append(Lines, cells[1]) = [k \in 1 .. (c + 1) |-> IF k = c + 1 THEN cells[1] ELSE Lines[k]]
      BY <1>1, <1>5, <2>2, AppendKeep
    <3>2. Lines' = [k \in 1 .. (c + 1) |-> IF k = c + 1 THEN cells[1] ELSE Lines[k]]
      BY <1>1, <1>4, <2>2
    <3>3. ~(Len(Append(Lines, cells[1])) > history_size)
      BY <1>1, <2>1, <2>2
    <3>4. QED BY <3>1, <3>2, <3>3 DEF Ideal!Keep
  <2>3. CASE ~(c < history_size)
    <3>1. Tail(Append(Lines, cells[1])) =
            [k \in 1 .. history_size |-> IF k = history_size THEN cells[1] ELSE Lines[k + 1]]
      BY <1>1, <1>5, <2>3, AppendKeep
    <3>2. Lines' = [k \in 1 .. history_size |-> IF k = history_size THEN cells[1] ELSE Lines[k + 1]]
      BY <1>1, <1>4, <2>3
    <3>3. Len(Append(Lines, cells[1])) > history_size
      BY <1>1, <2>1, <2>3
    <3>4. QED BY <3>1, <3>2, <3>3 DEF Ideal!Keep
  <2>4. QED BY <2>2, <2>3
<1>7. QED BY <1>6 DEF Ideal!Scroll, PushLine

(* Detaching and attaching leaves the list of lines as it is. *)
LEMMA SaveKeepsLines ==
  ASSUME TypeOK, SaveAndRestore
  PROVE  Lines' = Lines
<1> DEFINE n == Stored(history_count)
<1>1. /\ history_size \in Nat \ {0} /\ width \in Nat \ {0}
      /\ n \in Nat /\ n <= history_size
  BY Sizes
<1>2. history_count' = n /\ width' = width
  BY DEF SaveAndRestore
<1>3. Stored(n) = n /\ \A k \in 1 .. n : RingRow(n, k - 1) = k - 1
  BY <1>1 DEF Stored, RingRow
<1>4. \A k \in 1 .. n :
        RowAt(history_cells', width, k - 1)
          = RowAt(history_cells, width, RingRow(history_count, k - 1))
  <2>1. TAKE k \in 1 .. n
  <2>2. k - 1 \in 0 .. (n - 1) /\ k - 1 \in 0 .. (history_size - 1)
    BY <1>1
  <2>3. \A x \in 1 .. width :
          history_cells'[(k - 1) * width + x - 1]
            = history_cells[RingRow(history_count, k - 1) * width + x - 1]
    <3>1. TAKE x \in 1 .. width
    <3>2. (k - 1) * width + x - 1 \in 0 .. (history_size * width - 1)
      BY <1>1, <2>2, CellInMemory
    <3>3. (k - 1) * width + x - 1 < n * width
      <4>1. (k - 1) * width + x - 1 \in 0 .. (n * width - 1) /\ n * width \in Nat
        BY <1>1, <2>2, CellInMemory
      <4>2. QED BY <4>1
    <3>4. history_cells'[(k - 1) * width + x - 1] = SavedCell((k - 1) * width + x - 1)
      BY <3>2, <3>3 DEF SaveAndRestore
    <3>5. SavedCell((k - 1) * width + x - 1)
            = history_cells[RingRow(history_count, k - 1) * width + x - 1]
      BY <2>2, SavedRow
    <3>6. QED BY <3>4, <3>5
  <2>4. QED BY <2>3 DEF RowAt
<1>5. Lines' = [k \in 1 .. Stored(n) |-> RowAt(history_cells', width, RingRow(n, k - 1))]
  BY <1>2 DEF Lines, Stored, RingRow, RowAt
<1>6. Lines' = [k \in 1 .. n |-> RowAt(history_cells, width, RingRow(history_count, k - 1))]
  BY <1>3, <1>4, <1>5
<1>7. QED BY <1>6 DEF Lines

-----------------------------------------------------------------------------
(* The grid implements the scrollback, and the pane shows its view. *)

(* A step that leaves the grid alone leaves the lines alone. *)
LEMMA SameLines ==
  ASSUME UNCHANGED <<width, history_cells, history_count>>
  PROVE  Lines' = Lines
BY DEF Lines, Stored, RingRow, RowAt

(* An empty ring is an empty scrollback. *)
LEMMA InitRefines == Init => Ideal!Init
<1> SUFFICES ASSUME Init PROVE Ideal!Init
  OBVIOUS
<1>1. Stored(history_count) = 0
  BY SizeAssumption DEF Init, Stored
<1>2. Lines = <<>>
  BY <1>1 DEF Lines
<1>3. QED BY <1>2 DEF Init, Ideal!Init

(* Every step of the grid is a step of the scrollback, or none. *)
LEMMA StepRefines ==
  ASSUME TypeOK, [Next]_vars
  PROVE  [Ideal!Next]_(Ideal!vars)
<1>1. Ideal!Line = Row(width)
  BY Sizes DEF Ideal!Line, TypeOK, Row
<1>2. Len(Lines) = Stored(history_count)
  BY LinesType
<1>3. CASE \E row \in Row(width) : PushLine(row)
  BY <1>1, <1>3, PushScrolls DEF Ideal!Next
<1>4. CASE \E y \in 1 .. Height, row \in Row(width) : PaneInput(y, row)
  <2>1. PICK y \in 1 .. Height, row \in Row(width) : PaneInput(y, row)
    BY <1>4
  <2>2. Lines' = Lines
    BY <2>1, SameLines DEF PaneInput
  <2>3. Ideal!Draw(y, row)
    BY <2>1, <2>2 DEF PaneInput, Ideal!Draw
  <2>4. QED BY <1>1, <2>3 DEF Ideal!Next
<1>5. CASE ScrollUp
  <2>1. Lines' = Lines
    BY <1>5, SameLines DEF ScrollUp
  <2>2. Ideal!ViewUp
    BY <1>2, <1>5, <2>1 DEF ScrollUp, Ideal!ViewUp, Ideal!AtMost
  <2>3. QED BY <2>2 DEF Ideal!Next
<1>6. CASE ScrollDown
  <2>1. Lines' = Lines
    BY <1>6, SameLines DEF ScrollDown
  <2>2. Ideal!ViewDown
    BY <1>6, <2>1, Sizes DEF ScrollDown, Ideal!ViewDown
  <2>3. QED BY <2>2 DEF Ideal!Next
<1>7. CASE LeaveHistory
  <2>1. Lines' = Lines
    BY <1>7, SameLines DEF LeaveHistory
  <2>2. Ideal!ViewScreen
    BY <1>7, <2>1 DEF LeaveHistory, Ideal!ViewScreen
  <2>3. QED BY <2>2 DEF Ideal!Next
<1>8. CASE SaveAndRestore
  <2>1. Lines' = Lines
    BY <1>8, SaveKeepsLines
  <2>2. QED BY <1>8, <2>1 DEF SaveAndRestore, Ideal!vars
<1>9. CASE UNCHANGED vars
  <2>1. Lines' = Lines
    BY <1>9, SameLines DEF vars
  <2>2. QED BY <1>9, <2>1 DEF vars, Ideal!vars
<1>10. QED BY <1>3, <1>4, <1>5, <1>6, <1>7, <1>8, <1>9 DEF Next

(* The ring keeps the last history_size lines that left the screen, in     *)
(* order, however often it went round and the client detached, for every   *)
(* size (render.c:50-59, 295-402, window.c:36-66).                         *)
THEOREM RingIsScrollback == Spec => ScrollbackKept
<1>1. Init => Ideal!Init
  BY InitRefines
<1>2. TypeOK /\ [Next]_vars => [Ideal!Next]_(Ideal!vars)
  BY StepRefines
<1>3. QED BY <1>1, <1>2, TypeCorrect, PTL DEF Spec, ScrollbackKept, Ideal!Spec

(* What grid_get_display_line finds is the line of the view, for every     *)
(* position of it: only the types are needed.                              *)
LEMMA DisplayIsView ==
  ASSUME TypeOK
  PROVE  ShowsView
<1> DEFINE n == Stored(history_count)
<1>1. SUFFICES ASSUME NEW y \in 1 .. Height PROVE DisplayLine(y) = Ideal!View[y]
  BY DEF ShowsView
<1>2. /\ n \in Nat /\ Height \in Nat \ {0} /\ scroll_offset \in 0 .. n
      /\ Lines \in Seq(Row(width)) /\ Len(Lines) = n
      /\ cells \in Seq(Row(width)) /\ Len(cells) = Height
  <2>1. n \in Nat /\ Height \in Nat \ {0} /\ scroll_offset \in 0 .. n
    BY Sizes
  <2>2. cells \in [1 .. Height -> Row(width)]
    BY DEF TypeOK
  <2>3. cells \in Seq(Row(width)) /\ Len(cells) = Height
    BY <2>1, <2>2
  <2>4. QED BY <2>1, <2>3, LinesType
<1>3. Ideal!View[y] = (Lines \o cells)[n - scroll_offset + y]
  BY <1>2 DEF Ideal!View
<1>4. \A i \in 1 .. (n + Height) :
        (Lines \o cells)[i] = IF i <= n THEN Lines[i] ELSE cells[i - n]
  BY <1>2
<1>5. n - scroll_offset + y \in 1 .. (n + Height)
  BY <1>2
<1>6. CASE scroll_offset = 0
  BY <1>2, <1>3, <1>4, <1>5, <1>6 DEF DisplayLine
<1>7. CASE scroll_offset > 0
  <2>1. history_count # 0 /\ history_count > 0
    BY <1>2, <1>7, Sizes DEF Stored
  <2>2. CASE n - scroll_offset + y - 1 >= n
    <3>1. DisplayLine(y) = cells[(n - scroll_offset + y - 1) - n + 1]
      BY <1>2, <1>7, <2>1, <2>2 DEF DisplayLine
    <3>2. ~(n - scroll_offset + y <= n) /\ (n - scroll_offset + y - 1) - n + 1 = (n - scroll_offset + y) - n
      BY <1>2, <2>2
    <3>3. QED BY <1>3, <1>4, <1>5, <3>1, <3>2
  <2>3. CASE ~(n - scroll_offset + y - 1 >= n)
    <3>1. DisplayLine(y)
            = RowAt(history_cells, width, RingRow(history_count, n - scroll_offset + y - 1))
      BY <1>2, <1>7, <2>1, <2>3 DEF DisplayLine
    <3>2. n - scroll_offset + y \in 1 .. n
      BY <1>2, <2>3
    <3>3. Lines[n - scroll_offset + y] = DisplayLine(y)
      <4>1. (n - scroll_offset + y) - 1 = n - scroll_offset + y - 1
        BY <1>2
      <4>2. Lines[n - scroll_offset + y]
              = RowAt(history_cells, width, RingRow(history_count, (n - scroll_offset + y) - 1))
        BY <3>2, LinesType
      <4>3. QED BY <3>1, <4>1, <4>2
    <3>4. QED BY <1>2, <1>3, <1>4, <1>5, <3>2, <3>3
  <2>4. QED BY <2>2, <2>3
<1>8. QED BY <1>2, <1>6, <1>7

(* The pane always shows the lines of history and screen the view is at,   *)
(* none missing, doubled or blank, for every size (render.c:61-91).        *)
THEOREM PaneShowsView == Spec => []ShowsView
<1>1. TypeOK => ShowsView
  BY DisplayIsView
<1>2. QED BY <1>1, TypeCorrect, PTL
=============================================================================
