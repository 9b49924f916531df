---------------------------- MODULE ScrollProofs ----------------------------
(***************************************************************************)
(* Proofs about Scroll, for nametables of any size.  The argument: every   *)
(* increment moves the row (or the column) one step around its cycle, as   *)
(* the beam's position does (ModStep); a reload puts both at the start;    *)
(* and the history is only kept while rendering stays on, so no increment  *)
(* is missed.                                                              *)
(***************************************************************************)
EXTENDS Scroll, Arithmetic

\* The beam stays on the events its line has.
BeamOnLine ==
    /\ event \in 1 .. LastEvent
    /\ line = Blank => event = 1

\* A history is kept only while rendering is on, and a row of the plane only
\* while the address is outside the attribute rows.
HistoryKept ==
    /\ originX # None => rendering
    /\ originY # None => rendering /\ vram_addr.coarse_y < Rows

\* Once y has been reloaded, the address is at the row of the reload.
RowReloaded ==
    originY # None /\ line = PreRender /\ event > Columns + 2 =>
        Row(vram_addr) = originY

ScrollInv ==
    /\ ScrollTypeOK
    /\ BeamOnLine
    /\ HistoryKept
    /\ RowReloaded
    /\ RowShown
    /\ ColumnShown

-----------------------------------------------------------------------------
(***************************************************************************)
(* The plane and the address.                                              *)
(***************************************************************************)

\* The sizes as natural numbers, for the provers.
LEMMA Sizes ==
    /\ Columns \in Nat \ {0} /\ Columns > 2
    /\ Rows \in Nat \ {0} /\ CoarseRows \in Nat /\ Rows < CoarseRows
    /\ FineRows \in Nat \ {0} /\ LowRows \in Nat \ {0} /\ Copies \in Nat \ {0}
    /\ Lines \in Nat \ {0} /\ 2 * Lines = FineRows * (2 * Rows)
    /\ Blank = Lines /\ PreRender = Lines + 1
<1>1. /\ Columns \in Nat \ {0} /\ Columns > 2
      /\ Rows \in Nat \ {0} /\ CoarseRows \in Nat /\ Rows < CoarseRows
      /\ FineRows \in Nat \ {0} /\ LowRows \in Nat \ {0} /\ Copies \in Nat \ {0}
  BY ScrollAssumption
<1>2. Rows * FineRows \in Nat \ {0}
  BY <1>1
<1>3. 2 * (Rows * FineRows) = FineRows * (2 * Rows)
  BY <1>1
<1> QED
  BY <1>1, <1>2, <1>3 DEF Lines, Blank, PreRender

\* The number of a row: its row of tiles, then its place in the tile.
LEMMA RowForm ==
    ASSUME NEW a \in Address, a.coarse_y < Rows
    PROVE  LET t == a.nametable_y * Rows + a.coarse_y
           IN  /\ t \in 0 .. 2 * Rows - 1
               /\ Row(a) = FineRows * t + a.fine_y
               /\ Row(a) \in 0 .. 2 * Lines - 1
<1> DEFINE t == a.nametable_y * Rows + a.coarse_y
<1>1. /\ a.nametable_y \in 0 .. 1 /\ a.coarse_y \in Nat
      /\ a.fine_y \in 0 .. FineRows - 1
  BY Sizes DEF Address
<1>2. t \in 0 .. 2 * Rows - 1
  <2>1. CASE a.nametable_y = 0
    BY <2>1, <1>1, Sizes
  <2>2. CASE a.nametable_y = 1
    BY <2>2, <1>1, Sizes
  <2> QED
    BY <2>1, <2>2, <1>1
<1>3. Row(a) = t * FineRows + a.fine_y
  BY DEF Row
<1> HIDE DEF t
<1>4. t * FineRows = FineRows * t /\ FineRows * t \in Nat
  BY <1>2, Sizes
<1>5. FineRows * t + FineRows <= FineRows * (2 * Rows)
  BY <1>2, Sizes, ProductGap
<1>6. Row(a) \in 0 .. 2 * Lines - 1
  BY <1>1, <1>3, <1>4, <1>5, Sizes
<1> QED
  BY <1>2, <1>3, <1>4, <1>6 DEF t

\* The number of a column: its nametable, then its place in it.
LEMMA ColumnForm ==
    ASSUME NEW a \in Address
    PROVE  /\ Column(a) \in 0 .. 2 * Columns - 1
           /\ Column(a) % Columns = a.coarse_x
           /\ Column(a) \div Columns = a.nametable_x
<1>1. /\ a.coarse_x \in 0 .. Columns - 1 /\ a.nametable_x \in 0 .. 1
      /\ Column(a) = a.nametable_x * Columns + a.coarse_x
  BY DEF Address, Column
<1>2. /\ Column(a) \in 0 .. 2 * Columns - 1
      /\ Column(a) = Columns * a.nametable_x + a.coarse_x
  <2>1. CASE a.nametable_x = 0
    BY <1>1, <2>1, Sizes
  <2>2. CASE a.nametable_x = 1
    BY <1>1, <2>2, Sizes
  <2> QED
    BY <1>1, <2>1, <2>2
<1> DEFINE c == Column(a)
           x == a.coarse_x
           t == a.nametable_x
<1> HIDE DEF c, x, t
<1>3. /\ c \in Nat /\ t \in Nat /\ x \in 0 .. Columns - 1
      /\ c = Columns * t + x /\ Columns \in Nat \ {0}
  BY <1>1, <1>2, Sizes DEF c, x, t
<1>4. c \div Columns = t /\ c % Columns = x
  BY <1>3, DivModUnique
<1> QED
  BY <1>2, <1>4 DEF c, x, t

\* increment_scroll_x() leaves the row alone and steps the column around the
\* nametable.
LEMMA XSteps ==
    ASSUME NEW a \in Address
    PROVE  /\ IncrementedX(a) \in Address
           /\ IncrementedX(a).coarse_y = a.coarse_y
           /\ Row(IncrementedX(a)) = Row(a)
           /\ IncrementedX(a).coarse_x =
                  IF a.coarse_x = Columns - 1 THEN 0 ELSE a.coarse_x + 1
           /\ a.coarse_x # Columns - 1 => Column(IncrementedX(a)) = Column(a) + 1
<1>1. a.coarse_x \in 0 .. Columns - 1 /\ a.nametable_x \in 0 .. 1
  BY DEF Address
<1>2. CASE a.coarse_x = Columns - 1
  <2>1. IncrementedX(a) = [a EXCEPT !.coarse_x = 0, !.nametable_x = 0]
    BY <1>2 DEF IncrementedX
  <2>2. 0 \in 0 .. Columns - 1 /\ 0 \in 0 .. 1
    BY Sizes
  <2>3. IncrementedX(a) \in Address /\ IncrementedX(a).coarse_x = 0
    BY <2>1, <2>2 DEF Address
  <2>4. /\ IncrementedX(a).coarse_y = a.coarse_y
        /\ IncrementedX(a).nametable_y = a.nametable_y
        /\ IncrementedX(a).fine_y = a.fine_y
    BY <2>1 DEF Address
  <2> QED
    BY <2>3, <2>4, <1>2 DEF Row
<1>3. CASE a.coarse_x # Columns - 1
  <2>1. IncrementedX(a) = [a EXCEPT !.coarse_x = @ + 1]
    BY <1>3 DEF IncrementedX
  <2>2. a.coarse_x + 1 \in 0 .. Columns - 1
    BY <1>1, <1>3, Sizes
  <2>3. /\ IncrementedX(a) \in Address /\ IncrementedX(a).coarse_x = a.coarse_x + 1
        /\ IncrementedX(a).nametable_x = a.nametable_x
        /\ IncrementedX(a).coarse_y = a.coarse_y
        /\ IncrementedX(a).nametable_y = a.nametable_y
        /\ IncrementedX(a).fine_y = a.fine_y
    BY <2>1, <2>2 DEF Address
  <2>4. Column(IncrementedX(a)) = Column(a) + 1
    <3>1. a.nametable_x * Columns \in Nat
      BY <1>1, Sizes
    <3> QED
      BY <1>1, <2>3, <3>1 DEF Column
  <2> QED
    BY <2>3, <2>4, <1>3 DEF Row
<1> QED
  BY <1>2, <1>3

\* increment_scroll_y() leaves the column alone and, outside the attribute
\* rows, steps the row around the plane.
LEMMA YType ==
    ASSUME NEW a \in Address
    PROVE  /\ IncrementedY(a) \in Address
           /\ IncrementedY(a).coarse_x = a.coarse_x
           /\ IncrementedY(a).nametable_x = a.nametable_x
           /\ a.coarse_y < Rows => IncrementedY(a).coarse_y < Rows
<1>1. /\ a.coarse_y \in 0 .. CoarseRows - 1 /\ a.fine_y \in 0 .. FineRows - 1
      /\ a.nametable_y \in 0 .. 1
  BY DEF Address
<1>2. CASE a.fine_y < FineRows - 1
  <2>1. IncrementedY(a) = [a EXCEPT !.fine_y = @ + 1]
    BY <1>2 DEF IncrementedY
  <2>2. a.fine_y + 1 \in 0 .. FineRows - 1
    BY <1>1, <1>2, Sizes
  <2> QED
    BY <2>1, <2>2 DEF Address
<1>3. CASE a.fine_y >= FineRows - 1 /\ a.coarse_y = Rows - 1
  <2>1. IncrementedY(a) = [a EXCEPT !.fine_y = 0, !.coarse_y = 0, !.nametable_y = 1 - @]
    BY <1>1, <1>3, Sizes DEF IncrementedY
  <2>2. /\ 0 \in 0 .. FineRows - 1 /\ 0 \in 0 .. CoarseRows - 1 /\ 0 < Rows
        /\ 1 - a.nametable_y \in 0 .. 1
    BY <1>1, Sizes
  <2> QED
    BY <2>1, <2>2 DEF Address
<1>4. CASE /\ a.fine_y >= FineRows - 1 /\ a.coarse_y # Rows - 1
           /\ a.coarse_y = CoarseRows - 1
  <2>1. IncrementedY(a) = [a EXCEPT !.fine_y = 0, !.coarse_y = 0]
    BY <1>1, <1>4, Sizes DEF IncrementedY
  <2>2. 0 \in 0 .. FineRows - 1 /\ 0 \in 0 .. CoarseRows - 1 /\ 0 < Rows
    BY Sizes
  <2> QED
    BY <2>1, <2>2 DEF Address
<1>5. CASE /\ a.fine_y >= FineRows - 1 /\ a.coarse_y # Rows - 1
           /\ a.coarse_y # CoarseRows - 1
  <2>1. IncrementedY(a) = [a EXCEPT !.fine_y = 0, !.coarse_y = @ + 1]
    BY <1>1, <1>5, Sizes DEF IncrementedY
  <2>2. /\ 0 \in 0 .. FineRows - 1 /\ a.coarse_y + 1 \in 0 .. CoarseRows - 1
        /\ a.coarse_y < Rows => a.coarse_y + 1 < Rows
    BY <1>1, <1>5, Sizes
  <2> QED
    BY <2>1, <2>2 DEF Address
<1> QED
  BY <1>1, <1>2, <1>3, <1>4, <1>5, Sizes

\* One row down, around the plane: 2 * Lines rows.
LEMMA YSteps ==
    ASSUME NEW a \in Address, a.coarse_y < Rows
    PROVE  Row(IncrementedY(a)) = IF Row(a) = 2 * Lines - 1 THEN 0 ELSE Row(a) + 1
<1> DEFINE b == IncrementedY(a)
           t == a.nametable_y * Rows + a.coarse_y
           u == b.nametable_y * Rows + b.coarse_y
<1>1. /\ a.nametable_y \in 0 .. 1 /\ a.coarse_y \in 0 .. Rows - 1
      /\ a.fine_y \in 0 .. FineRows - 1
  BY Sizes DEF Address
<1>2. t \in 0 .. 2 * Rows - 1 /\ Row(a) = FineRows * t + a.fine_y
  BY RowForm
<1>3. u \in 0 .. 2 * Rows - 1 /\ Row(b) = FineRows * u + b.fine_y
  BY RowForm, YType
<1>4. CASE a.fine_y < FineRows - 1
  <2>1. b = [a EXCEPT !.fine_y = @ + 1]
    BY <1>4 DEF IncrementedY
  <2>2. u = t /\ b.fine_y = a.fine_y + 1
    BY <2>1 DEF Address
  <2> HIDE DEF b, t, u
  <2>3. FineRows * t \in Nat /\ FineRows * t + FineRows <= FineRows * (2 * Rows)
    BY <1>2, Sizes, ProductGap
  <2>4. Row(b) = Row(a) + 1 /\ Row(a) # 2 * Lines - 1
    BY <1>1, <1>2, <1>3, <1>4, <2>2, <2>3, Sizes
  <2> QED
    BY <2>4 DEF b
<1>5. CASE a.fine_y = FineRows - 1
  <2>1. b.fine_y = 0 /\ u = IF t = 2 * Rows - 1 THEN 0 ELSE t + 1
    <3>1. CASE a.coarse_y = Rows - 1
      <4>1. b = [a EXCEPT !.fine_y = 0, !.coarse_y = 0, !.nametable_y = 1 - @]
        BY <1>1, <1>5, <3>1, Sizes DEF IncrementedY
      <4>2. b.fine_y = 0 /\ b.coarse_y = 0 /\ b.nametable_y = 1 - a.nametable_y
        BY <4>1 DEF Address
      <4>3. CASE a.nametable_y = 0
        BY <4>2, <4>3, <3>1, Sizes
      <4>4. CASE a.nametable_y = 1
        BY <4>2, <4>4, <3>1, Sizes
      <4> QED
        BY <4>3, <4>4, <1>1
    <3>2. CASE a.coarse_y # Rows - 1
      <4>1. b = [a EXCEPT !.fine_y = 0, !.coarse_y = @ + 1]
        BY <1>1, <1>5, <3>2, Sizes DEF IncrementedY
      <4>2. /\ b.fine_y = 0 /\ b.coarse_y = a.coarse_y + 1
            /\ b.nametable_y = a.nametable_y
        BY <4>1 DEF Address
      <4>3. CASE a.nametable_y = 0
        BY <4>2, <4>3, <3>2, <1>1, Sizes
      <4>4. CASE a.nametable_y = 1
        BY <4>2, <4>4, <3>2, <1>1, Sizes
      <4> QED
        BY <4>3, <4>4, <1>1
    <3> QED
      BY <3>1, <3>2
  <2> HIDE DEF b, t, u
  <2>2. FineRows * t + FineRows = FineRows * (t + 1) /\ FineRows * 0 = 0
    BY <1>2, Sizes
  <2>3. FineRows * t \in Nat /\ FineRows * (t + 1) \in Nat
    BY <1>2, Sizes
  <2>4. CASE t = 2 * Rows - 1
    <3>1. t + 1 = 2 * Rows
      BY <2>4, Sizes
    <3> QED
      BY <1>2, <1>3, <1>5, <2>1, <2>2, <2>3, <2>4, <3>1, Sizes DEF b
  <2>5. CASE t # 2 * Rows - 1
    <3>1. FineRows * (t + 1) + FineRows <= FineRows * (2 * Rows)
      <4>1. t + 1 \in Nat /\ 2 * Rows \in Nat /\ t + 1 < 2 * Rows
        BY <2>5, <1>2, Sizes
      <4> QED
        BY <4>1, Sizes, ProductGap
    <3> QED
      BY <1>2, <1>3, <1>5, <2>1, <2>2, <2>3, <2>5, <3>1, Sizes DEF b
  <2> QED
    BY <2>4, <2>5
<1> QED
  BY <1>1, <1>4, <1>5, Sizes

-----------------------------------------------------------------------------
(***************************************************************************)
(* Types.                                                                  *)
(***************************************************************************)

\* Every number is an address: the register keeps no bit of it elsewhere.
LEMMA DecodedType ==
    ASSUME NEW n \in Nat
    PROVE  Decoded(n) \in Address
<1> DEFINE rows == n \div Columns
           tables == rows \div CoarseRows
<1>1. CoarseRows \in Nat \ {0}
  BY Sizes
<1>2. n % Columns \in 0 .. Columns - 1 /\ rows \in Nat
  BY Sizes, DivMod
<1> HIDE DEF rows
<1>3. rows % CoarseRows \in 0 .. CoarseRows - 1 /\ tables \in Nat
  BY <1>1, <1>2, DivMod
<1> HIDE DEF tables
<1>4. tables % 2 \in 0 .. 1 /\ tables \div 2 \in Nat /\ tables \div 4 \in Nat
  BY <1>3
<1>5. (tables \div 2) % 2 \in 0 .. 1
  BY <1>4
<1>6. (tables \div 4) % FineRows \in 0 .. FineRows - 1
  BY <1>4, Sizes, DivMod
<1>7. Decoded(n) = [coarse_x |-> n % Columns, coarse_y |-> rows % CoarseRows,
                    nametable_x |-> tables % 2, nametable_y |-> (tables \div 2) % 2,
                    fine_y |-> (tables \div 4) % FineRows]
  BY DEF Decoded, rows, tables
<1> QED
  BY <1>2, <1>3, <1>4, <1>5, <1>6, <1>7 DEF Address

\* The number of an address, to which $2007 adds its increment.
LEMMA EncodedType ==
    ASSUME NEW a \in Address
    PROVE  Encoded(a) \in Nat
<1> DEFINE u == a.nametable_y + 2 * a.fine_y
           v == a.nametable_x + 2 * u
           w == a.coarse_y + CoarseRows * v
<1>1. /\ a.coarse_x \in Nat /\ a.coarse_y \in Nat /\ a.fine_y \in Nat
      /\ a.nametable_x \in Nat /\ a.nametable_y \in Nat
  BY Sizes DEF Address
<1>2. v \in Nat
  BY <1>1
<1> HIDE DEF v
<1>3. w \in Nat
  BY <1>1, <1>2, Sizes
<1> HIDE DEF w
<1>4. a.coarse_x + Columns * w \in Nat
  BY <1>1, <1>3, Sizes
<1> QED
  BY <1>4 DEF Encoded, w, v

\* The two bytes of a write to $2006 each keep the other's bits of coarse_y.
LEMMA SplitBits ==
    ASSUME NEW h \in 0 .. CoarseRows - 1, NEW l \in 0 .. CoarseRows - 1
    PROVE  (h \div LowRows) * LowRows + (l % LowRows) \in 0 .. CoarseRows - 1
<1> DEFINE k == CoarseRows \div LowRows
           q == h \div LowRows
<1>1. k \in Nat /\ CoarseRows = LowRows * k
  BY Sizes, ScrollAssumption, DivMod
<1>2. q \in Nat /\ h = LowRows * q + (h % LowRows) /\ h % LowRows \in 0 .. LowRows - 1
  <2>1. h \in Nat /\ LowRows \in Nat \ {0}
    BY Sizes
  <2> QED
    BY <2>1, DivMod
<1>3. l % LowRows \in 0 .. LowRows - 1
  <2>1. l \in Nat /\ LowRows \in Nat \ {0}
    BY Sizes
  <2> QED
    BY <2>1, DivMod
<1> HIDE DEF k, q
<1>4. q < k
  <2>1. CASE q = k
    BY <1>1, <1>2, <2>1, Sizes
  <2>2. CASE k < q
    <3>1. LowRows * k + LowRows <= LowRows * q
      BY <1>1, <1>2, <2>2, Sizes, ProductGap
    <3> QED
      BY <1>1, <1>2, <3>1, Sizes
  <2> QED
    BY <2>1, <2>2, <1>1, <1>2
<1>5. LowRows * q + LowRows <= CoarseRows
  BY <1>1, <1>2, <1>4, Sizes, ProductGap
<1>6. q * LowRows = LowRows * q /\ LowRows * q \in Nat
  BY <1>2, Sizes
<1> QED
  BY <1>3, <1>5, <1>6, Sizes DEF q

\* The reloads copy their own fields of temp_addr and no other.
LEMMA ReloadTypes ==
    ASSUME NEW a \in Address, temp_addr \in Address
    PROVE  /\ ReloadedX(a) \in Address
           /\ ReloadedX(a).coarse_x = temp_addr.coarse_x
           /\ ReloadedX(a).coarse_y = a.coarse_y
           /\ ReloadedX(a).nametable_x = temp_addr.nametable_x
           /\ Row(ReloadedX(a)) = Row(a)
           /\ ReloadedY(a) \in Address
           /\ ReloadedY(a).coarse_x = a.coarse_x
           /\ ReloadedY(a).nametable_x = a.nametable_x
           /\ ReloadedY(a).coarse_y = temp_addr.coarse_y
           /\ Row(ReloadedY(a)) = Row(temp_addr)
<1>1. /\ ReloadedX(a) \in Address
      /\ ReloadedX(a).coarse_x = temp_addr.coarse_x
      /\ ReloadedX(a).nametable_x = temp_addr.nametable_x
      /\ ReloadedX(a).coarse_y = a.coarse_y
      /\ ReloadedX(a).nametable_y = a.nametable_y
      /\ ReloadedX(a).fine_y = a.fine_y
  BY DEF Address, ReloadedX
<1>2. /\ ReloadedY(a) \in Address
      /\ ReloadedY(a).coarse_x = a.coarse_x
      /\ ReloadedY(a).nametable_x = a.nametable_x
      /\ ReloadedY(a).coarse_y = temp_addr.coarse_y
      /\ ReloadedY(a).nametable_y = temp_addr.nametable_y
      /\ ReloadedY(a).fine_y = temp_addr.fine_y
  BY DEF Address, ReloadedY
<1> QED
  BY <1>1, <1>2 DEF Row

\* ppu_reset() establishes the invariant.
LEMMA ScrollInitEstablishes == ScrollInit => ScrollInv
<1> SUFFICES ASSUME ScrollInit PROVE ScrollInv
  OBVIOUS
<1>1. Decoded(0) \in Address
  BY DecodedType
<1>2. ScrollTypeOK
  <2>1. line \in 0 .. PreRender /\ event \in 1 .. Columns + 3 + Copies
    BY Sizes DEF ScrollInit
  <2>2. vram_addr \in Address /\ temp_addr \in Address
    BY <1>1 DEF ScrollInit
  <2>3. rendering \in BOOLEAN
    BY Zenon DEF ScrollInit
  <2>5. write_latch \in 0 .. 1
    BY DEF ScrollInit
  <2>4. /\ originX \in {None} \cup 0 .. 2 * Columns - 1
        /\ originY \in {None} \cup 0 .. 2 * Lines - 1
    BY DEF ScrollInit
  <2> QED
    BY <2>1, <2>2, <2>3, <2>4, <2>5 DEF ScrollTypeOK
<1>3. BeamOnLine
  BY Sizes DEF ScrollInit, BeamOnLine, LastEvent, CopiesOf
<1>4. HistoryKept /\ RowReloaded /\ RowShown /\ ColumnShown
  BY DEF ScrollInit, HistoryKept, RowReloaded, RowShown, ColumnShown
<1> QED
  BY <1>2, <1>3, <1>4 DEF ScrollInv

-----------------------------------------------------------------------------
(***************************************************************************)
(* The beam's steps.                                                       *)
(***************************************************************************)

\* Where NextEvent takes the beam.
LEMMA BeamMoves ==
    ASSUME ScrollTypeOK, BeamOnLine, Picture, NextEvent
    PROVE  /\ BeamOnLine'
           /\ line \in 0 .. PreRender /\ line # Blank /\ event \in 1 .. LastEvent
           /\ LastEvent = Columns + 3 + CopiesOf(line) /\ CopiesOf(line) \in Nat
           /\ line' \in 0 .. PreRender
           /\ \/ event < LastEvent /\ event' = event + 1 /\ line' = line
              \/ /\ event = LastEvent /\ event' = 1
                 /\ line' = IF line = PreRender THEN 0 ELSE line + 1
<1>1. /\ line \in 0 .. PreRender /\ line # Blank /\ event \in 1 .. LastEvent
      /\ LastEvent = Columns + 3 + CopiesOf(line)
  BY DEF ScrollTypeOK, BeamOnLine, Picture, LastEvent
<1>2. CopiesOf(line) \in Nat /\ CopiesOf(line') \in Nat
  BY Sizes DEF CopiesOf
<1>3. CASE event = LastEvent
  <2>1. event' = 1 /\ line' = IF line = PreRender THEN 0 ELSE line + 1
    BY <1>3 DEF NextEvent
  <2>2. line' \in 0 .. PreRender
    BY <2>1, <1>1, Sizes
  <2>3. BeamOnLine'
    BY <2>1, <1>2, Sizes DEF BeamOnLine, LastEvent
  <2> QED
    BY <1>1, <1>2, <1>3, <2>1, <2>2, <2>3
<1>4. CASE event # LastEvent
  <2>1. event' = event + 1 /\ line' = line
    BY <1>4 DEF NextEvent
  <2>2. LastEvent' = LastEvent
    BY <2>1 DEF LastEvent, CopiesOf
  <2>3. event < LastEvent /\ event' \in 1 .. LastEvent
    BY <1>1, <1>2, <1>4, <2>1, Sizes
  <2>4. BeamOnLine'
    BY <1>1, <2>1, <2>2, <2>3 DEF BeamOnLine
  <2> QED
    BY <1>1, <1>2, <2>1, <2>3, <2>4
<1> QED
  BY <1>3, <1>4

\* The dots keep the types.
LEMMA DotType == ScrollInv /\ Dot => ScrollTypeOK' /\ BeamOnLine'
<1> SUFFICES ASSUME ScrollInv, Dot PROVE ScrollTypeOK' /\ BeamOnLine'
  OBVIOUS
<1>1. Picture /\ NextEvent /\ UNCHANGED <<temp_addr, write_latch, rendering>>
  BY DEF Dot, FetchTile, ReloadX, ReloadY, Prefetch
<1>2. ScrollTypeOK /\ BeamOnLine /\ vram_addr \in Address /\ temp_addr \in Address
  BY DEF ScrollInv, ScrollTypeOK
<1>3. BeamOnLine' /\ line' \in 0 .. PreRender
  BY <1>1, <1>2, BeamMoves
<1>4. event' \in 1 .. Columns + 3 + Copies
  <2>1. event' \in 1 .. Columns + 3 + CopiesOf(line')
    BY <1>3 DEF BeamOnLine, LastEvent
  <2>2. CopiesOf(line') \in 0 .. Copies
    BY Sizes DEF CopiesOf
  <2> QED
    BY <2>1, <2>2, Sizes
<1>5. vram_addr' \in Address
  <2>1. CASE FetchTile
    <3>1. IncrementedX(vram_addr) \in Address
      BY <1>2, XSteps
    <3>2. IncrementedY(IncrementedX(vram_addr)) \in Address
      BY <3>1, YType
    <3> QED
      BY <1>2, <2>1, <3>1, <3>2 DEF FetchTile
  <2>2. CASE ReloadX
    BY <1>2, <2>2, ReloadTypes DEF ReloadX
  <2>3. CASE ReloadY
    BY <1>2, <2>3, ReloadTypes DEF ReloadY
  <2>4. CASE Prefetch
    BY <1>2, <2>4, XSteps DEF Prefetch
  <2> QED
    BY <2>1, <2>2, <2>3, <2>4 DEF Dot
<1>6. originX' \in {None} \cup 0 .. 2 * Columns - 1
  <2>1. originX \in {None} \cup 0 .. 2 * Columns - 1
    BY <1>2 DEF ScrollTypeOK
  <2>2. Column(temp_addr) \in 0 .. 2 * Columns - 1
    BY <1>2, Sizes DEF Address, Column
  <2>3. originX' \in {originX, Column(temp_addr)}
    BY DEF Dot, FetchTile, ReloadX, ReloadY, Prefetch, origins
  <2> QED
    BY <2>1, <2>2, <2>3
<1>7. originY' \in {None} \cup 0 .. 2 * Lines - 1
  <2>1. originY \in {None} \cup 0 .. 2 * Lines - 1
    BY <1>2 DEF ScrollTypeOK
  <2>2. temp_addr.coarse_y < Rows => Row(temp_addr) \in 0 .. 2 * Lines - 1
    BY <1>2, RowForm
  <2>3. \/ originY' = originY
        \/ originY' = IF temp_addr.coarse_y < Rows THEN Row(temp_addr) ELSE None
    BY DEF Dot, FetchTile, ReloadX, ReloadY, Prefetch, origins
  <2> QED
    BY <2>1, <2>2, <2>3
<1> QED
  BY <1>1, <1>2, <1>3, <1>4, <1>5, <1>6, <1>7 DEF ScrollTypeOK

\* ColumnShown of an address, an origin and a number of tiles; and two
\* addresses in the same column.
Shown(a, o, n) ==
    /\ a.coarse_x = (o + n) % Columns
    /\ (o % Columns) + n < Columns => Column(a) = o + n
Abreast(a, b) == a.coarse_x = b.coarse_x /\ Column(a) = Column(b)

\* increment_scroll_x() keeps to the columns that ColumnShown names.
LEMMA ShownNext ==
    ASSUME NEW a \in Address, NEW o \in Nat, NEW n \in Nat, Shown(a, o, n)
    PROVE  Shown(IncrementedX(a), o, n + 1)
<1> DEFINE q == o \div Columns
           r == o % Columns
<1>1. /\ Columns \in Nat \ {0} /\ o = Columns * q + r /\ q \in Nat
      /\ r \in 0 .. Columns - 1
  BY Sizes, DivMod
<1>2. o + (n + 1) = (o + n) + 1 /\ o + n \in Nat /\ r + (n + 1) = (r + n) + 1
  BY <1>1
<1>3. ((o + n) + 1) % Columns = IF (o + n) % Columns = Columns - 1 THEN 0
                                ELSE ((o + n) % Columns) + 1
  BY <1>1, <1>2, ModStep
<1>4. IncrementedX(a).coarse_x = (o + (n + 1)) % Columns
  BY <1>2, <1>3, XSteps DEF Shown
<1>5. ASSUME r + (n + 1) < Columns
      PROVE  Column(IncrementedX(a)) = o + (n + 1)
  <2>1. r + n \in 0 .. Columns - 1 /\ r + n # Columns - 1
    BY <1>1, <1>2, <1>5
  <2>2. o + n = Columns * q + (r + n)
    <3>1. Columns * q \in Nat
      BY <1>1
    <3> QED
      BY <1>1, <3>1
  <2>3. (o + n) % Columns = r + n
    <3> DEFINE c == o + n
               s == r + n
    <3> HIDE DEF q, r, c, s
    <3>1. /\ c \in Nat /\ q \in Nat /\ s \in 0 .. Columns - 1
          /\ c = Columns * q + s /\ Columns \in Nat \ {0}
      BY <1>1, <1>2, <2>1, <2>2 DEF c, s
    <3>2. c % Columns = s
      BY <3>1, DivModUnique
    <3> QED
      BY <3>2 DEF c, s
  <2>4. a.coarse_x # Columns - 1 /\ Column(a) = o + n
    BY <2>1, <2>3, <1>1 DEF Shown
  <2> QED
    BY <1>2, <2>4, XSteps
<1> QED
  BY <1>4, <1>5 DEF Shown

\* The dots keep the column where ColumnShown says.
LEMMA DotColumn == ScrollInv /\ Dot => ColumnShown' /\ (originX' # None => rendering')
<1> SUFFICES ASSUME ScrollInv, Dot, originX' # None
             PROVE  rendering' /\ Shown(vram_addr', originX', Fetched')
  BY DEF ColumnShown, Shown
<1>1. Picture /\ NextEvent /\ UNCHANGED <<temp_addr, write_latch, rendering>>
  BY DEF Dot, FetchTile, ReloadX, ReloadY, Prefetch
<1>2. /\ ScrollTypeOK /\ BeamOnLine /\ HistoryKept /\ ColumnShown
      /\ vram_addr \in Address /\ temp_addr \in Address
      /\ originX \in {None} \cup 0 .. 2 * Columns - 1
  BY DEF ScrollInv, ScrollTypeOK
<1> DEFINE copies == CopiesOf(line)
<1>3. /\ line \in 0 .. PreRender /\ line # Blank /\ event \in 1 .. Columns + 3 + copies
      /\ copies \in Nat
      /\ \/ event < Columns + 3 + copies /\ event' = event + 1 /\ line' = line
         \/ event = Columns + 3 + copies /\ event' = 1
  BY <1>1, <1>2, BeamMoves
<1>4. line' = line => CopiesOf(line') = copies
  OBVIOUS
<1>5. Fetched = IF line = Blank \/ event <= Columns + 1 THEN event + 1
                ELSE IF event <= Columns + 2 + copies THEN 0 ELSE 1
  BY DEF Fetched
<1>6. Fetched' = IF line' = Blank \/ event' <= Columns + 1 THEN event' + 1
                 ELSE IF event' <= Columns + 2 + CopiesOf(line') THEN 0 ELSE 1
  BY DEF Fetched
<1> HIDE DEF copies
\* Unless x is reloaded, the column moves on whenever a tile is counted.
<1>7. ASSUME originX' = originX,
             \/ Abreast(vram_addr', vram_addr) /\ Fetched' = Fetched
             \/ /\ rendering => Abreast(vram_addr', IncrementedX(vram_addr))
                /\ Fetched' = Fetched + 1
      PROVE  rendering' /\ Shown(vram_addr', originX', Fetched')
  <2>1. originX # None /\ rendering /\ originX \in Nat
    BY <1>2, <1>7 DEF HistoryKept
  <2>2. Shown(vram_addr, originX, Fetched)
    BY <1>2, <2>1 DEF ColumnShown, Shown
  <2>3. Fetched \in Nat
    BY <1>3, <1>5
  <2>4. Shown(IncrementedX(vram_addr), originX, Fetched + 1)
    BY <1>2, <2>1, <2>2, <2>3, ShownNext
  <2>5. rendering'
    BY <1>1, <2>1
  <2> QED
    BY <1>7, <2>1, <2>2, <2>4, <2>5 DEF Shown, Abreast
<1>8. CASE FetchTile
  <2>1. event <= Columns /\ originX' = originX
    BY <1>8 DEF FetchTile, origins
  <2>2. Fetched' = Fetched + 1
    BY <1>3, <1>5, <1>6, <2>1, Sizes
  <2>3. rendering => Abreast(vram_addr', IncrementedX(vram_addr))
    BY <1>8, <1>2, XSteps, YType DEF FetchTile, Abreast, Column
  <2> QED
    BY <1>7, <2>1, <2>2, <2>3
<1>9. CASE ReloadX
  <2>1. event = Columns + 1
    BY <1>9 DEF ReloadX
  <2>2. CASE rendering
    <3>1. originX' = Column(temp_addr) /\ vram_addr' = ReloadedX(vram_addr)
      BY <1>9, <2>2 DEF ReloadX
    <3>2. Fetched' = 0
      BY <1>3, <1>4, <1>6, <2>1, Sizes
    <3>3. /\ Column(temp_addr) \in Nat /\ Column(temp_addr) + 0 = Column(temp_addr)
          /\ Column(temp_addr) % Columns = temp_addr.coarse_x
      BY <1>2, Sizes, ColumnForm
    <3>4. Abreast(vram_addr', temp_addr)
      BY <3>1, <1>2, ReloadTypes DEF Abreast, Column
    <3>5. rendering'
      BY <1>1, <2>2
    <3> QED
      BY <3>1, <3>2, <3>3, <3>4, <3>5 DEF Shown, Abreast
  <2>3. CASE ~rendering
    <3>1. originX' = originX
      BY <1>9, <2>3 DEF ReloadX
    <3> QED
      BY <3>1, <2>3, <1>2 DEF HistoryKept
  <2> QED
    BY <2>2, <2>3
<1>10. CASE ReloadY
  <2>1. event > Columns + 1 /\ event <= Columns + 1 + copies /\ originX' = originX
    BY <1>10 DEF ReloadY, copies
  <2>2. Fetched' = Fetched
    BY <1>3, <1>4, <1>5, <1>6, <2>1, Sizes
  <2>3. Abreast(vram_addr', vram_addr)
    BY <1>10, <1>2, ReloadTypes DEF ReloadY, Abreast, Column
  <2> QED
    BY <1>7, <2>1, <2>2, <2>3
<1>11. CASE Prefetch
  <2>1. event > Columns + 1 + copies /\ originX' = originX
    BY <1>11 DEF Prefetch, origins, copies
  <2>2. Fetched' = Fetched + 1
    <3>1. CASE event < Columns + 3 + copies
      BY <1>3, <1>4, <1>5, <1>6, <2>1, <3>1, Sizes
    <3>2. CASE event = Columns + 3 + copies
      BY <1>3, <1>5, <1>6, <2>1, <3>2, Sizes
    <3> QED
      BY <3>1, <3>2, <1>3
  <2>3. rendering => Abreast(vram_addr', IncrementedX(vram_addr))
    BY <1>11 DEF Prefetch, Abreast
  <2> QED
    BY <1>7, <2>1, <2>2, <2>3
<1> QED
  BY <1>8, <1>9, <1>10, <1>11 DEF Dot

\* The dots keep the row where RowShown says.
LEMMA DotRow == ScrollInv /\ Dot =>
    /\ RowShown' /\ RowReloaded'
    /\ originY' # None => rendering' /\ vram_addr'.coarse_y < Rows
<1> SUFFICES ASSUME ScrollInv, Dot, originY' # None
             PROVE  /\ RowShown' /\ RowReloaded'
                    /\ rendering' /\ vram_addr'.coarse_y < Rows
  BY DEF RowShown, RowReloaded
<1>1. Picture /\ NextEvent /\ UNCHANGED <<temp_addr, write_latch, rendering>>
  BY DEF Dot, FetchTile, ReloadX, ReloadY, Prefetch
<1>2. /\ ScrollTypeOK /\ BeamOnLine /\ HistoryKept /\ RowShown /\ RowReloaded
      /\ vram_addr \in Address /\ temp_addr \in Address
      /\ originY \in {None} \cup 0 .. 2 * Lines - 1
  BY DEF ScrollInv, ScrollTypeOK
<1> DEFINE copies == CopiesOf(line)
<1>3. /\ line \in 0 .. PreRender /\ line # Blank /\ event \in 1 .. Columns + 3 + copies
      /\ copies \in Nat
      /\ \/ event < Columns + 3 + copies /\ event' = event + 1 /\ line' = line
         \/ /\ event = Columns + 3 + copies /\ event' = 1
            /\ line' = IF line = PreRender THEN 0 ELSE line + 1
  BY <1>1, <1>2, BeamMoves
<1>4. line < Lines \/ line = PreRender
  BY <1>3, Sizes
<1>5. line < Lines => copies = 0
  BY Sizes, <1>3 DEF CopiesOf
<1>6. RowsDone \in 0 .. 1 /\ RowsDone' \in 0 .. 1
  BY DEF RowsDone
<1>7. /\ RowsDone = IF event > Columns THEN 1 ELSE 0
      /\ RowsDone' = IF event' > Columns THEN 1 ELSE 0
  BY DEF RowsDone
<1> HIDE DEF copies
\* Away from ReloadY the history stays, and so does what it says.
<1>8. ASSUME originY' = originY
      PROVE  /\ originY \in 0 .. 2 * Lines - 1 /\ rendering /\ rendering'
             /\ vram_addr.coarse_y < Rows
             /\ Row(vram_addr) \in 0 .. 2 * Lines - 1
             /\ line < Lines =>
                   Row(vram_addr) = (originY + line + RowsDone) % (2 * Lines)
             /\ line = PreRender /\ event > Columns + 2 => Row(vram_addr) = originY
  <2>1. originY # None
    BY <1>8
  <2>2. rendering /\ vram_addr.coarse_y < Rows
    BY <1>2, <2>1 DEF HistoryKept
  <2>3. Row(vram_addr) \in 0 .. 2 * Lines - 1
    BY <1>2, <2>2, RowForm
  <2>4. rendering'
    BY <1>1, <2>2
  <2> QED
    BY <1>2, <2>1, <2>2, <2>3, <2>4 DEF RowShown, RowReloaded
<1>9. CASE ReloadY
  <2>1. event > Columns + 1 /\ event <= Columns + 1 + copies
    BY <1>9 DEF ReloadY, copies
  <2>2. line = PreRender /\ line' = line
    BY <1>3, <1>4, <1>5, <2>1, Sizes
  <2>3. RowShown'
    BY <2>2, Sizes DEF RowShown
  <2>4. rendering
    BY <1>2, <1>9 DEF ReloadY, HistoryKept
  <2>5. /\ vram_addr' = ReloadedY(vram_addr)
        /\ originY' = Row(temp_addr) /\ temp_addr.coarse_y < Rows
    BY <1>9, <2>4 DEF ReloadY
  <2>6. Row(vram_addr') = originY' /\ vram_addr'.coarse_y < Rows
    BY <2>5, <1>2, ReloadTypes
  <2>7. rendering'
    BY <1>1, <2>4
  <2>8. RowReloaded'
    BY <2>6 DEF RowReloaded
  <2> QED
    BY <2>3, <2>6, <2>7, <2>8
<1>10. CASE FetchTile /\ event = Columns
  <2>1. originY' = originY /\ event' = event + 1 /\ line' = line
    BY <1>3, <1>10, Sizes DEF FetchTile, origins
  <2>2. RowsDone = 0 /\ RowsDone' = 1
    BY <1>3, <1>7, <1>10, <2>1, Sizes
  <2> DEFINE over == IncrementedX(vram_addr)
  <2>3. rendering /\ vram_addr' = IncrementedY(over)
    BY <1>8, <1>10, <2>1 DEF FetchTile
  <2>4. over \in Address /\ over.coarse_y < Rows /\ Row(over) = Row(vram_addr)
    BY <1>2, <1>8, <2>1, XSteps
  <2> HIDE DEF over
  <2>5. /\ vram_addr'.coarse_y < Rows
        /\ Row(vram_addr') = IF Row(over) = 2 * Lines - 1 THEN 0 ELSE Row(over) + 1
    BY <2>3, <2>4, YType, YSteps
  <2>6. line < Lines => Row(vram_addr') = (originY + line + 1) % (2 * Lines)
    <3> SUFFICES ASSUME line < Lines PROVE Row(vram_addr') = (originY + line + 1) % (2 * Lines)
      OBVIOUS
    <3>1. originY + line \in Nat /\ 2 * Lines \in Nat \ {0} /\ originY + line + 0 = originY + line
      BY <1>3, <1>8, <2>1, Sizes
    <3>2. Row(vram_addr) = (originY + line) % (2 * Lines)
      BY <1>8, <2>1, <2>2, <3>1
    <3>3. (originY + line + 1) % (2 * Lines) =
              IF (originY + line) % (2 * Lines) = 2 * Lines - 1 THEN 0
              ELSE ((originY + line) % (2 * Lines)) + 1
      BY <3>1, ModStep
    <3> QED
      BY <2>4, <2>5, <3>2, <3>3
  <2>7. RowShown'
    BY <2>1, <2>2, <2>6 DEF RowShown
  <2>8. RowReloaded'
    <3>1. ~(event' > Columns + 2)
      BY <1>10, <2>1, Sizes
    <3> QED
      BY <3>1 DEF RowReloaded
  <2> QED
    BY <1>8, <2>1, <2>5, <2>7, <2>8
\* The other dots leave the row alone.
<1>11. CASE (FetchTile /\ event # Columns) \/ ReloadX \/ Prefetch
  <2>1. originY' = originY
    BY <1>11 DEF FetchTile, ReloadX, Prefetch, origins
  <2>2. vram_addr' \in {IncrementedX(vram_addr), ReloadedX(vram_addr)}
    BY <1>8, <1>11, <2>1 DEF FetchTile, ReloadX, Prefetch
  <2>3. Row(vram_addr') = Row(vram_addr) /\ vram_addr'.coarse_y = vram_addr.coarse_y
    BY <1>2, <2>2, XSteps, ReloadTypes
  <2>4. \/ event < Columns
        \/ event = Columns + 1
        \/ event > Columns + 1 + copies
    BY <1>3, <1>11, Sizes DEF FetchTile, ReloadX, Prefetch, copies
  <2>5. CASE event < Columns + 3 + copies
    <3>1. event' = event + 1 /\ line' = line
      BY <1>3, <2>5
    <3>2. RowsDone' = RowsDone
      BY <1>3, <1>7, <2>4, <3>1, Sizes
    <3>3. RowShown'
      BY <1>8, <2>1, <2>3, <3>1, <3>2 DEF RowShown
    <3>4. line = PreRender => copies = Copies
      BY DEF copies, CopiesOf
    <3>5. line = PreRender /\ event' > Columns + 2 => event > Columns + 2
      BY <1>3, <2>4, <3>1, <3>4, Sizes
    <3>6. RowReloaded'
      BY <1>8, <2>1, <2>3, <3>1, <3>5 DEF RowReloaded
    <3> QED
      BY <1>8, <2>1, <2>3, <3>3, <3>6
  <2>6. CASE event = Columns + 3 + copies
    <3>1. event' = 1 /\ line' = IF line = PreRender THEN 0 ELSE line + 1
      BY <1>3, <2>6, Sizes
    <3>2. RowsDone = 1 /\ RowsDone' = 0
      BY <1>3, <1>7, <2>6, <3>1, Sizes
    <3>3. RowReloaded'
      <4>1. ~(event' > Columns + 2)
        BY <3>1, Sizes
      <4> QED
        BY <4>1 DEF RowReloaded
    <3>4. CASE line = PreRender
      <4>1. Row(vram_addr) = originY
        BY <1>3, <1>8, <2>1, <2>6, <3>4, Sizes
      <4>2. /\ originY \in Nat /\ originY \in 0 .. 2 * Lines - 1 /\ 2 * Lines \in Nat \ {0}
            /\ originY + 0 + 0 = originY /\ originY = (2 * Lines) * 0 + originY
        BY <1>8, <2>1, Sizes
      <4>3. originY % (2 * Lines) = originY
        BY <4>2, DivModUnique, 0 \in Nat
      <4>4. line' = 0
        BY <3>1, <3>4
      <4>5. RowShown'
        BY <2>1, <2>3, <3>2, <4>1, <4>2, <4>3, <4>4 DEF RowShown
      <4> QED
        BY <1>8, <2>1, <2>3, <3>3, <4>5
    <3>5. CASE line < Lines
      <4>1. line' = line + 1 /\ originY + (line + 1) + 0 = originY + line + 1
        BY <1>3, <1>8, <2>1, <3>1, <3>5, Sizes
      <4>2. Row(vram_addr) = (originY + line + 1) % (2 * Lines)
        BY <1>8, <2>1, <3>2, <3>5
      <4>3. RowShown'
        BY <2>1, <2>3, <3>2, <4>1, <4>2 DEF RowShown
      <4> QED
        BY <1>8, <2>1, <2>3, <3>3, <4>3
    <3> QED
      BY <1>4, <3>4, <3>5
  <2> QED
    BY <1>3, <2>5, <2>6
<1> QED
  BY <1>9, <1>10, <1>11 DEF Dot

\* Every dot keeps the invariant.
LEMMA DotKeeps == ScrollInv /\ Dot => ScrollInv'
BY DotType, DotColumn, DotRow DEF ScrollInv, HistoryKept

\* So do the lines below the picture, which leave the address alone.
LEMMA BlankKeeps == ScrollInv /\ BlankLines => ScrollInv'
<1> SUFFICES ASSUME ScrollInv, BlankLines PROVE ScrollInv'
  OBVIOUS
<1>1. /\ line = Blank /\ line' = PreRender /\ event = 1 /\ event' = 1
      /\ UNCHANGED <<vram_addr, temp_addr, write_latch, rendering, originX, originY>>
  BY DEF BlankLines, addresses, origins, ScrollInv, BeamOnLine
<1>2. ScrollTypeOK'
  <2>1. line' \in 0 .. PreRender /\ event' \in 1 .. Columns + 3 + Copies
    BY <1>1, Sizes
  <2> QED
    BY <1>1, <2>1 DEF ScrollInv, ScrollTypeOK
<1>3. BeamOnLine'
  BY <1>1, Sizes DEF BeamOnLine, LastEvent, CopiesOf
<1>4. HistoryKept'
  BY <1>1 DEF ScrollInv, HistoryKept
<1>5. RowReloaded' /\ RowShown'
  BY <1>1, Sizes DEF RowReloaded, RowShown
<1>6. Fetched' = Fetched
  BY <1>1, Sizes DEF Fetched
<1>7. ColumnShown'
  BY <1>1, <1>6 DEF ScrollInv, ColumnShown
<1> QED
  BY <1>2, <1>3, <1>4, <1>5, <1>7 DEF ScrollInv

-----------------------------------------------------------------------------
(***************************************************************************)
(* The ROM's steps.                                                        *)
(***************************************************************************)

\* A step that leaves beam, address and history alone.
LEMMA WriteKeeps ==
    ASSUME ScrollInv, UNCHANGED <<beam, vram_addr, rendering, origins>>,
           temp_addr' \in Address, write_latch' \in 0 .. 1
    PROVE  ScrollInv'
<1>1. UNCHANGED <<line, event, vram_addr, rendering, originX, originY>>
  BY DEF beam, origins
<1>2. ScrollTypeOK'
  BY <1>1 DEF ScrollInv, ScrollTypeOK
<1>3. BeamOnLine'
  BY <1>1 DEF ScrollInv, BeamOnLine, LastEvent, CopiesOf
<1>4. HistoryKept' /\ RowReloaded'
  BY <1>1 DEF ScrollInv, HistoryKept, RowReloaded
<1>5. RowShown' /\ ColumnShown'
  <2>1. RowsDone' = RowsDone /\ Fetched' = Fetched
    BY <1>1 DEF RowsDone, Fetched, CopiesOf
  <2> QED
    BY <1>1, <2>1 DEF ScrollInv, RowShown, ColumnShown
<1> QED
  BY <1>2, <1>3, <1>4, <1>5 DEF ScrollInv

\* A step that ends the history.
LEMMA ForgetKeeps ==
    ASSUME ScrollInv, UNCHANGED beam, Forget,
           vram_addr' \in Address, temp_addr' \in Address,
           write_latch' \in 0 .. 1, rendering' \in BOOLEAN
    PROVE  ScrollInv'
<1>1. UNCHANGED <<line, event>> /\ originX' = None /\ originY' = None
  BY DEF beam, Forget
<1>2. ScrollTypeOK'
  BY <1>1 DEF ScrollInv, ScrollTypeOK
<1>3. BeamOnLine'
  BY <1>1 DEF ScrollInv, BeamOnLine, LastEvent, CopiesOf
<1>4. HistoryKept' /\ RowReloaded' /\ RowShown' /\ ColumnShown'
  BY <1>1 DEF HistoryKept, RowReloaded, RowShown, ColumnShown
<1> QED
  BY <1>2, <1>3, <1>4 DEF ScrollInv

\* Any byte written to $2005 fits the fields it is split into.
LEMMA ScrollWriteType == ScrollInv /\ SetScroll => temp_addr' \in Address
<1> SUFFICES ASSUME ScrollInv, SetScroll PROVE temp_addr' \in Address
  OBVIOUS
<1>1. temp_addr \in Address
  BY DEF ScrollInv, ScrollTypeOK
<1>2. CASE write_latch = 0
  <2>1. PICK x \in XScrolls : temp_addr' = [temp_addr EXCEPT !.coarse_x = x]
    BY <1>2 DEF SetScroll
  <2>2. x \in 0 .. Columns - 1
    BY ScrollAssumption
  <2> QED
    BY <1>1, <2>1, <2>2 DEF Address
<1>3. CASE write_latch # 0
  <2>1. PICK y \in YScrolls :
            temp_addr' = [temp_addr EXCEPT !.fine_y = y % FineRows,
                                           !.coarse_y = y \div FineRows]
    BY <1>3 DEF SetScroll
  <2>2. y \in Nat /\ y < CoarseRows * FineRows /\ FineRows \in Nat \ {0}
    BY ScrollAssumption, Sizes
  <2> DEFINE q == y \div FineRows
  <2>3. /\ y % FineRows \in 0 .. FineRows - 1 /\ q \in Nat
        /\ y = FineRows * q + (y % FineRows)
    BY <2>2, DivMod
  <2> HIDE DEF q
  <2>4. q < CoarseRows
    <3>1. CASE q = CoarseRows
      <4>1. FineRows * q = CoarseRows * FineRows /\ FineRows * q \in Nat
        BY <3>1, Sizes
      <4> QED
        BY <2>2, <2>3, <4>1
    <3>2. CASE CoarseRows < q
      <4>1. FineRows * CoarseRows + FineRows <= FineRows * q
        BY <2>3, <3>2, Sizes, ProductGap
      <4>2. FineRows * CoarseRows = CoarseRows * FineRows /\ FineRows * CoarseRows \in Nat
        BY Sizes
      <4>3. FineRows * q \in Nat
        BY <2>3, Sizes
      <4> QED
        BY <2>2, <2>3, <4>1, <4>2, <4>3
    <3> QED
      BY <3>1, <3>2, <2>3, Sizes
  <2>5. q \in 0 .. CoarseRows - 1
    BY <2>3, <2>4, Sizes
  <2>6. temp_addr' = [temp_addr EXCEPT !.fine_y = y % FineRows, !.coarse_y = q]
    BY <2>1 DEF q
  <2> QED
    BY <1>1, <2>3, <2>5, <2>6 DEF Address
<1> QED
  BY <1>2, <1>3

\* The first write to $2006.
LEMMA HighByteType == ScrollInv /\ SetAddressHigh => temp_addr' \in Address
<1> SUFFICES ASSUME ScrollInv, SetAddressHigh PROVE temp_addr' \in Address
  OBVIOUS
<1>1. temp_addr \in Address
  BY DEF ScrollInv, ScrollTypeOK
<1> DEFINE Y(a) == (a.coarse_y \div LowRows) * LowRows + (temp_addr.coarse_y % LowRows)
           F(a) == a.fine_y % ((FineRows + 1) \div 2)
<1>2. PICK n \in Targets :
          temp_addr' = [Decoded(n) EXCEPT !.coarse_x = temp_addr.coarse_x,
                           !.coarse_y = Y(Decoded(n)), !.fine_y = F(Decoded(n))]
  BY DEF SetAddressHigh
<1>3. Decoded(n) \in Address
  BY ScrollAssumption, DecodedType
<1>4. PICK a \in Address : a = Decoded(n)
  BY <1>3
<1>5. /\ a.coarse_y \in 0 .. CoarseRows - 1 /\ a.fine_y \in 0 .. FineRows - 1
      /\ temp_addr.coarse_x \in 0 .. Columns - 1
      /\ temp_addr.coarse_y \in 0 .. CoarseRows - 1
  BY <1>1 DEF Address
<1>6. Y(a) \in 0 .. CoarseRows - 1
  BY <1>5, SplitBits
<1>7. F(a) \in 0 .. FineRows - 1
  <2>1. /\ (FineRows + 1) \div 2 \in Nat \ {0} /\ (FineRows + 1) \div 2 <= FineRows
    BY Sizes
  <2>2. F(a) \in 0 .. ((FineRows + 1) \div 2) - 1
    <3>1. a.fine_y \in Nat
      BY <1>5, Sizes
    <3> QED
      BY <2>1, <3>1, DivMod
  <2> QED
    BY <2>1, <2>2, Sizes
<1> HIDE DEF Y, F
<1>8. temp_addr' = [a EXCEPT !.coarse_x = temp_addr.coarse_x,
                             !.coarse_y = Y(a), !.fine_y = F(a)]
  BY <1>2, <1>4
<1> QED
  BY <1>5, <1>6, <1>7, <1>8 DEF Address

\* The second write to $2006.
LEMMA LowByteType == ScrollInv /\ SetAddressLow => temp_addr' \in Address
<1> SUFFICES ASSUME ScrollInv, SetAddressLow PROVE temp_addr' \in Address
  OBVIOUS
<1>1. temp_addr \in Address
  BY DEF ScrollInv, ScrollTypeOK
<1> DEFINE Y(a) == (temp_addr.coarse_y \div LowRows) * LowRows + (a.coarse_y % LowRows)
<1>2. PICK n \in Targets :
          temp_addr' = [temp_addr EXCEPT !.coarse_x = Decoded(n).coarse_x,
                                         !.coarse_y = Y(Decoded(n))]
  BY DEF SetAddressLow
<1>3. Decoded(n) \in Address
  BY ScrollAssumption, DecodedType
<1>4. PICK a \in Address : a = Decoded(n)
  BY <1>3
<1>5. /\ a.coarse_y \in 0 .. CoarseRows - 1 /\ a.coarse_x \in 0 .. Columns - 1
      /\ temp_addr.coarse_y \in 0 .. CoarseRows - 1
  BY <1>1 DEF Address
<1>6. Y(a) \in 0 .. CoarseRows - 1
  BY <1>5, SplitBits
<1> HIDE DEF Y
<1>7. temp_addr' = [temp_addr EXCEPT !.coarse_x = a.coarse_x, !.coarse_y = Y(a)]
  BY <1>2, <1>4
<1> QED
  BY <1>1, <1>5, <1>6, <1>7 DEF Address

\* Every register access keeps the invariant, at whatever dot it comes.
LEMMA RomKeeps ==
    ScrollInv /\ (\/ SetCtrl \/ SetMask \/ ReadStatus \/ SetScroll
                  \/ SetAddressHigh \/ SetAddressLow \/ AccessData) => ScrollInv'
<1> SUFFICES ASSUME ScrollInv,
                    \/ SetCtrl \/ SetMask \/ ReadStatus \/ SetScroll
                    \/ SetAddressHigh \/ SetAddressLow \/ AccessData
             PROVE  ScrollInv'
  OBVIOUS
<1>1. /\ vram_addr \in Address /\ temp_addr \in Address
      /\ write_latch \in 0 .. 1
  BY DEF ScrollInv, ScrollTypeOK
<1>2. rendering \in BOOLEAN
  BY Zenon DEF ScrollInv, ScrollTypeOK
<1>3. CASE SetCtrl
  <2>1. PICK nx \in 0 .. 1, ny \in 0 .. 1 :
            temp_addr' = [temp_addr EXCEPT !.nametable_x = nx, !.nametable_y = ny]
    BY <1>3 DEF SetCtrl
  <2>2. temp_addr' \in Address
    BY <1>1, <2>1 DEF Address
  <2> QED
    BY <1>1, <1>3, <2>2, WriteKeeps DEF SetCtrl
<1>4. CASE SetMask
  <2>1. rendering' \in BOOLEAN
    BY <1>4, Zenon DEF SetMask
  <2> QED
    BY <1>1, <1>4, <2>1, ForgetKeeps DEF SetMask, addresses
<1>5. CASE ReadStatus
  <2>1. write_latch' = 0 /\ UNCHANGED <<beam, vram_addr, temp_addr, rendering, origins>>
    BY <1>5, Zenon DEF ReadStatus
  <2>2. temp_addr' \in Address /\ write_latch' \in 0 .. 1
    BY <1>1, <2>1
  <2> QED
    BY <2>1, <2>2, WriteKeeps
<1>6. CASE SetScroll
  <2>1. write_latch' \in 0 .. 1
    <3>1. write_latch' = 1 - write_latch
      BY <1>6, Zenon DEF SetScroll
    <3> QED
      BY <1>1, <3>1
  <2> QED
    BY <1>6, <2>1, ScrollWriteType, WriteKeeps DEF SetScroll
<1>7. CASE SetAddressHigh
  <2>1. write_latch' = 1 /\ UNCHANGED <<beam, vram_addr, rendering, origins>>
    BY <1>7, Zenon DEF SetAddressHigh
  <2>2. temp_addr' \in Address /\ write_latch' \in 0 .. 1
    BY <1>7, <2>1, HighByteType
  <2> QED
    BY <2>1, <2>2, WriteKeeps
<1>8. CASE SetAddressLow
  <2>1. temp_addr' \in Address /\ vram_addr' \in Address
    BY <1>8, LowByteType DEF SetAddressLow
  <2>2. rendering' \in BOOLEAN /\ UNCHANGED beam /\ Forget
    BY <1>2, <1>8 DEF SetAddressLow
  <2>3. write_latch' \in 0 .. 1
    <3>1. write_latch' = 0
      BY <1>8, Zenon DEF SetAddressLow
    <3> QED
      BY <3>1
  <2> QED
    BY <2>1, <2>2, <2>3, ForgetKeeps
<1>9. CASE AccessData
  <2>1. PICK increment \in {1, Columns} :
            vram_addr' = Decoded(Encoded(vram_addr) + increment)
    BY <1>9 DEF AccessData
  <2>2. Encoded(vram_addr) + increment \in Nat
    BY <1>1, EncodedType, Sizes
  <2>3. vram_addr' \in Address
    BY <2>1, <2>2, DecodedType
  <2>4. rendering' \in BOOLEAN /\ UNCHANGED beam /\ Forget
    BY <1>2, <1>9 DEF AccessData
  <2>5. temp_addr' \in Address /\ write_latch' \in 0 .. 1
    BY <1>1, <1>9 DEF AccessData
  <2> QED
    BY <2>3, <2>4, <2>5, ForgetKeeps
<1> QED
  BY <1>3, <1>4, <1>5, <1>6, <1>7, <1>8, <1>9

\* So does a step of another part of the program.
LEMMA ScrollStutters == ScrollInv /\ UNCHANGED scrollVars => ScrollInv'
<1> SUFFICES ASSUME ScrollInv, UNCHANGED scrollVars PROVE ScrollInv'
  OBVIOUS
<1>1. /\ UNCHANGED <<beam, vram_addr, rendering, origins>>
      /\ UNCHANGED <<temp_addr, write_latch>>
  BY DEF scrollVars, addresses
<1>2. temp_addr' \in Address /\ write_latch' \in 0 .. 1
  BY <1>1 DEF ScrollInv, ScrollTypeOK
<1> QED
  BY <1>1, <1>2, WriteKeeps

\* The conjunction of the invariants is inductive.
LEMMA ScrollStep == ScrollInv /\ [ScrollNext]_scrollVars => ScrollInv'
BY DotKeeps, BlankKeeps, RomKeeps, ScrollStutters DEF ScrollNext

THEOREM ScrollInvariance == ScrollSpec => []ScrollInv
BY ScrollStep, ScrollInitEstablishes, PTL DEF ScrollSpec

\* The address registers of the PPU keep the widths of their bit fields,
\* whatever is written to $2000, $2005, $2006 and $2007 while they move.
THEOREM ScrollTypeCorrect == ScrollSpec => []ScrollTypeOK
<1>1. ScrollInv => ScrollTypeOK
  BY DEF ScrollInv
<1> QED
  BY <1>1, ScrollInvariance, PTL

\* Every line shows the row that the scroll position and the line number
\* name, for nametables of any size (increment_scroll_y, reload_scroll_y).
THEOREM RowsInOrder == ScrollSpec => []RowShown
<1>1. ScrollInv => RowShown
  BY DEF ScrollInv
<1> QED
  BY <1>1, ScrollInvariance, PTL

\* Every line fetches consecutive columns from the last x reload on: those of
\* its nametable up to the edge, and modulo a nametable beyond, for nametables
\* of any size (increment_scroll_x, reload_scroll_x).
THEOREM ColumnsInOrder == ScrollSpec => []ColumnShown
<1>1. ScrollInv => ColumnShown
  BY DEF ScrollInv
<1> QED
  BY <1>1, ScrollInvariance, PTL
=============================================================================
