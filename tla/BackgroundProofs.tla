-------------------------- MODULE BackgroundProofs --------------------------
(***************************************************************************)
(* Proofs about Background, for nametables of any size, any memory and any *)
(* number of register accesses.  The argument has three layers.  The       *)
(* pipeline moves the beam and the address exactly as Scroll does, so what *)
(* ScrollProofs says of them holds at every dot.  While nothing disturbs   *)
(* its fetches, the pipeline holds what memory names at the tiles from     *)
(* origin on.  And origin is the place in the plane that the history of    *)
(* the reloads names.                                                      *)
(***************************************************************************)
EXTENDS Background, ScrollProofs

-----------------------------------------------------------------------------
(* The address moves as in Scroll.                                         *)

\* The state the ROM leaves on the pre-render line is one of Scroll's.
LEMMA BgInitScrolls == BgInit => ScrollInv
<1> SUFFICES ASSUME BgInit PROVE ScrollInv
  OBVIOUS
<1>1. Targets \subseteq Nat
  BY ScrollAssumption
<1>2. vram_addr \in Address /\ temp_addr \in Address
  <2>1. Decoded(0) \in Address /\ \A n \in Targets : Decoded(n) \in Address
    BY <1>1, DecodedType
  <2> QED
    BY <2>1 DEF BgInit
<1>3. line \in 0 .. PreRender /\ event \in 1 .. Columns + 3 + Copies
  BY Sizes DEF BgInit
<1>4. ScrollTypeOK
  <2>1. write_latch \in 0 .. 1 /\ originX = None /\ originY = None
    BY DEF BgInit
  <2>2. rendering \in BOOLEAN
    BY Zenon DEF BgInit
  <2> QED
    BY <1>2, <1>3, <2>1, <2>2 DEF ScrollTypeOK
<1>5. BeamOnLine
  <2>1. line = PreRender /\ event = 1
    BY DEF BgInit
  <2> QED
    BY <2>1, Sizes DEF BeamOnLine, LastEvent, CopiesOf
<1>6. HistoryKept /\ RowReloaded /\ RowShown /\ ColumnShown
  BY DEF BgInit, HistoryKept, RowReloaded, RowShown, ColumnShown
<1> QED
  BY <1>4, <1>5, <1>6 DEF ScrollInv

\* Every dot and every access is a step of Scroll or leaves its state alone.
LEMMA BgStepScrolls == [BgNext]_backgroundVars => [ScrollNext]_scrollVars
<1>1. PipelineDot => Dot \/ UNCHANGED scrollVars
  BY Zenon DEF PipelineDot
<1>2. WriteMask => SetMask \/ UNCHANGED scrollVars
  BY Zenon DEF WriteMask
<1>3. BlankDots => BlankLines
  BY DEF BlankDots
<1>4. WriteScroll => SetScroll
  BY DEF WriteScroll
<1>5. WriteCtrl => SetCtrl
  BY DEF WriteCtrl
<1>6. AccessAddress => ReadStatus \/ SetAddressHigh \/ SetAddressLow \/ AccessData
  BY DEF AccessAddress
<1>7. UNCHANGED backgroundVars => UNCHANGED scrollVars
  BY DEF backgroundVars
<1> QED
  BY <1>1, <1>2, <1>3, <1>4, <1>5, <1>6, <1>7, Zenon DEF BgNext, ScrollNext

\* At every dot, with the pipeline running and the ROM at work, the address
\* obeys Scroll's next-state relation and satisfies its invariant.
THEOREM PipelineScrolls == BgSpec => [][ScrollNext]_scrollVars /\ []ScrollInv
BY BgInitScrolls, BgStepScrolls, ScrollStep, PTL DEF BgSpec

-----------------------------------------------------------------------------
(* Types.                                                                  *)

\* The sizes as natural numbers, for the provers.
LEMMA BgSizes ==
    /\ Columns \in Nat \ {0} /\ Columns > 2 /\ Columns % 4 = 0
    /\ Rows \in Nat \ {0} /\ CoarseRows \in Nat \ {0} /\ Rows < CoarseRows
    /\ FineRows \in Nat \ {0} /\ MaxWrites \in Nat
    /\ TableSize \in Nat /\ 2 * FineRows * 256 <= TableSize
    /\ (CoarseRows - 1) \div 4 < 4 * (CoarseRows - Rows)
BY Sizes, BackgroundAssumption

\* The memories as functions.
LEMMA Memories ==
    /\ \A i \in 0 .. 4 * (Columns * CoarseRows) - 1 : Vram[i] \in 0 .. 255
    /\ \A i \in 0 .. 2 * TableSize - 1 : Chr[i] \in Byte
BY BackgroundAssumption, Zenon DEF Byte

\* A cell of a nametable lies in Vram.
LEMMA CellInTable ==
    ASSUME NEW a \in Address, NEW c \in Nat, c < Columns * CoarseRows
    PROVE  TableOf(a) + c \in 0 .. 4 * (Columns * CoarseRows) - 1
<1> DEFINE n == Columns * CoarseRows
           t == a.nametable_x + 2 * a.nametable_y
<1>1. n \in Nat
  BY BgSizes
<1>2. t \in {0, 1, 2, 3}
  BY DEF Address
<1>3. TableOf(a) = n * t
  BY DEF TableOf, Cells
<1> HIDE DEF n, t
<1>4. n * t + c \in 0 .. 4 * n - 1
  <2>1. c < n
    BY DEF n
  <2>2. CASE t = 0
    BY <2>1, <2>2, <1>1
  <2>3. CASE t = 1
    BY <2>1, <2>3, <1>1
  <2>4. CASE t = 2
    BY <2>1, <2>4, <1>1
  <2>5. CASE t = 3
    BY <2>1, <2>5, <1>1
  <2> QED
    BY <1>2, <2>2, <2>3, <2>4, <2>5
<1> QED
  BY <1>3, <1>4 DEF n

\* The tile number fetched at any address is a byte.
LEMMA TileByteType ==
    ASSUME NEW a \in Address
    PROVE  TileByte(a) \in 0 .. 255
<1> DEFINE n == Columns * CoarseRows
           x == a.coarse_x
           p == Columns * a.coarse_y
<1>1. x \in Nat /\ x < Columns /\ a.coarse_y \in Nat /\ a.coarse_y < CoarseRows
  BY BgSizes DEF Address
<1>2. n \in Nat /\ p \in Nat /\ p + Columns <= n
  BY <1>1, BgSizes, ProductGap
<1>3. TileByte(a) = Vram[TableOf(a) + p + x]
  BY DEF TileByte
<1>4. TableOf(a) \in Int
  BY BgSizes DEF TableOf, Cells, Address
<1> HIDE DEF x, p
<1>5. p + x \in Nat /\ p + x < n
  BY <1>1, <1>2, BgSizes
<1>6. TableOf(a) + p + x = TableOf(a) + (p + x)
  BY <1>4, <1>1, <1>2, <1>5
<1>7. TableOf(a) + (p + x) \in 0 .. 4 * n - 1
  BY <1>5, CellInTable
<1> QED
  BY <1>3, <1>6, <1>7, Memories, Zenon DEF n

\* So is the attribute byte, which lies behind the tiles for every coarse row.
LEMMA AttributeByteType ==
    ASSUME NEW a \in Address
    PROVE  AttributeByte(a) \in 0 .. 255
<1> DEFINE n == Columns * CoarseRows
           w == Columns \div 4
           q == a.coarse_y \div 4
           x == a.coarse_x \div 4
           g == 4 * (CoarseRows - Rows)
<1>1. a.coarse_x \in 0 .. Columns - 1 /\ a.coarse_y \in 0 .. CoarseRows - 1
  BY DEF Address
<1>2. w \in Nat \ {0} /\ Columns = 4 * w
  BY BgSizes
<1>3. x \in Nat /\ x < w
  BY <1>1, <1>2, BgSizes
<1>4. q \in Nat /\ q < g /\ g \in Nat
  BY <1>1, BgSizes
<1>5. w * q + w <= w * g
  BY <1>2, <1>4, ProductGap
<1>6. w * g = n - Columns * Rows /\ n \in Nat /\ Columns * Rows \in Nat
  <2>1. w * g = (4 * w) * (CoarseRows - Rows)
    BY <1>2, BgSizes
  <2>2. Columns * (CoarseRows - Rows) = n - Columns * Rows
    BY BgSizes
  <2>3. n \in Nat /\ Columns * Rows \in Nat
    BY BgSizes
  <2> QED
    BY <1>2, <2>1, <2>2, <2>3
<1>7. AttributeByte(a) = Vram[TableOf(a) + Columns * Rows + q * w + x]
  BY DEF AttributeByte
<1>8. TableOf(a) \in Int
  BY BgSizes DEF TableOf, Cells, Address
<1> DEFINE r == Columns * Rows
           u == w * q
<1>9. u \in Nat /\ q * w = u
  BY <1>2, <1>4
<1>10. u + w <= n - r /\ n \in Nat /\ r \in Nat
  BY <1>5, <1>6
<1> HIDE DEF q, w, x, g, n, r, u
<1>11. r + u + x \in Nat /\ r + u + x < n
  BY <1>2, <1>3, <1>9, <1>10
<1>12. TableOf(a) + r + u + x = TableOf(a) + (r + u + x)
  BY <1>2, <1>3, <1>8, <1>9, <1>10
<1>13. TableOf(a) + (r + u + x) \in 0 .. 4 * n - 1
  BY <1>11, CellInTable DEF n
<1>14. AttributeByte(a) = Vram[TableOf(a) + (r + u + x)]
  BY <1>7, <1>9, <1>12 DEF r
<1> QED
  BY <1>13, <1>14, Memories, Zenon DEF n

\* A palette number has two bits.
LEMMA PaletteType ==
    ASSUME NEW a \in Address
    PROVE  Palette(a) \in 0 .. 3
BY AttributeByteType DEF Palette

\* The bits of a row of a tile: plane 0 or 1 of the tile's number, in table t.
Bits(t, id, y, plane) == Chr[TableSize * t + 2 * FineRows * id + y + FineRows * plane]

\* They are those of a byte of CHR.
LEMMA BitsType ==
    ASSUME NEW t \in 0 .. 1, NEW id \in 0 .. 255, NEW y \in 0 .. FineRows - 1,
           NEW plane \in 0 .. 1
    PROVE  Bits(t, id, y, plane) \in Byte
<1> DEFINE h == 2 * FineRows
           u == h * id
<1>1. h \in Nat \ {0} /\ h * 256 <= TableSize /\ FineRows \in Nat /\ TableSize \in Nat
  BY BgSizes
<1>2. u \in Nat /\ u + h <= h * 256
  BY <1>1, ProductGap
<1>3. FineRows * plane \in {0, FineRows} /\ TableSize * t \in {0, TableSize}
  <2>1. CASE plane = 0 /\ t = 0
    BY <2>1, <1>1
  <2>2. CASE plane = 0 /\ t = 1
    BY <2>2, <1>1
  <2>3. CASE plane = 1 /\ t = 0
    BY <2>3, <1>1
  <2>4. CASE plane = 1 /\ t = 1
    BY <2>4, <1>1
  <2> QED
    BY <2>1, <2>2, <2>3, <2>4
<1>4. 2 * FineRows * id = u
  OBVIOUS
<1>5. u + h <= TableSize
  BY <1>1, <1>2
<1>6. h = 2 * FineRows
  OBVIOUS
<1> HIDE DEF u, h
<1> DEFINE b == TableSize * t
           f == FineRows * plane
<1> HIDE DEF b, f
<1>7. b + u + y + f \in 0 .. 2 * TableSize - 1
  BY <1>1, <1>2, <1>3, <1>5, <1>6 DEF b, f
<1>8. Bits(t, id, y, plane) = Chr[b + u + y + f]
  BY <1>4 DEF Bits, b, f
<1> QED
  BY <1>7, <1>8, Memories, Zenon

\* Any column makes an address of an address.
LEMMA PlaceColumn ==
    ASSUME NEW a \in Address, NEW x \in 0 .. Columns - 1
    PROVE  [a EXCEPT !.coarse_x = x] \in Address
BY DEF Address

LEMMA PlaceLeft ==
    ASSUME NEW a \in Address, NEW x \in 0 .. Columns - 1
    PROVE  [a EXCEPT !.coarse_x = x, !.nametable_x = 0] \in Address
<1>1. \A t \in 0 .. 1 : [a EXCEPT !.coarse_x = x, !.nametable_x = t] \in Address
  BY DEF Address
<1>2. 0 \in 0 .. 1
  OBVIOUS
<1> QED
  BY <1>1, <1>2, Zenon

\* increment_scroll_x() steps to the next column, or to the first of the left
\* nametable.
LEMMA NextTile ==
    ASSUME NEW a \in Address
    PROVE  /\ IncrementedX(a) \in Address
           /\ IncrementedX(a) =
                IF a.coarse_x = Columns - 1 THEN [a EXCEPT !.coarse_x = 0, !.nametable_x = 0]
                ELSE [a EXCEPT !.coarse_x = a.coarse_x + 1]
<1>1. a.coarse_x \in 0 .. Columns - 1
  BY DEF Address
<1>2. CASE a.coarse_x = Columns - 1
  <2>1. IncrementedX(a) = [a EXCEPT !.coarse_x = 0, !.nametable_x = 0]
    BY <1>2 DEF IncrementedX
  <2>2. 0 \in 0 .. Columns - 1 /\ 0 \in 0 .. 1
    BY BgSizes
  <2>3. IncrementedX(a) \in Address
    BY <2>1, <2>2 DEF Address
  <2> QED
    BY <1>2, <2>1, <2>3
<1>3. CASE a.coarse_x # Columns - 1
  <2>1. IncrementedX(a) = [a EXCEPT !.coarse_x = a.coarse_x + 1]
    BY <1>3 DEF IncrementedX
  <2>2. a.coarse_x + 1 \in 0 .. Columns - 1
    BY <1>1, <1>3, BgSizes
  <2>3. IncrementedX(a) \in Address
    BY <2>1, <2>2 DEF Address
  <2> QED
    BY <1>3, <2>1, <2>3
<1> QED
  BY <1>2, <1>3

\* The shifters keep 16 pixels of four bits.
LEMMA ShiftersType ==
    ASSUME BgTypeOK
    PROVE  /\ update_shifters \in [1 .. 16 -> 0 .. 15]
           /\ load_shifters(update_shifters) \in [1 .. 16 -> 0 .. 15]
<1>1. shifters \in [1 .. 16 -> 0 .. 15] /\ next.attr \in 0 .. 3
      /\ next.lsb \in Byte /\ next.msb \in Byte
  BY DEF BgTypeOK
<1>2. update_shifters \in [1 .. 16 -> 0 .. 15]
  BY <1>1 DEF update_shifters
<1>3. ASSUME NEW i \in 1 .. 16, i > 8
      PROVE  4 * next.attr + next.lsb[i - 8] + 2 * next.msb[i - 8] \in 0 .. 15
  <2>1. next.lsb[i - 8] \in 0 .. 1 /\ next.msb[i - 8] \in 0 .. 1
    BY <1>1, <1>3 DEF Byte
  <2> QED
    BY <2>1, <1>1
<1> QED
  BY <1>2, <1>3 DEF load_shifters

\* A dot of the pipeline keeps the types of what it moves.
LEMMA PrepareType ==
    ASSUME BgTypeOK, vram_addr \in Address, prepare_background_tile
    PROVE  /\ next' \in [id : 0 .. 255, attr : 0 .. 3, lsb : Byte, msb : Byte]
           /\ shifters' \in [1 .. 16 -> 0 .. 15]
<1>1. next' \in [id : 0 .. 255, attr : 0 .. 3, lsb : Byte, msb : Byte]
  <2>1. /\ next \in [id : 0 .. 255, attr : 0 .. 3, lsb : Byte, msb : Byte]
        /\ pattern_background \in 0 .. 1
    BY DEF BgTypeOK
  <2>2. TileByte(vram_addr) \in 0 .. 255 /\ Palette(vram_addr) \in 0 .. 3
    BY <2>1, TileByteType, PaletteType
  <2>3. PatternByte(0) \in Byte /\ PatternByte(1) \in Byte
    <3>1. \A plane : PatternByte(plane)
                        = Bits(pattern_background, next.id, vram_addr.fine_y, plane)
      BY DEF PatternByte, Bits
    <3>2. next.id \in 0 .. 255 /\ vram_addr.fine_y \in 0 .. FineRows - 1
      BY <2>1 DEF Address
    <3>3. /\ Bits(pattern_background, next.id, vram_addr.fine_y, 0) \in Byte
          /\ Bits(pattern_background, next.id, vram_addr.fine_y, 1) \in Byte
      <4>1. 0 \in 0 .. 1 /\ 1 \in 0 .. 1
        OBVIOUS
      <4> QED
        BY <3>2, <2>1, <4>1, BitsType, Zenon
    <3> QED
      BY <3>1, <3>3, Zenon
  <2> QED
    BY <2>1, <2>2, <2>3 DEF prepare_background_tile, Latched
<1>2. shifters' \in [1 .. 16 -> 0 .. 15]
  BY ShiftersType DEF prepare_background_tile
<1> QED
  BY <1>1, <1>2

\* A pixel drawn has four bits.
LEMMA DrawType ==
    ASSUME NEW s \in [1 .. 16 -> 0 .. 15], fine_x \in 0 .. 7
    PROVE  draw_pixel(s) \in 0 .. 15
BY DEF draw_pixel

\* What an access leaves alone keeps its type.
LEMMA AccessType ==
    ASSUME BgTypeOK, Access, origin' \in {origin, Nowhere},
           fine_x' \in 0 .. 7, pattern_background' \in 0 .. 1, render_background' \in BOOLEAN
    PROVE  BgTypeOK'
<1>1. writes' \in 0 .. MaxWrites
  BY BgSizes DEF Access, BgTypeOK
<1> QED
  BY <1>1 DEF Access, BgTypeOK

\* So does a dot.
LEMMA PipelineDotType ==
    ASSUME ScrollInv, BgTypeOK, PipelineDot
    PROVE  BgTypeOK'
<1>1. vram_addr \in Address
  BY DEF ScrollInv, ScrollTypeOK
<1>2. phase' \in 1 .. 8
  BY DEF PipelineDot, BgTypeOK
<1>3. UNCHANGED <<fine_x, pattern_background, render_background, writes>>
  BY DEF PipelineDot
<1>4. CASE PictureDot
  <2>1. prepare_background_tile
    BY <1>4 DEF PictureDot
  <2>2. pixel' \in 0 .. 15 /\ origin' \in Address \cup {Nowhere}
    BY <1>1, <1>4, <2>1, PrepareType, DrawType DEF PictureDot, BgTypeOK
  <2> QED
    BY <1>1, <1>2, <1>3, <2>1, <2>2, PrepareType DEF BgTypeOK
<1>5. CASE ReloadYDot
  BY <1>2, <1>3, <1>5 DEF ReloadYDot, BgTypeOK
<1>6. CASE PrefetchDot
  <2>1. prepare_background_tile
    BY <1>6 DEF PrefetchDot
  <2>2. pixel' = pixel /\ origin' \in Address \cup {Nowhere}
    BY <1>1, <1>6 DEF PrefetchDot, BgTypeOK
  <2> QED
    BY <1>1, <1>2, <1>3, <2>1, <2>2, PrepareType DEF BgTypeOK
<1> QED
  BY <1>4, <1>5, <1>6 DEF PipelineDot

\* And so does every step.
LEMMA BgTypeStep ==
    ASSUME ScrollInv, BgTypeOK, [BgNext]_backgroundVars
    PROVE  BgTypeOK'
<1>1. CASE PipelineDot
  BY <1>1, PipelineDotType
<1>2. CASE BlankDots
  BY <1>2 DEF BlankDots, pipeline, BgTypeOK
<1>3. CASE WriteScroll
  <2>1. fine_x' \in 0 .. 7
    BY <1>3, BackgroundAssumption DEF WriteScroll, BgTypeOK
  <2> QED
    BY <1>3, <2>1, AccessType DEF WriteScroll, BgTypeOK
<1>4. CASE WriteCtrl
  BY <1>4, AccessType DEF WriteCtrl, ForgetIf, BgTypeOK
<1>5. CASE WriteMask
  BY <1>5, AccessType DEF WriteMask, ForgetIf, BgTypeOK
<1>6. CASE AccessAddress
  BY <1>6, AccessType DEF AccessAddress, ForgetIf, BgTypeOK
<1>7. CASE UNCHANGED backgroundVars
  BY <1>7 DEF backgroundVars, pipeline, BgTypeOK
<1> QED
  BY <1>1, <1>2, <1>3, <1>4, <1>5, <1>6, <1>7 DEF BgNext

\* The latches and the shifters begin empty.
LEMMA BgInitType == BgInit => BgTypeOK
<1> SUFFICES ASSUME BgInit PROVE BgTypeOK
  OBVIOUS
<1>1. fine_x \in 0 .. 7
  BY BackgroundAssumption DEF BgInit
<1>2. shifters \in [1 .. 16 -> 0 .. 15]
  BY DEF BgInit
<1>3. next \in [id : 0 .. 255, attr : 0 .. 3, lsb : Byte, msb : Byte]
  BY DEF BgInit, Byte
<1> QED
  BY <1>1, <1>2, <1>3, BgSizes DEF BgInit, BgTypeOK

\* Registers, latches and shifters keep their ranges under every dot and every
\* access, for nametables of any size and any memory.
THEOREM BackgroundTypes == BgSpec => []BgTypeOK
<1>1. ScrollInv /\ BgTypeOK /\ [BgNext]_backgroundVars => BgTypeOK'
  BY BgTypeStep
<1> QED
  BY <1>1, BgInitType, PipelineScrolls, PTL DEF BgSpec

-----------------------------------------------------------------------------
(* The picture.  With the history kept, everything in the pipeline is what *)
(* memory holds of the tiles from origin on, and the number of steps since *)
(* dot 321 says of which one.                                              *)

\* The bits of plane 0 or 1 of the tile at a.
BitsAt(a, t, plane) == Bits(t, TileByte(a), a.fine_y, plane)

\* The pixel in column n from o, as the shifters hold it.
Raw(o, t, n) ==
    LET a == TileAcross(o, n \div 8)
    IN  4 * Palette(a) + BitsAt(a, t, 0)[1 + (n % 8)] + 2 * BitsAt(a, t, 1)[1 + (n % 8)]

\* Dots run since dot 321: 16 of them on the line before.
Steps == IF event <= Columns + 1 THEN dot + 15
         ELSE 8 * (event - (LastEvent - 1)) + phase - 1

\* The latches filled so far are those of the tile at a.
LatchedOf(nx, t, a, filled) ==
    /\ filled >= 1 => nx.id = TileByte(a)
    /\ filled >= 3 => nx.attr = Palette(a)
    /\ filled >= 5 => nx.lsb = BitsAt(a, t, 0)
    /\ filled >= 7 => nx.msb = BitsAt(a, t, 1)

\* The shifters hold the columns of the tiles loaded so far.
LoadedAfter(s, o, t, p) ==
    \A j \in 1 .. 16, n \in Nat :
        n = p - 18 + j /\ n < 8 * ((p - 1) \div 8) => s[j] = Raw(o, t, n)

\* The pipeline after p dots.
FollowsAfter(p) ==
    /\ vram_addr = TileAcross(origin, p \div 8)
    /\ LatchedOf(next, pattern_background, TileAcross(origin, p \div 8), p % 8)
    /\ p % 8 = 0 =>
          LatchedOf(next, pattern_background, TileAcross(origin, (p \div 8) - 1), 8)
    /\ LoadedAfter(shifters, origin, pattern_background, p)

\* A history is kept from dot 321 to dot 257, with the background on.
Follows ==
    origin # Nowhere =>
        /\ render_background
        /\ event <= Columns + 1 \/ event = LastEvent \/ (event = LastEvent - 1 /\ phase > 1)
        /\ event # Columns + 1 => FollowsAfter(Steps)

\* A background that is rendered moves the address.
LayersRendered == render_background => rendering

\* The tile k places on is at an address, and the next one where
\* increment_scroll_x() goes.
LEMMA AcrossType ==
    ASSUME NEW o \in Address, NEW k \in Nat
    PROVE  TileAcross(o, k) \in Address
<1> DEFINE c == o.coarse_x + k
<1>1. o.coarse_x \in Nat /\ c \in Nat
  BY DEF Address
<1>2. c % Columns \in 0 .. Columns - 1
  BY <1>1, BgSizes, DivMod
<1>3. CASE c < Columns
  <2>1. c \in 0 .. Columns - 1
    BY <1>1, <1>3, BgSizes
  <2>2. TileAcross(o, k) = [o EXCEPT !.coarse_x = c]
    BY <1>3 DEF TileAcross
  <2> HIDE DEF c
  <2> QED
    BY <2>1, <2>2, PlaceColumn
<1>4. CASE ~(c < Columns)
  <2>1. TileAcross(o, k) = [o EXCEPT !.coarse_x = c % Columns, !.nametable_x = 0]
    BY <1>4 DEF TileAcross
  <2> HIDE DEF c
  <2> QED
    BY <1>2, <2>1, PlaceLeft
<1> QED
  BY <1>3, <1>4

LEMMA AcrossNext ==
    ASSUME NEW o \in Address, NEW k \in Nat
    PROVE  /\ TileAcross(o, 0) = o
           /\ IncrementedX(TileAcross(o, k)) = TileAcross(o, k + 1)
<1> DEFINE x == o.coarse_x
           c == x + k
<1>1. x \in Nat /\ c \in Nat /\ x < Columns /\ x + 0 = x /\ x + (k + 1) = c + 1
  BY BgSizes DEF Address
<1>2. TileAcross(o, k) \in Address
  BY AcrossType
<1>3. TileAcross(o, 0) = o
  <2>1. TileAcross(o, 0) = [o EXCEPT !.coarse_x = x]
    BY <1>1 DEF TileAcross
  <2> QED
    BY <2>1 DEF Address
<1>4. CASE c + 1 < Columns
  <2>1. TileAcross(o, k) = [o EXCEPT !.coarse_x = c] /\ c # Columns - 1
    BY <1>1, <1>4, BgSizes DEF TileAcross
  <2>2. TileAcross(o, k + 1) = [o EXCEPT !.coarse_x = c + 1]
    BY <1>1, <1>4 DEF TileAcross
  <2> HIDE DEF c
  <2>3. TileAcross(o, k).coarse_x = c
    BY <2>1 DEF Address
  <2>4. IncrementedX(TileAcross(o, k)) = [TileAcross(o, k) EXCEPT !.coarse_x = c + 1]
    BY <1>2, <2>1, <2>3, NextTile
  <2> QED
    BY <1>3, <2>1, <2>2, <2>4 DEF Address
<1>5. CASE c + 1 = Columns
  <2>0. c < Columns /\ c = Columns - 1 /\ ~(x + (k + 1) < Columns)
    BY <1>1, <1>5, BgSizes
  <2>1. TileAcross(o, k) = [o EXCEPT !.coarse_x = c] /\ c = Columns - 1
    BY <2>0 DEF TileAcross
  <2>2. Columns % Columns = 0
    BY BgSizes, DivModUnique
  <2>3. TileAcross(o, k + 1) = [o EXCEPT !.coarse_x = 0, !.nametable_x = 0]
    BY <1>1, <1>5, <2>0, <2>2 DEF TileAcross
  <2> HIDE DEF c
  <2>4. TileAcross(o, k).coarse_x = c
    BY <2>1 DEF Address
  <2>5. IncrementedX(TileAcross(o, k))
          = [TileAcross(o, k) EXCEPT !.coarse_x = 0, !.nametable_x = 0]
    BY <1>2, <2>1, <2>4, NextTile
  <2> QED
    BY <1>3, <2>1, <2>3, <2>5 DEF Address
<1>6. CASE c + 1 > Columns
  <2>0. ~(c < Columns) /\ ~(x + (k + 1) < Columns)
    BY <1>1, <1>6, BgSizes
  <2>1. TileAcross(o, k) = [o EXCEPT !.coarse_x = c % Columns, !.nametable_x = 0]
    BY <2>0 DEF TileAcross
  <2>2. TileAcross(o, k + 1) = [o EXCEPT !.coarse_x = (c + 1) % Columns, !.nametable_x = 0]
    BY <1>1, <2>0 DEF TileAcross
  <2> HIDE DEF c
  <2>3. TileAcross(o, k).coarse_x = c % Columns
    BY <2>1 DEF Address
  <2>4. (c + 1) % Columns = IF c % Columns = Columns - 1 THEN 0 ELSE (c % Columns) + 1
    BY <1>1, BgSizes, ModStep
  <2>5. IncrementedX(TileAcross(o, k)) =
          IF c % Columns = Columns - 1
          THEN [TileAcross(o, k) EXCEPT !.coarse_x = 0, !.nametable_x = 0]
          ELSE [TileAcross(o, k) EXCEPT !.coarse_x = (c % Columns) + 1]
    BY <1>2, <2>3, NextTile
  <2> DEFINE r == c % Columns
  <2>6. CASE r = Columns - 1
    BY <1>3, <2>1, <2>2, <2>4, <2>5, <2>6 DEF Address
  <2>7. CASE r # Columns - 1
    BY <1>3, <2>1, <2>2, <2>4, <2>5, <2>7 DEF Address
  <2> QED
    BY <2>6, <2>7
<1> QED
  BY <1>1, <1>3, <1>4, <1>5, <1>6, BgSizes

\* Where the beam is, as the provers need it.
LEMMA Beam ==
    ScrollInv /\ BgTypeOK =>
        /\ event \in 1 .. LastEvent /\ event \in Nat /\ phase \in 1 .. 8
        /\ LastEvent = Columns + 3 + CopiesOf(line) /\ CopiesOf(line) \in Nat
        /\ line \in 0 .. PreRender /\ Columns \in Nat /\ Columns > 2
        /\ vram_addr \in Address /\ temp_addr \in Address
BY BgSizes, Sizes DEF ScrollInv, ScrollTypeOK, BeamOnLine, BgTypeOK, LastEvent, CopiesOf

\* What a dot of a tile does to the beam and the address: only the last moves
\* the address, to the next tile and, on dot 256, down a row.
LEMMA TileDot ==
    ASSUME ScrollInv, BgTypeOK, PipelineDot, Tile
    PROVE  /\ phase < 8 => phase' = phase + 1 /\ UNCHANGED scrollVars
           /\ phase = 8 => /\ phase' = 1 /\ NextEvent
                           /\ rendering /\ event # Columns
                                => vram_addr' = IncrementedX(vram_addr)
           /\ UNCHANGED <<fine_x, pattern_background, render_background, rendering>>
           /\ prepare_background_tile
           /\ UNCHANGED <<originX, originY>>
<1>1. prepare_background_tile
  BY Beam DEF PipelineDot, Tile, PictureDot, ReloadYDot, PrefetchDot
<1>2. CASE phase < 8
  BY <1>1, <1>2 DEF PipelineDot, scrollVars, origins
<1>3. CASE ~(phase < 8)
  <2>1. Dot /\ phase' = 1
    BY <1>3 DEF PipelineDot
  <2>2. FetchTile \/ Prefetch
    BY <2>1, Beam DEF Dot, Tile, ReloadX, ReloadY
  <2>3. rendering /\ event # Columns => vram_addr' = IncrementedX(vram_addr)
    BY <2>2, Beam DEF FetchTile, Prefetch
  <2>4. NextEvent /\ rendering' = rendering /\ UNCHANGED <<originX, originY>>
    BY <2>1, <2>2 DEF Dot, FetchTile, Prefetch, origins
  <2> QED
    BY <1>1, <1>3, <2>1, <2>3, <2>4 DEF PipelineDot
<1> QED
  BY <1>2, <1>3

\* A dot of the pipeline is one step.
LEMMA StepsForward ==
    ASSUME ScrollInv, BgTypeOK, PipelineDot, Tile
    PROVE  Steps \in Nat /\ Steps' = Steps + 1 /\ phase = (Steps % 8) + 1
<1> DEFINE copies == CopiesOf(line)
<1>1. /\ event \in 1 .. LastEvent /\ event \in Nat /\ phase \in 1 .. 8
      /\ LastEvent = Columns + 3 + copies /\ copies \in Nat
      /\ Columns \in Nat /\ Columns > 2
  BY Beam
<1>2. event <= Columns \/ event = LastEvent - 1 \/ event = LastEvent
  BY <1>1 DEF Tile
<1>3. Steps \in Nat /\ phase = (Steps % 8) + 1
  <2>1. CASE event <= Columns
    <3>1. Steps = 8 * (event + 1) + (phase - 1)
      BY <1>1, <2>1 DEF Steps, dot
    <3> QED
      BY <1>1, <3>1
  <2>2. CASE event = LastEvent - 1
    <3>1. Steps = phase - 1
      BY <1>1, <2>2 DEF Steps
    <3> QED
      BY <1>1, <3>1
  <2>3. CASE event = LastEvent
    <3>1. Steps = 8 + (phase - 1)
      BY <1>1, <2>3 DEF Steps
    <3> QED
      BY <1>1, <3>1
  <2> QED
    BY <1>2, <2>1, <2>2, <2>3
<1>4. ASSUME phase < 8 PROVE Steps' = Steps + 1
  <2>1. phase' = phase + 1 /\ event' = event /\ line' = line
    BY <1>4, TileDot DEF scrollVars, beam
  <2>2. LastEvent' = LastEvent
    BY <2>1 DEF LastEvent, CopiesOf
  <2> QED
    BY <1>1, <2>1, <2>2 DEF Steps, dot
<1>5. ASSUME phase = 8 PROVE Steps' = Steps + 1
  <2>1. phase' = 1 /\ NextEvent
    BY <1>5, TileDot
  <2>2. CASE event = LastEvent
    <3>1. event' = 1
      BY <2>1, <2>2 DEF NextEvent
    <3> QED
      BY <1>1, <1>5, <2>1, <2>2, <3>1 DEF Steps, dot
  <2>3. CASE event # LastEvent
    <3>1. event' = event + 1 /\ line' = line
      BY <2>1, <2>3 DEF NextEvent
    <3>2. LastEvent' = LastEvent
      BY <3>1 DEF LastEvent, CopiesOf
    <3>3. CASE event <= Columns
      BY <1>1, <1>5, <2>1, <3>1, <3>3 DEF Steps, dot
    <3>4. CASE event = LastEvent - 1
      <4>1. /\ event \in Nat /\ event > Columns + 1 /\ Columns \in Nat
            /\ event' = event + 1 /\ LastEvent' = event + 1
        BY <1>1, <3>1, <3>2, <3>4
      <4>2. Steps = 7
        <5>1. event - (LastEvent - 1) = 0 /\ phase - 1 = 7
          BY <4>1, <1>5, <1>1, <3>4
        <5> QED
          BY <4>1, <5>1, <1>5 DEF Steps
      <4>3. Steps' = 8
        <5>1. event' - (LastEvent' - 1) = 1 /\ ~(event' <= Columns + 1)
          BY <4>1
        <5> QED
          BY <5>1, <2>1 DEF Steps
      <4> QED
        BY <4>2, <4>3
    <3> QED
      BY <1>2, <2>3, <3>3, <3>4
  <2> QED
    BY <2>2, <2>3
<1> QED
  BY <1>1, <1>3, <1>4, <1>5

\* Quotient and remainder by eight, one step on.
LEMMA Eighths ==
    ASSUME NEW p \in Nat
    PROVE  /\ p = 8 * (p \div 8) + (p % 8) /\ p \div 8 \in Nat /\ p % 8 \in 0 .. 7
           /\ p % 8 = 7 => (p + 1) \div 8 = (p \div 8) + 1 /\ (p + 1) % 8 = 0
           /\ p % 8 # 7 => (p + 1) \div 8 = p \div 8 /\ (p + 1) % 8 = (p % 8) + 1
OBVIOUS

\* The shifters: a load puts the tile just latched behind the one it follows,
\* and seven shifts bring the next load's place up.
LEMMA ShiftersFollow ==
    ASSUME BgTypeOK, NEW p \in Nat, phase = (p % 8) + 1, FollowsAfter(p),
           prepare_background_tile, render_background
    PROVE  LoadedAfter(shifters', origin, pattern_background, p + 1)
<1> DEFINE k == p \div 8
           c == p % 8
<1>1. p = 8 * k + c /\ k \in Nat /\ c \in 0 .. 7
  BY Eighths
<1>2. \A j \in 1 .. 15 : update_shifters[j] = shifters[j + 1]
  BY DEF update_shifters
<1>3. ASSUME NEW j \in 1 .. 16, NEW n \in Nat, n = (p + 1) - 18 + j, n < 8 * (p \div 8)
      PROVE  shifters'[j] = Raw(origin, pattern_background, n)
  <2>1. ASSUME c # 0 \/ j <= 8
        PROVE  /\ j \in 1 .. 15
               /\ shifters[j + 1] = Raw(origin, pattern_background, n)
    <3>1. n = p - 18 + (j + 1)
      BY <1>3
    <3>2. CASE c # 0
      <4>1. (p - 1) \div 8 = k
        BY <1>1, <3>2
      <4>2. j \in 1 .. 15
        BY <1>1, <1>3, <3>2
      <4> QED
        BY <3>1, <4>1, <4>2, <1>3 DEF FollowsAfter, LoadedAfter
    <3>3. CASE c = 0 /\ j <= 8
      <4>1. (p - 1) \div 8 = k - 1 /\ n = 8 * k - 17 + j
        BY <1>1, <1>3, <3>3
      <4>2. n < 8 * ((p - 1) \div 8) /\ j + 1 \in 1 .. 16
        BY <1>1, <1>3, <3>3, <4>1
      <4> QED
        BY <3>1, <3>3, <4>2, <1>3 DEF FollowsAfter, LoadedAfter
    <3> QED
      BY <2>1, <3>2, <3>3
  <2>2. CASE c # 0
    <3>1. phase # 1
      BY <1>1, <2>2, Eighths
    <3>2. shifters' = update_shifters
      BY <3>1 DEF prepare_background_tile
    <3> QED
      BY <2>1, <2>2, <3>2, <1>2
  <2>3. CASE c = 0
    <3>1. phase = 1
      BY <1>1, <2>3, Eighths
    <3>2. shifters' = load_shifters(update_shifters)
      BY <3>1 DEF prepare_background_tile
    <3>3. CASE j <= 8
      <4>1. shifters'[j] = update_shifters[j]
        BY <3>2, <3>3 DEF load_shifters
      <4> QED
        BY <2>1, <3>3, <4>1, <1>2
    <3>4. CASE j > 8
      <4> DEFINE i == j - 8
                 a == TileAcross(origin, k - 1)
      <4>1. n = 8 * (k - 1) + (i - 1) /\ i \in 1 .. 8 /\ k - 1 \in Nat
        BY <1>1, <1>3, <2>3, <3>4
      <4>2. n \div 8 = k - 1 /\ 1 + (n % 8) = i
        BY <4>1
      <4>3. LatchedOf(next, pattern_background, a, 8)
        BY <2>3 DEF FollowsAfter
      <4>4. /\ next.attr = Palette(a) /\ next.lsb = BitsAt(a, pattern_background, 0)
            /\ next.msb = BitsAt(a, pattern_background, 1)
        BY <4>3 DEF LatchedOf
      <4>5. shifters'[j] = 4 * next.attr + next.lsb[i] + 2 * next.msb[i]
        BY <3>2, <3>4 DEF load_shifters
      <4>6. Raw(origin, pattern_background, n)
              = 4 * Palette(a) + BitsAt(a, pattern_background, 0)[i]
                + 2 * BitsAt(a, pattern_background, 1)[i]
        BY <4>2, Zenon DEF Raw
      <4> QED
        BY <4>4, <4>5, <4>6
    <3> QED
      BY <3>3, <3>4
  <2> QED
    BY <2>2, <2>3
<1> QED
  BY <1>3, Eighths DEF LoadedAfter

\* The latches: each phase reads what its tile has there; the last moves on.
LEMMA LatchesFollow ==
    ASSUME BgTypeOK, NEW p \in Nat, phase = (p % 8) + 1, FollowsAfter(p),
           prepare_background_tile, render_background, origin \in Address,
           vram_addr' = IF phase = 8 THEN IncrementedX(vram_addr) ELSE vram_addr
    PROVE  /\ vram_addr' = TileAcross(origin, (p + 1) \div 8)
           /\ LatchedOf(next', pattern_background,
                        TileAcross(origin, (p + 1) \div 8), (p + 1) % 8)
           /\ (p + 1) % 8 = 0 =>
                 LatchedOf(next', pattern_background,
                           TileAcross(origin, ((p + 1) \div 8) - 1), 8)
<1> DEFINE k == p \div 8
           c == p % 8
           a == TileAcross(origin, k)
<1>1. p = 8 * k + c /\ k \in Nat /\ c \in 0 .. 7
  BY Eighths
<1>2. vram_addr = a /\ LatchedOf(next, pattern_background, a, c)
  BY DEF FollowsAfter
<1>3. vram_addr' = IF phase = 8 THEN IncrementedX(a) ELSE a
  BY <1>2
<1>4. next \in [id : 0 .. 255, attr : 0 .. 3, lsb : Byte, msb : Byte]
  BY DEF BgTypeOK
<1>5. CASE c = 7
  <2>1. (p + 1) \div 8 = k + 1 /\ (p + 1) % 8 = 0 /\ phase = 8
    BY <1>5, Eighths
  <2>2. vram_addr' = TileAcross(origin, k + 1)
    BY <1>1, <1>3, <2>1, AcrossNext
  <2>3. next' = next
    BY <2>1 DEF prepare_background_tile, Latched
  <2>4. LatchedOf(next, pattern_background, a, 8)
    BY <1>2, <1>5 DEF LatchedOf
  <2>5. LatchedOf(next', pattern_background, TileAcross(origin, k + 1), 0)
    BY DEF LatchedOf
  <2>6. (k + 1) - 1 = k
    BY <1>1
  <2> QED
    BY <2>1, <2>2, <2>3, <2>4, <2>5, <2>6
<1>6. CASE c # 7
  <2>1. (p + 1) \div 8 = k /\ (p + 1) % 8 = c + 1 /\ phase = c + 1
    BY <1>6, Eighths
  <2>2. vram_addr' = a
    BY <1>1, <1>3, <2>1
  <2>3. LatchedOf(next', pattern_background, a, c + 1)
    <3> HIDE DEF a, c, k
    <3>1. next' = Latched
      BY DEF prepare_background_tile
    <3>2. CASE c = 0
      <4>1. next' = [next EXCEPT !.id = TileByte(a)]
        BY <1>2, <2>1, <3>1, <3>2 DEF Latched
      <4> QED
        BY <1>4, <3>2, <4>1 DEF LatchedOf
    <3>3. CASE c = 2
      <4>1. next' = [next EXCEPT !.attr = Palette(a)]
        BY <1>2, <2>1, <3>1, <3>3 DEF Latched
      <4> QED
        BY <1>2, <1>4, <3>3, <4>1 DEF LatchedOf
    <3>4. CASE c = 4
      <4>1. next' = [next EXCEPT !.lsb = PatternByte(0)]
        BY <2>1, <3>1, <3>4 DEF Latched
      <4>2. PatternByte(0) = BitsAt(a, pattern_background, 0)
        BY <1>2, <3>4 DEF LatchedOf, PatternByte, BitsAt, Bits
      <4> QED
        BY <1>2, <1>4, <3>4, <4>1, <4>2 DEF LatchedOf
    <3>5. CASE c = 6
      <4>1. next' = [next EXCEPT !.msb = PatternByte(1)]
        BY <2>1, <3>1, <3>5 DEF Latched
      <4>2. PatternByte(1) = BitsAt(a, pattern_background, 1)
        BY <1>2, <3>5 DEF LatchedOf, PatternByte, BitsAt, Bits
      <4> QED
        BY <1>2, <1>4, <3>5, <4>1, <4>2 DEF LatchedOf
    <3>6. CASE c \in {1, 3, 5}
      <4>1. next' = next
        BY <2>1, <3>1, <3>6 DEF Latched
      <4> QED
        BY <1>2, <3>6, <4>1 DEF LatchedOf
    <3> QED
      BY <1>1, <1>6, <3>2, <3>3, <3>4, <3>5, <3>6
  <2> QED
    BY <1>1, <2>1, <2>2, <2>3
<1> QED
  BY <1>5, <1>6

\* The two shifts of prepare_background_tile() cut out the quarter of the
\* attribute byte the tile lies in.
LEMMA QuarterOfByte ==
    ASSUME NEW a \in Address
    PROVE  LET quarter == 1 + 2 * ((a.coarse_y \div 2) % 2) + ((a.coarse_x \div 2) % 2)
           IN  Palette(a) = (AttributeByte(a) \div <<1, 4, 16, 64>>[quarter]) % 4
<1> DEFINE b == AttributeByte(a)
           ry == (a.coarse_y \div 2) % 2
           rx == (a.coarse_x \div 2) % 2
<1>1. b \in 0 .. 255
  BY AttributeByteType
<1>2. ry \in 0 .. 1 /\ rx \in 0 .. 1
  BY DEF Address
<1>3. Palette(a) = ((b \div (IF ry = 1 THEN 16 ELSE 1))
                      \div (IF rx = 1 THEN 4 ELSE 1)) % 4
  BY DEF Palette
<1> HIDE DEF b, ry, rx
<1>4. Palette(a) = (b \div <<1, 4, 16, 64>>[1 + 2 * ry + rx]) % 4
  <2>1. CASE ry = 0 /\ rx = 0
    BY <1>1, <1>3, <2>1
  <2>2. CASE ry = 0 /\ rx = 1
    BY <1>1, <1>3, <2>2
  <2>3. CASE ry = 1 /\ rx = 0
    BY <1>1, <1>3, <2>3
  <2>4. CASE ry = 1 /\ rx = 1
    BY <1>1, <1>3, <2>4
  <2> QED
    BY <1>2, <2>1, <2>2, <2>3, <2>4
<1> QED
  BY <1>4 DEF b, ry, rx

\* What draw_pixel() makes of a column in the shifters is its pixel.
LEMMA RawIsPixel ==
    ASSUME NEW s, NEW n \in Nat, fine_x \in 0 .. 7, pattern_background \in 0 .. 1,
           NEW o \in Address, render_background,
           s[1 + fine_x] = Raw(o, pattern_background, n)
    PROVE  draw_pixel(s) = PixelAt(o, n)
<1> DEFINE k == n \div 8
           x == 1 + (n % 8)
           a == TileAcross(o, k)
           id == TileByte(a)
           l == BitsAt(a, pattern_background, 0)[x]
           m == BitsAt(a, pattern_background, 1)[x]
           pal == Palette(a)
           row == TableSize * pattern_background + 2 * FineRows * id + a.fine_y
<1>1. k \in Nat /\ x \in 1 .. 8
  OBVIOUS
<1>2. a \in Address
  BY <1>1, AcrossType
<1>3. id \in 0 .. 255 /\ pal \in 0 .. 3 /\ a.fine_y \in 0 .. FineRows - 1
  BY <1>2, TileByteType, PaletteType DEF Address
<1>4. l \in 0 .. 1 /\ m \in 0 .. 1
  <2>1. 0 \in 0 .. 1 /\ 1 \in 0 .. 1
    OBVIOUS
  <2>2. /\ BitsAt(a, pattern_background, 0) \in Byte
        /\ BitsAt(a, pattern_background, 1) \in Byte
    BY <1>3, <2>1, BitsType, Zenon DEF BitsAt
  <2> QED
    BY <1>1, <2>2 DEF Byte
<1>5. l = Chr[row][x] /\ m = Chr[row + FineRows][x]
  <2>1. row \in Int /\ FineRows \in Nat
    <3>1. TableSize \in Nat /\ FineRows \in Nat
      BY BgSizes
    <3> QED
      BY <1>3, <3>1
  <2>2. FineRows * 0 = 0 /\ FineRows * 1 = FineRows
    BY <2>1
  <2>3. row + 0 = row
    BY <2>1
  <2>4. /\ BitsAt(a, pattern_background, 0) = Chr[row + FineRows * 0]
        /\ BitsAt(a, pattern_background, 1) = Chr[row + FineRows * 1]
    BY Zenon DEF BitsAt, Bits
  <2> QED
    BY <2>2, <2>3, <2>4
<1>6. s[1 + fine_x] = 4 * pal + l + 2 * m
  BY Zenon DEF Raw
<1>7. draw_pixel(s) = IF l + 2 * m = 0 THEN 0 ELSE 4 * pal + (l + 2 * m)
  <2> HIDE DEF l, m, pal
  <2>1. (4 * pal + l + 2 * m) % 4 = l + 2 * m
    BY <1>3, <1>4
  <2> QED
    BY <1>3, <1>4, <1>6, <2>1 DEF draw_pixel
<1>8. PixelAt(o, n) = IF Chr[row][x] + 2 * Chr[row + FineRows][x] = 0 THEN 0
                   ELSE 4 * pal + (Chr[row][x] + 2 * Chr[row + FineRows][x])
  <2>1. pal = (AttributeByte(a) \div <<1, 4, 16, 64>>[1 + 2 * ((a.coarse_y \div 2) % 2)
                 + ((a.coarse_x \div 2) % 2)]) % 4
    BY <1>2, QuarterOfByte
  <2> QED
    BY <1>2, <2>1, Zenon DEF PixelAt
<1> QED
  BY <1>5, <1>7, <1>8

\* A dot that keeps a history: the shifters and the latches move with it.
LEMMA FollowsTile ==
    ASSUME ScrollInv, BgTypeOK, LayersRendered, Follows, PipelineDot, Tile, origin # Nowhere
    PROVE  /\ render_background /\ rendering /\ origin \in Address /\ origin' = origin
           /\ Steps \in Nat /\ Steps' = Steps + 1 /\ phase = (Steps % 8) + 1
           /\ FollowsAfter(Steps) /\ prepare_background_tile
           /\ LoadedAfter(shifters', origin, pattern_background, Steps + 1)
<1>1. /\ event \in 1 .. LastEvent /\ event \in Nat /\ LastEvent = Columns + 3 + CopiesOf(line)
      /\ CopiesOf(line) \in Nat /\ Columns \in Nat
  BY Beam
<1>2. event # Columns + 1
  BY <1>1 DEF Tile
<1>3. render_background /\ rendering /\ FollowsAfter(Steps)
  BY <1>2 DEF Follows, LayersRendered
<1>4. Steps \in Nat /\ Steps' = Steps + 1 /\ phase = (Steps % 8) + 1
  BY StepsForward
<1>5. prepare_background_tile
  BY TileDot
<1>6. ~(event = LastEvent - 1 /\ phase = 1)
  BY <1>1 DEF Follows
<1>7. origin \in Address /\ origin' = origin
  <2>1. origin \in Address
    BY DEF BgTypeOK
  <2>2. CASE PictureDot
    BY <2>1, <2>2, <1>2 DEF PictureDot
  <2>3. CASE ReloadYDot
    BY <2>1, <2>3 DEF ReloadYDot
  <2>4. CASE PrefetchDot
    BY <2>1, <2>4, <1>6 DEF PrefetchDot
  <2> QED
    BY <2>1, <2>2, <2>3, <2>4 DEF PipelineDot
<1>8. LoadedAfter(shifters', origin, pattern_background, Steps + 1)
  BY <1>3, <1>4, <1>5, ShiftersFollow
<1> QED
  BY <1>3, <1>4, <1>5, <1>7, <1>8

\* The dot that begins a history latches the number of its first tile.
LEMMA FollowsBegin ==
    ASSUME ScrollInv, BgTypeOK, PipelineDot, event = LastEvent - 1, phase = 1,
           render_background
    PROVE  /\ origin' = vram_addr /\ vram_addr \in Address
           /\ phase' = 2 /\ UNCHANGED scrollVars /\ Follows'
<1>1. /\ event \in Nat /\ Columns \in Nat /\ CopiesOf(line) \in Nat
      /\ event = Columns + 2 + CopiesOf(line) /\ vram_addr \in Address
  BY Beam
<1>2. PrefetchDot /\ Tile
  BY <1>1 DEF PipelineDot, PictureDot, ReloadYDot, Tile
<1>3. origin' = vram_addr /\ prepare_background_tile
  BY <1>2 DEF PrefetchDot
<1>4. phase' = 2 /\ UNCHANGED scrollVars
  BY <1>2, TileDot
<1>5. vram_addr' = vram_addr /\ line' = line /\ event' = event
  BY <1>4 DEF scrollVars, beam, addresses
<1>6. pattern_background' = pattern_background /\ render_background' = render_background
  BY DEF PipelineDot
<1>7. 1 \div 8 = 0 /\ 1 % 8 = 1 /\ (1 - 1) \div 8 = 0
  OBVIOUS
<1>8. TileAcross(origin', 0) = vram_addr
  BY <1>1, <1>3, AcrossNext
<1>9. LatchedOf(next', pattern_background', vram_addr, 1)
  <2>1. next \in [id : 0 .. 255, attr : 0 .. 3, lsb : Byte, msb : Byte]
    BY DEF BgTypeOK
  <2>2. next' = [next EXCEPT !.id = TileByte(vram_addr)]
    BY <1>3 DEF prepare_background_tile, Latched
  <2> QED
    BY <2>1, <2>2 DEF LatchedOf
<1>10. LoadedAfter(shifters', origin', pattern_background', 1)
  BY <1>7 DEF LoadedAfter
<1>11. FollowsAfter(1)'
  BY <1>5, <1>7, <1>8, <1>9, <1>10 DEF FollowsAfter
<1>12. LastEvent' = LastEvent /\ event' = LastEvent' - 1 /\ ~(event' <= Columns + 1)
  BY <1>1, <1>5 DEF LastEvent, CopiesOf
<1>13. Steps' = 1
  <2>1. event' - (LastEvent' - 1) = 0
    BY <1>1, <1>5, <1>12
  <2> QED
    BY <1>4, <1>12, <2>1 DEF Steps
<1>14. FollowsAfter(Steps)'
  BY <1>11, <1>13 DEF FollowsAfter
<1>15. Follows'
  BY <1>4, <1>6, <1>12, <1>14 DEF Follows
<1> QED
  BY <1>1, <1>3, <1>4, <1>15

\* Every dot of the pipeline keeps the history's promise.
LEMMA FollowsDot ==
    ASSUME ScrollInv, BgTypeOK, LayersRendered, Follows, PipelineDot
    PROVE  Follows'
<1> SUFFICES ASSUME origin' # Nowhere PROVE Follows'
  BY DEF Follows
<1>1. /\ event \in 1 .. LastEvent /\ event \in Nat /\ phase \in 1 .. 8
      /\ LastEvent = Columns + 3 + CopiesOf(line) /\ CopiesOf(line) \in Nat
      /\ Columns \in Nat /\ Columns > 2
  BY Beam
<1>2. pattern_background' = pattern_background /\ render_background' = render_background
  BY DEF PipelineDot
<1>3. CASE event = LastEvent - 1 /\ phase = 1 /\ render_background
  BY <1>3, FollowsBegin
<1>4. CASE ~(event = LastEvent - 1 /\ phase = 1 /\ render_background)
  <2>1. origin' = origin /\ event # Columns + 1
    <3>1. event > Columns + 1 => ~PictureDot
      BY <1>1 DEF PictureDot
    <3>2. CASE PictureDot
      BY <3>2 DEF PictureDot
    <3>3. CASE ReloadYDot
      BY <3>3, <1>1 DEF ReloadYDot
    <3>4. CASE PrefetchDot
      BY <3>4, <1>1, <1>4 DEF PrefetchDot
    <3> QED
      BY <3>2, <3>3, <3>4 DEF PipelineDot
  <2>2. Tile
    BY <1>1, <2>1 DEF Follows, Tile
  <2> DEFINE p == Steps
  <2>3. /\ render_background /\ rendering /\ origin \in Address
        /\ p \in Nat /\ Steps' = p + 1 /\ phase = (p % 8) + 1
        /\ FollowsAfter(p) /\ prepare_background_tile
        /\ LoadedAfter(shifters', origin, pattern_background, p + 1)
    BY <2>1, <2>2, FollowsTile
  <2>4. /\ phase < 8 => phase' = phase + 1 /\ UNCHANGED scrollVars
        /\ phase = 8 => /\ phase' = 1 /\ NextEvent
                        /\ event # Columns => vram_addr' = IncrementedX(vram_addr)
    BY <2>2, <2>3, TileDot
  <2>5. \/ event' <= Columns + 1 \/ event' = LastEvent'
        \/ event' = LastEvent' - 1 /\ phase' > 1
    <3>1. \/ event <= Columns \/ event = LastEvent
          \/ event = LastEvent - 1 /\ phase > 1
      BY <1>1, <2>1 DEF Follows
    <3>2. CASE phase < 8
      <4>1. event' = event /\ line' = line /\ phase' > 1
        BY <1>1, <2>4, <3>2 DEF scrollVars, beam
      <4>2. LastEvent' = LastEvent
        BY <4>1 DEF LastEvent, CopiesOf
      <4> QED
        BY <1>1, <3>1, <4>1, <4>2
    <3>3. CASE phase = 8
      <4>1. CASE event = LastEvent
        <5>1. event' = 1
          BY <2>4, <3>3, <4>1 DEF NextEvent
        <5> QED
          BY <1>1, <5>1
      <4>2. CASE event # LastEvent
        <5>1. event' = event + 1 /\ line' = line
          BY <2>4, <3>3, <4>2 DEF NextEvent
        <5>2. LastEvent' = LastEvent
          BY <5>1 DEF LastEvent, CopiesOf
        <5> QED
          BY <1>1, <3>1, <4>2, <5>1, <5>2
      <4> QED
        BY <4>1, <4>2
    <3> QED
      BY <1>1, <3>2, <3>3
  <2>6. ASSUME event' # Columns + 1 PROVE FollowsAfter(Steps)'
    <3>1. vram_addr' = IF phase = 8 THEN IncrementedX(vram_addr) ELSE vram_addr
      <4>1. CASE phase < 8
        BY <2>4, <4>1 DEF scrollVars, addresses
      <4>2. CASE phase = 8
        <5>1. event # Columns
          BY <1>1, <2>4, <2>6, <4>2 DEF NextEvent
        <5> QED
          BY <2>4, <4>2, <5>1
      <4> QED
        BY <1>1, <4>1, <4>2
    <3> HIDE DEF p
    <3>2. /\ vram_addr' = TileAcross(origin, (p + 1) \div 8)
          /\ LatchedOf(next', pattern_background,
                       TileAcross(origin, (p + 1) \div 8), (p + 1) % 8)
          /\ (p + 1) % 8 = 0 =>
                LatchedOf(next', pattern_background,
                          TileAcross(origin, ((p + 1) \div 8) - 1), 8)
      BY <2>3, <3>1, LatchesFollow
    <3> QED
      BY <1>2, <2>1, <2>3, <3>2 DEF FollowsAfter
  <2> QED
    BY <1>2, <2>3, <2>5, <2>6 DEF Follows
<1> QED
  BY <1>3, <1>4

\* What an access leaves alone, and what of a history it keeps.
LEMMA AccessKeeps ==
    ASSUME WriteScroll \/ WriteCtrl \/ WriteMask \/ AccessAddress
    PROVE  /\ UNCHANGED <<line, event, phase, next, shifters, pixel>>
           /\ UNCHANGED <<originX, originY>> \/ Forget
           /\ origin' # Nowhere =>
                 UNCHANGED <<vram_addr, pattern_background, render_background, origin>>
<1>1. UNCHANGED <<phase, next, shifters, pixel>>
  BY DEF WriteScroll, WriteCtrl, WriteMask, AccessAddress, Access
<1>2. CASE WriteScroll
  BY <1>1, <1>2 DEF WriteScroll, SetScroll, beam, origins
<1>3. CASE WriteCtrl
  BY <1>1, <1>3 DEF WriteCtrl, SetCtrl, ForgetIf, beam, origins
<1>4. CASE WriteMask
  BY <1>1, <1>4 DEF WriteMask, SetMask, ForgetIf, scrollVars, beam, addresses, origins
<1>5. CASE AccessAddress
  BY <1>1, <1>5 DEF AccessAddress, ReadStatus, SetAddressHigh, SetAddressLow, AccessData,
                    ForgetIf, beam, origins
<1> QED
  BY <1>2, <1>3, <1>4, <1>5

\* A background that is rendered keeps moving the address: $2001 tells Scroll
\* of either layer.
LEMMA LayersKept ==
    ASSUME ScrollInv, BgTypeOK, LayersRendered, [BgNext]_backgroundVars
    PROVE  LayersRendered'
<1>1. CASE PipelineDot
  <2>1. rendering' = rendering
    BY <1>1 DEF PipelineDot, Dot, scrollVars
  <2>2. render_background' = render_background
    BY <1>1 DEF PipelineDot
  <2> QED
    BY <2>1, <2>2 DEF LayersRendered
<1>2. CASE BlankDots
  BY <1>2 DEF BlankDots, BlankLines, pipeline, LayersRendered
<1>3. CASE WriteScroll
  BY <1>3 DEF WriteScroll, SetScroll, LayersRendered
<1>4. CASE WriteCtrl
  BY <1>4 DEF WriteCtrl, SetCtrl, LayersRendered
<1>5. CASE WriteMask
  <2>1. PICK render_sprites \in BOOLEAN :
          IF (render_background' \/ render_sprites) # rendering THEN SetMask
          ELSE UNCHANGED scrollVars
    BY <1>5 DEF WriteMask
  <2>2. render_background' \in BOOLEAN /\ rendering \in BOOLEAN
    BY <1>5 DEF WriteMask, ScrollInv, ScrollTypeOK
  <2>3. CASE (render_background' \/ render_sprites) # rendering
    <3>1. rendering' = ~rendering
      BY <2>1, <2>3 DEF SetMask
    <3> QED
      BY <2>2, <2>3, <3>1, Zenon DEF LayersRendered
  <2>4. CASE (render_background' \/ render_sprites) = rendering
    <3>1. rendering' = rendering
      BY <2>1, <2>4 DEF scrollVars
    <3> QED
      BY <2>2, <2>4, <3>1, Zenon DEF LayersRendered
  <2> QED
    BY <2>3, <2>4
<1>6. CASE AccessAddress
  <2>1. ReadStatus \/ SetAddressHigh \/ SetAddressLow \/ AccessData
    BY <1>6 DEF AccessAddress
  <2>2. rendering' = rendering
    BY <2>1, Zenon DEF ReadStatus, SetAddressHigh, SetAddressLow, AccessData
  <2>3. render_background' = render_background
    BY <1>6 DEF AccessAddress
  <2> QED
    BY <2>2, <2>3 DEF LayersRendered
<1>7. CASE UNCHANGED backgroundVars
  BY <1>7 DEF backgroundVars, scrollVars, pipeline, LayersRendered
<1> QED
  BY <1>1, <1>2, <1>3, <1>4, <1>5, <1>6, <1>7 DEF BgNext

\* So does every step.
LEMMA FollowsStep ==
    ASSUME ScrollInv, BgTypeOK, LayersRendered, Follows, [BgNext]_backgroundVars
    PROVE  Follows'
<1>1. CASE PipelineDot
  BY <1>1, FollowsDot
<1>2. CASE BlankDots
  <2>1. /\ UNCHANGED <<phase, fine_x, pattern_background, render_background, next, shifters,
                       origin, vram_addr>>
        /\ line = Blank /\ event = 1 /\ event' = 1
    BY <1>2 DEF BlankDots, BlankLines, pipeline, addresses, ScrollInv, BeamOnLine
  <2>2. event <= Columns + 1 /\ event' <= Columns + 1 /\ event # Columns + 1
    BY <2>1, BgSizes
  <2>3. Steps' = Steps
    BY <2>1, <2>2 DEF Steps, dot
  <2> QED
    BY <2>1, <2>2, <2>3 DEF Follows, FollowsAfter
<1>3. CASE WriteScroll \/ WriteCtrl \/ WriteMask \/ AccessAddress
  <2> SUFFICES ASSUME origin' # Nowhere PROVE Follows'
    BY DEF Follows
  <2>1. UNCHANGED <<line, event, phase, next, shifters, vram_addr, pattern_background,
                    render_background, origin>>
    BY <1>3, AccessKeeps
  <2> QED
    BY <2>1 DEF Follows, FollowsAfter, Steps, dot, LastEvent, CopiesOf
<1>4. CASE UNCHANGED backgroundVars
  BY <1>4 DEF backgroundVars, pipeline, scrollVars, beam, addresses,
              Follows, FollowsAfter, Steps, dot, LastEvent, CopiesOf
<1> QED
  BY <1>1, <1>2, <1>3, <1>4 DEF BgNext

\* The pixel a dot of the picture draws, from what the shifters then hold.
LEMMA DotShown ==
    ASSUME ScrollInv, BgTypeOK, LayersRendered, Follows, [BgNext]_backgroundVars,
           PixelStep, origin # Nowhere
    PROVE  PipelineDot /\ pixel' = PixelAt(origin, dot - 1 + fine_x)
<1> DEFINE p == Steps
           n == dot - 1 + fine_x
<1>1. /\ event \in Nat /\ event >= 1 /\ event <= Columns /\ Columns \in Nat
      /\ phase \in 1 .. 8 /\ line < Lines /\ Lines \in Nat
  BY Beam, Sizes DEF PixelStep
<1>2. PipelineDot
  <2>1. dot' # dot
    BY DEF PixelStep
  <2>2. ~(WriteScroll \/ WriteCtrl \/ WriteMask \/ AccessAddress)
    BY <2>1, AccessKeeps DEF dot
  <2>3. ~UNCHANGED backgroundVars
    BY <2>1 DEF dot, backgroundVars, pipeline, scrollVars, beam
  <2>4. ~BlankDots
    BY <1>1 DEF BlankDots, BlankLines, Blank
  <2> QED
    BY <2>2, <2>3, <2>4 DEF BgNext
<1>3. Tile /\ PictureDot /\ line # PreRender
  BY <1>1, <1>2, Beam, Sizes DEF Tile, PipelineDot, ReloadYDot, PrefetchDot
<1>4. fine_x \in 0 .. 7 /\ pattern_background \in 0 .. 1
  BY DEF BgTypeOK
<1>5. pixel' = draw_pixel(shifters')
  BY <1>3 DEF PictureDot
<1>6. /\ render_background /\ origin \in Address
      /\ p \in Nat /\ LoadedAfter(shifters', origin, pattern_background, p + 1)
  BY <1>2, <1>3, FollowsTile
<1>7. p = dot + 15 /\ dot \in Nat /\ dot >= 1
  BY <1>1 DEF Steps, dot
<1>8. /\ n \in Nat /\ 1 + fine_x \in 1 .. 16
      /\ n = (p + 1) - 18 + (1 + fine_x)
      /\ n < 8 * (((p + 1) - 1) \div 8)
  <2>1. dot - 1 + fine_x < 8 * ((dot + 15) \div 8)
    BY <1>4, <1>7
  <2> QED
    BY <1>4, <1>7, <2>1
<1>9. shifters'[1 + fine_x] = Raw(origin, pattern_background, n)
  <2> HIDE DEF p, n
  <2> QED
    BY <1>6, <1>8 DEF LoadedAfter
<1>10. draw_pixel(shifters') = PixelAt(origin, n)
  <2> HIDE DEF n
  <2> QED
    BY <1>4, <1>6, <1>8, <1>9, RawIsPixel
<1> QED
  BY <1>2, <1>5, <1>10

\* The pipeline's invariant.
PipelineInv == ScrollInv /\ BgTypeOK /\ LayersRendered /\ Follows

\* It holds at every dot.
LEMMA PipelineInvariant == BgSpec => []PipelineInv
<1>1. BgInit => LayersRendered /\ Follows
  <2>1. BgInit => Follows
    BY DEF BgInit, Follows
  <2>2. BgInit => LayersRendered
    BY Zenon DEF BgInit, LayersRendered
  <2> QED
    BY <2>1, <2>2
<1>2. BgInit => PipelineInv
  BY <1>1, BgInitScrolls, BgInitType DEF PipelineInv
<1>3. PipelineInv /\ [BgNext]_backgroundVars => PipelineInv'
  <2>1. ScrollInv /\ [BgNext]_backgroundVars => ScrollInv'
    BY BgStepScrolls, ScrollStep
  <2> QED
    BY <2>1, BgTypeStep, LayersKept, FollowsStep DEF PipelineInv
<1> QED
  BY <1>2, <1>3, PTL DEF BgSpec

\* PixelShown, for nametables of any size and any contents, any patterns, and
\* any number of accesses at any dot: a pixel of a line whose fetches nothing
\* disturbed is the one memory names at the scrolled column.
THEOREM PixelsShown == BgSpec => PixelShown
<1>1. PipelineInv /\ [BgNext]_backgroundVars
        => [PixelStep /\ origin # Nowhere
              => pixel' = PixelAt(origin, dot - 1 + fine_x)]_backgroundVars
  BY DotShown DEF PipelineInv
<1> QED
  BY <1>1, PipelineInvariant, PTL DEF BgSpec, PixelShown

-----------------------------------------------------------------------------
(* The whole picture.  The tiles fetched from origin on are those of a row *)
(* of the plane, in the place the history of the reloads gives them.       *)

\* The line that the tiles fetched last are for.
ShownLine ==
    IF event <= Columns + 1 THEN line ELSE IF line = PreRender THEN 0 ELSE line + 1

\* Where origin is, by the last reloads.  Tiles fetched for the lines between
\* the picture and the reload of y are never shown.
OriginPlace ==
    origin # Nowhere =>
        /\ originX # None => Column(origin) = originX
        /\ originY # None /\ line # Blank /\ (line = PreRender => event > Columns + 1)
              => /\ origin.coarse_y < Rows
                 /\ Row(origin) = (originY + ShownLine) % (2 * Lines)

\* At dot 321 both increments and both reloads of the line before are done.
LEMMA PlaceBegins ==
    ASSUME ScrollInv, line # Blank, event = LastEvent - 1, originX # None
    PROVE  Column(vram_addr) = originX
<1>1. /\ CopiesOf(line) \in Nat /\ Columns \in Nat /\ event = Columns + 2 + CopiesOf(line)
      /\ originX \in 0 .. 2 * Columns - 1
  BY Sizes DEF LastEvent, CopiesOf, ScrollInv, ScrollTypeOK
<1>2. Fetched = 0
  BY <1>1 DEF Fetched
<1>3. originX % Columns < Columns /\ originX % Columns \in Nat
  BY <1>1, Sizes, DivMod
<1> QED
  BY <1>1, <1>2, <1>3 DEF ScrollInv, ColumnShown

LEMMA RowBegins ==
    ASSUME ScrollInv, line # Blank, event = LastEvent - 1, originY # None
    PROVE  vram_addr.coarse_y < Rows /\ Row(vram_addr) = (originY + ShownLine) % (2 * Lines)
<1>1. /\ CopiesOf(line) \in Nat /\ Columns \in Nat /\ event = Columns + 2 + CopiesOf(line)
      /\ originY \in 0 .. 2 * Lines - 1 /\ line \in 0 .. PreRender
  BY Sizes DEF LastEvent, CopiesOf, ScrollInv, ScrollTypeOK
<1>2. vram_addr.coarse_y < Rows
  BY DEF ScrollInv, HistoryKept
<1>3. CASE line = PreRender
  <2>1. event > Columns + 2
    BY <1>1, <1>3, Sizes DEF CopiesOf
  <2>2. Row(vram_addr) = originY
    BY <1>3, <2>1 DEF ScrollInv, RowReloaded
  <2>3. ShownLine = 0 /\ originY + 0 = originY
    BY <1>1, <1>3 DEF ShownLine
  <2> DEFINE d == 2 * Lines
  <2>4. /\ originY \in Nat /\ d \in Nat \ {0} /\ originY \in 0 .. d - 1 /\ 0 \in Nat
        /\ originY = d * 0 + originY
    BY <1>1, Sizes
  <2> HIDE DEF d
  <2>5. originY % d = originY
    BY <2>4, DivModUnique
  <2> QED
    BY <1>2, <2>2, <2>3, <2>5 DEF d
<1>4. CASE line # PreRender
  <2>1. line < Lines /\ RowsDone = 1 /\ ShownLine = line + 1
    BY <1>1, <1>4, Sizes DEF RowsDone, ShownLine
  <2>2. Row(vram_addr) = (originY + line + RowsDone) % (2 * Lines)
    BY <2>1 DEF ScrollInv, RowShown
  <2>3. originY + line + RowsDone = originY + ShownLine
    BY <1>1, <2>1, Sizes
  <2> QED
    BY <1>2, <2>2, <2>3
<1> QED
  BY <1>3, <1>4

\* A dot keeps the place, or takes a new one.
LEMMA PlaceDot ==
    ASSUME PipelineInv, OriginPlace, PipelineDot
    PROVE  OriginPlace'
<1> SUFFICES ASSUME origin' # Nowhere PROVE OriginPlace'
  BY DEF OriginPlace
<1>1. /\ event \in 1 .. LastEvent /\ event \in Nat /\ phase \in 1 .. 8
      /\ LastEvent = Columns + 3 + CopiesOf(line) /\ CopiesOf(line) \in Nat
      /\ Columns \in Nat /\ Columns > 2 /\ line \in 0 .. PreRender
  BY Beam DEF PipelineInv
<1>2. line # Blank
  BY DEF PipelineDot, Picture
<1>3. CASE event = LastEvent - 1 /\ phase = 1 /\ render_background
  <2>1. origin' = vram_addr /\ UNCHANGED scrollVars
    BY <1>3, FollowsBegin DEF PipelineInv
  <2>2. UNCHANGED <<line, event, originX, originY>>
    BY <2>1 DEF scrollVars, beam, origins
  <2>3. ShownLine' = ShownLine
    BY <2>2 DEF ShownLine
  <2>4. originX # None => Column(vram_addr) = originX
    BY <1>2, <1>3, PlaceBegins DEF PipelineInv
  <2>5. originY # None => /\ vram_addr.coarse_y < Rows
                          /\ Row(vram_addr) = (originY + ShownLine) % (2 * Lines)
    BY <1>2, <1>3, RowBegins DEF PipelineInv
  <2> QED
    BY <2>1, <2>2, <2>3, <2>4, <2>5 DEF OriginPlace
<1>4. CASE ~(event = LastEvent - 1 /\ phase = 1 /\ render_background)
  <2>1. origin' = origin /\ event # Columns + 1
    <3>1. CASE PictureDot
      BY <3>1 DEF PictureDot
    <3>2. CASE ReloadYDot
      BY <3>2, <1>1 DEF ReloadYDot
    <3>3. CASE PrefetchDot
      BY <3>3, <1>1, <1>4 DEF PrefetchDot
    <3> QED
      BY <3>1, <3>2, <3>3 DEF PipelineDot
  <2>2. Tile
    BY <1>1, <2>1 DEF PipelineInv, Follows, Tile
  <2>3. originX' = originX /\ originY' = originY
    BY <2>2, TileDot DEF PipelineInv
  <2>4. \/ line' = line /\ event' = event
        \/ line' = line /\ event' = event + 1 /\ event # LastEvent
        \/ event = LastEvent /\ event' = 1 /\ line' = IF line = PreRender THEN 0 ELSE line + 1
    BY <1>1, <2>2, TileDot DEF PipelineInv, scrollVars, beam, NextEvent
  <2>5. \/ ShownLine' = ShownLine /\ (event' > Columns + 1 <=> event > Columns + 1)
           /\ line' = line
        \/ ShownLine' = ShownLine /\ line = PreRender /\ event > Columns + 1
        \/ line' = Blank
        \/ ShownLine' = ShownLine /\ line # PreRender /\ line' = line + 1
    <3>1. CASE line' = line /\ event' = event
      BY <3>1 DEF ShownLine
    <3>2. CASE line' = line /\ event' = event + 1 /\ event # LastEvent
      <4>1. event' > Columns + 1 <=> event > Columns + 1
        BY <1>1, <2>1, <3>2
      <4>2. ShownLine' = ShownLine
        BY <1>1, <2>1, <3>2 DEF ShownLine
      <4> QED
        BY <3>2, <4>1, <4>2
    <3>3. CASE /\ event = LastEvent /\ event' = 1
               /\ line' = IF line = PreRender THEN 0 ELSE line + 1
      <4>1. event > Columns + 1 /\ event' <= Columns + 1
        BY <1>1, <3>3
      <4>2. ShownLine' = line' /\ ShownLine = line'
        BY <4>1, <3>3, <1>1 DEF ShownLine
      <4> QED
        BY <3>3, <4>1, <4>2
    <3> QED
      BY <2>4, <3>1, <3>2, <3>3
  <2>6. line # PreRender /\ line' = line + 1 => line' # PreRender \/ line' = Blank
    BY <1>1, <1>2, Sizes
  <2> QED
    BY <1>2, <2>1, <2>3, <2>5, <2>6 DEF OriginPlace
<1> QED
  BY <1>3, <1>4

\* So does every step.
LEMMA PlaceStep ==
    ASSUME PipelineInv, OriginPlace, [BgNext]_backgroundVars
    PROVE  OriginPlace'
<1>1. CASE PipelineDot
  BY <1>1, PlaceDot
<1>2. CASE BlankDots
  <2>1. UNCHANGED <<origin, originX>> /\ line' = PreRender /\ event' = 1
    BY <1>2 DEF BlankDots, BlankLines, pipeline, origins
  <2>2. ~(event' > Columns + 1)
    BY <2>1, BgSizes
  <2> QED
    BY <2>1, <2>2 DEF OriginPlace
<1>3. CASE WriteScroll \/ WriteCtrl \/ WriteMask \/ AccessAddress
  <2> SUFFICES ASSUME origin' # Nowhere PROVE OriginPlace'
    BY DEF OriginPlace
  <2>1. /\ UNCHANGED <<line, event, origin>>
        /\ UNCHANGED <<originX, originY>> \/ Forget
    BY <1>3, AccessKeeps
  <2>2. ShownLine' = ShownLine
    BY <2>1 DEF ShownLine
  <2> QED
    BY <2>1, <2>2 DEF OriginPlace, Forget
<1>4. CASE UNCHANGED backgroundVars
  <2>1. UNCHANGED <<line, event, origin, originX, originY>>
    BY <1>4 DEF backgroundVars, pipeline, scrollVars, beam, origins
  <2>2. ShownLine' = ShownLine
    BY <2>1 DEF ShownLine
  <2> QED
    BY <2>1, <2>2 DEF OriginPlace
<1> QED
  BY <1>1, <1>2, <1>3, <1>4 DEF BgNext

\* A place in the plane has one address.
LEMMA CornerIsOrigin ==
    ASSUME PipelineInv, OriginPlace, line < Lines, event <= Columns,
           origin # Nowhere, originX # None, originY # None
    PROVE  Corner = origin
<1>1. origin \in Address
  BY DEF PipelineInv, BgTypeOK
<1>2. line \in Nat /\ line # Blank /\ line # PreRender /\ ShownLine = line
  BY Beam, Sizes DEF PipelineInv, ShownLine
<1>3. Column(origin) = originX
  BY DEF OriginPlace
<1>4. origin.coarse_y < Rows /\ Row(origin) = (originY + line) % (2 * Lines)
  BY <1>2 DEF OriginPlace
<1>5. originX % Columns = origin.coarse_x /\ originX \div Columns = origin.nametable_x
  BY <1>1, <1>3, ColumnForm
<1> DEFINE row == (originY + line) % (2 * Lines)
           y == origin.coarse_y
           f == origin.fine_y
           t == origin.nametable_y
           inside == FineRows * y + f
<1>6. /\ y \in Nat /\ y < Rows /\ f \in 0 .. FineRows - 1 /\ t \in 0 .. 1
  BY <1>1, <1>4 DEF Address
<1>7. inside \in 0 .. Lines - 1 /\ row = Lines * t + inside
  <2>1. FineRows * y + FineRows <= FineRows * Rows /\ FineRows * y \in Nat
    BY <1>6, Sizes, ProductGap
  <2>2. FineRows * Rows = Lines
    BY Sizes DEF Lines
  <2>3. row = (t * Rows + y) * FineRows + f
    BY <1>4 DEF Row
  <2>4. (t * Rows + y) * FineRows = Lines * t + FineRows * y
    <3>1. CASE t = 0
      BY <3>1, <1>6, Sizes
    <3>2. CASE t = 1
      BY <3>2, <1>6, <2>2, Sizes
    <3> QED
      BY <1>6, <3>1, <3>2
  <2> HIDE DEF row
  <2>5. inside \in 0 .. Lines - 1
    BY <1>6, <2>1, <2>2, Sizes
  <2> QED
    BY <1>6, <2>1, <2>3, <2>4, <2>5, Sizes
<1> HIDE DEF row, y, f, t, inside
<1>8. row % Lines = inside /\ row \div Lines = t
  <2>1. row \in Nat /\ t \in Nat
    <3>1. Lines * t \in Nat
      BY <1>6, Sizes
    <3> QED
      BY <1>6, <1>7, <3>1
  <2> QED
    BY <1>7, <2>1, Sizes, DivModUnique
<1>9. inside % FineRows = f /\ inside \div FineRows = y
  <2>1. inside \in Nat /\ inside = FineRows * y + f
    BY <1>7, Sizes DEF inside
  <2> QED
    BY <1>6, <2>1, Sizes, DivModUnique
\* A nametable is a whole number of tiles high.
<1>10. row % FineRows = f
  <2> DEFINE q == Rows * t + y
  <2>1. q \in Nat /\ Lines * t = FineRows * (Rows * t)
    <3>1. CASE t = 0
      BY <3>1, <1>6, Sizes
    <3>2. CASE t = 1
      BY <3>2, <1>6, Sizes DEF Lines
    <3> QED
      BY <1>6, <3>1, <3>2
  <2>2. row = FineRows * q + f
    <3>1. FineRows * q = FineRows * (Rows * t) + FineRows * y
      <4>1. Rows * t \in Nat
        BY <1>6, Sizes
      <4> QED
        BY <1>6, <4>1, Sizes
    <3>2. FineRows * y \in Nat /\ FineRows * (Rows * t) \in Nat
      BY <1>6, Sizes
    <3> QED
      BY <1>6, <1>7, <2>1, <3>1, <3>2 DEF inside
  <2> HIDE DEF q
  <2>3. row \in Nat
    <3>1. FineRows * q \in Nat
      BY <2>1, Sizes
    <3> QED
      BY <1>6, <2>2, <3>1
  <2> QED
    BY <1>6, <2>1, <2>2, <2>3, Sizes, DivModUnique
<1>11. Corner = [coarse_x |-> origin.coarse_x, nametable_x |-> origin.nametable_x,
                 coarse_y |-> y, nametable_y |-> t, fine_y |-> f]
  BY <1>5, <1>8, <1>9, <1>10, Zenon DEF Corner, row
<1> QED
  BY <1>1, <1>11 DEF Address, y, t, f

\* PictureShown: with the reloads of the frame known and nothing disturbing the
\* fetches of the line, every pixel is the one the plane of the nametables has
\* there, for nametables of any size and any accesses by the ROM.
THEOREM PicturesShown == BgSpec => PictureShown
<1>1. BgInit => OriginPlace
  BY DEF BgInit, OriginPlace
<1>2. PipelineInv /\ OriginPlace /\ [BgNext]_backgroundVars => OriginPlace'
  BY PlaceStep
<1>3. ASSUME PipelineInv, OriginPlace, [BgNext]_backgroundVars, PixelStep,
             origin # Nowhere, originX # None, originY # None
      PROVE  pixel' = PixelAt(Corner, dot - 1 + fine_x)
  <2>1. pixel' = PixelAt(origin, dot - 1 + fine_x)
    BY <1>3, DotShown DEF PipelineInv
  <2>2. Corner = origin
    BY <1>3, CornerIsOrigin DEF PixelStep
  <2> QED
    BY <2>1, <2>2
<1>4. PipelineInv /\ OriginPlace /\ [BgNext]_backgroundVars
        => [PixelStep /\ origin # Nowhere /\ originX # None /\ originY # None
              => pixel' = PixelAt(Corner, dot - 1 + fine_x)]_backgroundVars
  BY <1>3
<1> QED
  BY <1>1, <1>2, <1>4, PipelineInvariant, PTL DEF BgSpec, PictureShown
=============================================================================
