------------------------------- MODULE Scroll -------------------------------
(***************************************************************************)
(* Background scrolling: the two address registers of the PPU against the  *)
(* beam.  While a frame is drawn, vram_addr walks over the tiles of the    *)
(* four nametables (increment_scroll_x, increment_scroll_y) and is         *)
(* reloaded, in parts, from temp_addr (reload_scroll_x, reload_scroll_y);  *)
(* at any moment the ROM may write the registers that change either.  One  *)
(* step is one dot at which something can happen; dots between them, and   *)
(* the lines between the picture and the pre-render line, are skipped.     *)
(***************************************************************************)
EXTENDS Integers

CONSTANTS
    Columns,    \* tiles in a row of a nametable: 32
    Rows,       \* rows of tiles in a nametable: 30
    CoarseRows, \* values of coarse_y: 32
    FineRows,   \* pixel rows in a tile: 8
    LowRows,    \* values of the bits of coarse_y in the low byte of $2006: 8
    Copies,     \* dots of the pre-render line that reload y: 280 to 304, 25
    XScrolls,   \* tile columns the ROM writes to $2005,
    YScrolls,   \*   pixel rows it writes to $2005,
    Targets,    \*   and addresses it writes to $2006
    Registers   \* registers the ROM uses in this model

ASSUME ScrollAssumption ==
    /\ Columns \in Nat /\ Columns > 2
    /\ Rows \in Nat \ {0} /\ CoarseRows \in Nat /\ Rows < CoarseRows
    /\ FineRows \in Nat \ {0} /\ LowRows \in Nat \ {0} /\ Copies \in Nat \ {0}
    /\ CoarseRows % LowRows = 0
    /\ XScrolls \subseteq 0 .. Columns - 1
    /\ YScrolls \subseteq 0 .. CoarseRows * FineRows - 1
    /\ Targets \subseteq Nat

Lines == Rows * FineRows
Blank == Lines          \* stands for lines 240 to 260
PreRender == Lines + 1

VARIABLES
    line,
    event,          \* the dot, counted in events of the line
    vram_addr,
    temp_addr,
    write_latch,
    rendering,      \* mask.render_background or mask.render_sprites
    originX,        \* history: the column loaded by the last x reload,
    originY         \*   and the row loaded by the last y reload; or None

beam == <<line, event>>
addresses == <<vram_addr, temp_addr, write_latch>>
origins == <<originX, originY>>
scrollVars == <<beam, addresses, rendering, origins>>

\* VRAM_ADDR_REGISTER.
Address == [coarse_x : 0 .. Columns - 1, coarse_y : 0 .. CoarseRows - 1,
            nametable_x : 0 .. 1, nametable_y : 0 .. 1, fine_y : 0 .. FineRows - 1]

\* The register as a number, and back.
Encoded(a) ==
    a.coarse_x + Columns * (a.coarse_y + CoarseRows *
        (a.nametable_x + 2 * (a.nametable_y + 2 * a.fine_y)))
Decoded(n) ==
    LET rows == n \div Columns
        tables == rows \div CoarseRows
    IN  [coarse_x |-> n % Columns, coarse_y |-> rows % CoarseRows,
         nametable_x |-> tables % 2, nametable_y |-> (tables \div 2) % 2,
         fine_y |-> (tables \div 4) % FineRows]

\* The place an address names in the plane of the four nametables.
None == -1
Column(a) == a.nametable_x * Columns + a.coarse_x
Row(a) == (a.nametable_y * Rows + a.coarse_y) * FineRows + a.fine_y

ScrollTypeOK ==
    /\ line \in 0 .. PreRender
    /\ event \in 1 .. Columns + 3 + Copies
    /\ vram_addr \in Address /\ temp_addr \in Address
    /\ write_latch \in 0 .. 1
    /\ rendering \in BOOLEAN
    /\ originX \in {None} \cup 0 .. 2 * Columns - 1
    /\ originY \in {None} \cup 0 .. 2 * Lines - 1

ScrollInit ==
    /\ line = 0 /\ event = 1
    /\ vram_addr = Decoded(0) /\ temp_addr = Decoded(0)
    /\ write_latch = 0
    /\ rendering = FALSE
    /\ originX = None /\ originY = None

-----------------------------------------------------------------------------
(***************************************************************************)
(* The four functions that move vram_addr while rendering is on.           *)
(***************************************************************************)

\* Mutant: the column is not wrapped.
IncrementedXNoWrap(a) == [a EXCEPT !.coarse_x = @ + 1]

\* increment_scroll_x().  nametable_x ^= nametable_x clears the bit.
IncrementedX(a) ==
    IF a.coarse_x = Columns - 1
    THEN [a EXCEPT !.coarse_x = 0, !.nametable_x = 0]
    ELSE [a EXCEPT !.coarse_x = @ + 1]

\* Mutant: the attribute rows are walked as if they held tiles.
IncrementedYLate(a) ==
    IF a.fine_y < FineRows - 1 THEN [a EXCEPT !.fine_y = @ + 1]
    ELSE IF a.coarse_y = CoarseRows - 1
    THEN [a EXCEPT !.fine_y = 0, !.coarse_y = 0, !.nametable_y = 1 - @]
    ELSE [a EXCEPT !.fine_y = 0, !.coarse_y = @ + 1]

\* increment_scroll_y().
IncrementedY(a) ==
    IF a.fine_y < FineRows - 1 THEN [a EXCEPT !.fine_y = @ + 1]
    ELSE IF a.coarse_y = Rows - 1
    THEN [a EXCEPT !.fine_y = 0, !.coarse_y = 0, !.nametable_y = 1 - @]
    ELSE IF a.coarse_y = CoarseRows - 1
    THEN [a EXCEPT !.fine_y = 0, !.coarse_y = 0]
    ELSE [a EXCEPT !.fine_y = 0, !.coarse_y = @ + 1]

\* Mutant: only the nametable is reloaded.
ReloadedXTableOnly(a) == [a EXCEPT !.nametable_x = temp_addr.nametable_x]

\* reload_scroll_x() and reload_scroll_y().
ReloadedX(a) ==
    [a EXCEPT !.nametable_x = temp_addr.nametable_x, !.coarse_x = temp_addr.coarse_x]
ReloadedY(a) ==
    [a EXCEPT !.fine_y = temp_addr.fine_y, !.coarse_y = temp_addr.coarse_y,
              !.nametable_y = temp_addr.nametable_y]

-----------------------------------------------------------------------------
(***************************************************************************)
(* The beam (ppu_run_cycle and prepare_background_tile).                   *)
(***************************************************************************)

\* Only the pre-render line has dots that reload y.
CopiesOf(l) == IF l = PreRender THEN Copies ELSE 0
LastEvent == Columns + 3 + CopiesOf(line)
Picture == line # Blank

NextEvent ==
    IF event = LastEvent
    THEN event' = 1 /\ line' = IF line = PreRender THEN 0 ELSE line + 1
    ELSE event' = event + 1 /\ UNCHANGED line

\* Every eighth dot up to 256 moves to the next tile, and 256 to the next row.
FetchTile ==
    /\ Picture /\ event <= Columns
    /\ vram_addr' = IF ~rendering THEN vram_addr
                    ELSE IF event = Columns THEN IncrementedY(IncrementedX(vram_addr))
                    ELSE IncrementedX(vram_addr)
    /\ UNCHANGED origins

\* Dot 257.
ReloadX ==
    /\ Picture /\ event = Columns + 1
    /\ IF rendering
       THEN vram_addr' = ReloadedX(vram_addr) /\ originX' = Column(temp_addr)
       ELSE UNCHANGED <<vram_addr, originX>>
    /\ UNCHANGED originY

\* Dots 280 to 304 of the pre-render line.  A scroll into the attribute rows
\* (coarse_y of 30 or 31) has no row of the plane.
ReloadY ==
    /\ Picture /\ event > Columns + 1 /\ event <= Columns + 1 + CopiesOf(line)
    /\ IF rendering
       THEN /\ vram_addr' = ReloadedY(vram_addr)
            /\ originY' = IF temp_addr.coarse_y < Rows THEN Row(temp_addr) ELSE None
       ELSE UNCHANGED <<vram_addr, originY>>
    /\ UNCHANGED originX

\* Dots 328 and 336 fetch the first two tiles of the next line.
Prefetch ==
    /\ Picture /\ event > Columns + 1 + CopiesOf(line)
    /\ vram_addr' = IF rendering THEN IncrementedX(vram_addr) ELSE vram_addr
    /\ UNCHANGED origins

Dot ==
    /\ FetchTile \/ ReloadX \/ ReloadY \/ Prefetch
    /\ NextEvent
    /\ UNCHANGED <<temp_addr, write_latch, rendering>>

\* Lines 240 to 260 leave the address alone.
BlankLines ==
    /\ line = Blank
    /\ line' = PreRender /\ event' = 1
    /\ UNCHANGED <<addresses, rendering, origins>>

-----------------------------------------------------------------------------
(***************************************************************************)
(* The ROM.  What it does to vram_addr itself ends the history.            *)
(***************************************************************************)

Forget == originX' = None /\ originY' = None

\* A write to $2000 puts the nametable bits in temp_addr.
SetCtrl ==
    /\ "PPUCTRL" \in Registers
    /\ \E nx \in 0 .. 1, ny \in 0 .. 1 :
          temp_addr' = [temp_addr EXCEPT !.nametable_x = nx, !.nametable_y = ny]
    /\ UNCHANGED <<beam, vram_addr, write_latch, rendering, origins>>

\* A write to $2001 that turns rendering on or off.
SetMask ==
    /\ "PPUMASK" \in Registers
    /\ rendering' = ~rendering
    /\ Forget
    /\ UNCHANGED <<beam, addresses>>

\* A read of $2002 resets the latch.
ReadStatus ==
    /\ "PPUSTATUS" \in Registers
    /\ write_latch' = 0
    /\ UNCHANGED <<beam, vram_addr, temp_addr, rendering, origins>>

\* A write to $2005.
SetScroll ==
    /\ "PPUSCROLL" \in Registers
    /\ write_latch' = 1 - write_latch
    /\ \/ /\ write_latch = 0
          /\ \E x \in XScrolls : temp_addr' = [temp_addr EXCEPT !.coarse_x = x]
       \/ /\ write_latch = 1
          /\ \E y \in YScrolls :
                temp_addr' = [temp_addr EXCEPT !.fine_y = y % FineRows,
                                               !.coarse_y = y \div FineRows]
    /\ UNCHANGED <<beam, vram_addr, rendering, origins>>

\* A write to $2006: the high byte goes to temp_addr, with the top bit of
\* fine_y cleared; the low byte completes temp_addr and copies it.
SetAddressHigh ==
    /\ "PPUADDR" \in Registers /\ write_latch = 0 /\ write_latch' = 1
    /\ \E n \in Targets :
          LET a == Decoded(n)
              y == (a.coarse_y \div LowRows) * LowRows + (temp_addr.coarse_y % LowRows)
          IN  temp_addr' = [a EXCEPT !.coarse_x = temp_addr.coarse_x, !.coarse_y = y,
                                     !.fine_y = @ % ((FineRows + 1) \div 2)]
    /\ UNCHANGED <<beam, vram_addr, rendering, origins>>

SetAddressLow ==
    /\ "PPUADDR" \in Registers /\ write_latch = 1 /\ write_latch' = 0
    /\ \E n \in Targets :
          LET a == Decoded(n)
              y == (temp_addr.coarse_y \div LowRows) * LowRows + (a.coarse_y % LowRows)
          IN  temp_addr' = [temp_addr EXCEPT !.coarse_x = a.coarse_x, !.coarse_y = y]
    /\ vram_addr' = temp_addr'
    /\ Forget
    /\ UNCHANGED <<beam, rendering>>

\* An access to $2007 (of a palette read nothing is left to model here).
AccessData ==
    /\ "PPUDATA" \in Registers
    /\ \E increment \in {1, Columns} :
          vram_addr' = Decoded(Encoded(vram_addr) + increment)
    /\ Forget
    /\ UNCHANGED <<beam, temp_addr, write_latch, rendering>>

ScrollNext ==
    \/ Dot \/ BlankLines
    \/ SetCtrl \/ SetMask \/ ReadStatus \/ SetScroll
    \/ SetAddressHigh \/ SetAddressLow \/ AccessData

ScrollSpec == ScrollInit /\ [][ScrollNext]_scrollVars

-----------------------------------------------------------------------------

RowsDone == IF event > Columns THEN 1 ELSE 0

\* Line n of the picture shows row n below the one the scroll registers named
\* on the pre-render line, across the lower edge of a nametable and around the
\* plane, whatever the ROM writes to $2000 and $2005, or half-writes to $2006,
\* while the picture is drawn.
RowShown ==
    originY # None /\ line < Lines =>
        Row(vram_addr) =
            (originY + line + RowsDone) % (2 * Lines)

\* Tiles fetched since the last x reload, the two of the end of the previous
\* line included.
Fetched ==
    IF line = Blank \/ event <= Columns + 1 THEN event + 1
    ELSE IF event <= Columns + 2 + CopiesOf(line) THEN 0 ELSE 1

\* The tiles of a line are consecutive columns from the one in effect at its
\* start, in the nametable it names as far as that goes, and modulo the width
\* of a nametable beyond its edge.
ColumnShown ==
    originX # None =>
        /\ vram_addr.coarse_x = (originX + Fetched) % Columns
        /\ (originX % Columns) + Fetched < Columns
              => Column(vram_addr) = originX + Fetched

\* README.md:8, "Accurate PPU background rendering": the columns of a line
\* continue from one nametable into the next, so the whole picture is the part
\* of the plane that starts at the scroll position.
ColumnsContinue ==
    originX # None /\ line < Lines =>
        Column(vram_addr) = (originX + Fetched) % (2 * Columns)
=============================================================================
