----------------------------- MODULE Background -----------------------------
(***************************************************************************)
(* The background pipeline of the PPU.  Every eight dots                   *)
(* prepare_background_tile() fetches a tile's number, palette and two      *)
(* pattern bytes, one at a time, from where vram_addr then points; the     *)
(* four shifters carry two tiles to draw_pixel(), which taps them at       *)
(* fine_x.  The ROM may access a register at any dot.                      *)
(*                                                                         *)
(* The beam and the address registers are Scroll's: an event of a line is  *)
(* the eight dots of a tile, the last of which moves the address, or a     *)
(* single dot (257, and those that reload y), and one step is one dot.     *)
(* VRAM is what VramPort finds there, and the four shifters, which always  *)
(* move together, are one sequence of pixels: 4 * palette + value.         *)
(***************************************************************************)
EXTENDS Scroll

CONSTANTS
    Vram,       \* the bytes of the four nametables, by address
    Chr,        \* the bits of each byte of CHR, leftmost first
    TableSize,  \* bytes of a pattern table: 4096
    FineScrolls,    \* pixel columns of a tile the ROM writes to $2005
    MaxWrites   \* bound: register accesses while lines are drawn

ASSUME BackgroundAssumption ==
    /\ Columns % 4 = 0
    /\ (CoarseRows - 1) \div 4 < 4 * (CoarseRows - Rows)   \* room for the attributes
    /\ TableSize \in Nat /\ 2 * FineRows * 256 <= TableSize
    /\ Vram \in [0 .. 4 * (Columns * CoarseRows) - 1 -> 0 .. 255]
    /\ Chr \in [0 .. 2 * TableSize - 1 -> [1 .. 8 -> 0 .. 1]]
    /\ FineScrolls \subseteq 0 .. 7 /\ MaxWrites \in Nat

VARIABLES
    phase,      \* dot % 8, with 8 for 0
    fine_x,
    pattern_background,
    render_background,
    next,       \* next_tile_id, next_tile_attr, next_tile_lsb, next_tile_msb
    shifters,   \* 16 pixels, the next one first
    pixel,      \* the last pixel drawn
    origin,     \* history: the address at dot 321, while nothing disturbs it
    writes      \* register accesses so far

pipeline ==
    <<phase, fine_x, pattern_background, render_background, next, shifters, pixel, origin,
      writes>>
backgroundVars == <<scrollVars, pipeline>>

\* cur_dot, up to 257.
dot == 8 * (event - 1) + phase

Nowhere == [coarse_x |-> None]
Byte == [1 .. 8 -> 0 .. 1]

BgTypeOK ==
    /\ phase \in 1 .. 8
    /\ fine_x \in 0 .. 7 /\ pattern_background \in 0 .. 1
    /\ render_background \in BOOLEAN
    /\ next \in [id : 0 .. 255, attr : 0 .. 3, lsb : Byte, msb : Byte]
    /\ shifters \in [1 .. 16 -> 0 .. 15] /\ pixel \in 0 .. 15
    /\ origin \in Address \cup {Nowhere} /\ writes \in 0 .. MaxWrites

-----------------------------------------------------------------------------
(* prepare_background_tile().                                              *)

Cells == Columns * CoarseRows
TableOf(a) == Cells * (a.nametable_x + 2 * a.nametable_y)

TileByte(a) == Vram[TableOf(a) + Columns * a.coarse_y + a.coarse_x]

\* The attributes follow the tiles, a byte for a block of 4 by 4.
AttributeByte(a) ==
    Vram[TableOf(a) + Columns * Rows
         + (a.coarse_y \div 4) * (Columns \div 4) + a.coarse_x \div 4]

\* Mutant: the quarter is not cut out of the byte.
PaletteUnmasked(a) ==
    LET rows == AttributeByte(a) \div (IF (a.coarse_y \div 2) % 2 = 1 THEN 16 ELSE 1)
    IN  rows \div (IF (a.coarse_x \div 2) % 2 = 1 THEN 4 ELSE 1)

\* Mutant: the shifts of the two coordinates are swapped.
PaletteSwapped(a) ==
    LET rows == AttributeByte(a) \div (IF (a.coarse_y \div 2) % 2 = 1 THEN 4 ELSE 1)
    IN  (rows \div (IF (a.coarse_x \div 2) % 2 = 1 THEN 16 ELSE 1)) % 4

\* The two bits of the quarter of the block the tile lies in.
Palette(a) ==
    LET rows == AttributeByte(a) \div (IF (a.coarse_y \div 2) % 2 = 1 THEN 16 ELSE 1)
    IN  (rows \div (IF (a.coarse_x \div 2) % 2 = 1 THEN 4 ELSE 1)) % 4

PatternByte(plane) ==
    Chr[TableSize * pattern_background + 2 * FineRows * next.id
        + vram_addr.fine_y + FineRows * plane]

\* The latch each phase fills.
Latched ==
    CASE phase = 1 -> [next EXCEPT !.id = TileByte(vram_addr)]
      [] phase = 3 -> [next EXCEPT !.attr = Palette(vram_addr)]
      [] phase = 5 -> [next EXCEPT !.lsb = PatternByte(0)]
      [] phase = 7 -> [next EXCEPT !.msb = PatternByte(1)]
      [] OTHER -> next

\* update_shifters(), for the background.
update_shifters ==
    IF render_background
    THEN [i \in 1 .. 16 |-> IF i < 16 THEN shifters[i + 1] ELSE 0]
    ELSE shifters

\* load_shifters(): the latches replace the second tile.
load_shifters(s) ==
    [i \in 1 .. 16 |->
        IF i <= 8 THEN s[i]
        ELSE 4 * next.attr + next.lsb[i - 8] + 2 * next.msb[i - 8]]

\* Phase 0, the step to the next tile, is Scroll's.
prepare_background_tile ==
    /\ next' = Latched
    /\ shifters' = IF phase = 1 THEN load_shifters(update_shifters)
                   ELSE update_shifters

\* draw_pixel() where no sprite is: value 0 is the backdrop in every palette.
draw_pixel(s) ==
    LET tapped == s[1 + fine_x]
    IN  IF render_background /\ tapped % 4 # 0 THEN tapped ELSE 0

-----------------------------------------------------------------------------
(* ppu_run_cycle().                                                        *)

\* Dots 1 to 257.
PictureDot ==
    /\ event <= Columns + 1
    /\ prepare_background_tile
    /\ pixel' = IF line = PreRender THEN pixel ELSE draw_pixel(shifters')
    /\ origin' = IF event = Columns + 1 THEN Nowhere ELSE origin

\* Dots 280 to 304.
ReloadYDot ==
    /\ event > Columns + 1 /\ event <= Columns + 1 + CopiesOf(line)
    /\ UNCHANGED <<next, shifters, pixel, origin>>

\* Dots 321 to 336.
PrefetchDot ==
    /\ event > Columns + 1 + CopiesOf(line)
    /\ prepare_background_tile
    /\ origin' = IF event = LastEvent - 1 /\ phase = 1 /\ render_background THEN vram_addr
                 ELSE origin
    /\ UNCHANGED pixel

\* The eight dots of a tile are one event of Scroll, and move the address at
\* its end; so is each of the dots that reload it.
Tile == event <= Columns \/ event > Columns + 1 + CopiesOf(line)

PipelineDot ==
    /\ Picture
    /\ PictureDot \/ ReloadYDot \/ PrefetchDot
    /\ IF Tile /\ phase < 8 THEN phase' = phase + 1 /\ UNCHANGED scrollVars
       ELSE phase' = 1 /\ Dot
    /\ UNCHANGED <<fine_x, pattern_background, render_background, writes>>

\* Lines 240 to 260.
BlankDots == BlankLines /\ UNCHANGED pipeline

-----------------------------------------------------------------------------
(* The ROM.  What changes the picture in the middle of a line, other than  *)
(* fine_x, ends the history.                                               *)

Access ==
    /\ writes < MaxWrites /\ writes' = writes + 1
    /\ UNCHANGED <<phase, next, shifters, pixel>>

ForgetIf(changed) == origin' = IF changed THEN Nowhere ELSE origin

\* $2005: of the first write fine_x acts at once, coarse_x at dot 257.
WriteScroll ==
    /\ Access /\ SetScroll
    /\ fine_x' \in IF write_latch = 0 THEN FineScrolls ELSE {fine_x}
    /\ UNCHANGED <<pattern_background, render_background, origin>>

\* $2000.
WriteCtrl ==
    /\ Access /\ SetCtrl
    /\ pattern_background' \in 0 .. 1
    /\ ForgetIf(pattern_background' # pattern_background)
    /\ UNCHANGED <<fine_x, render_background>>

\* $2001: Scroll sees only whether either layer is rendered.
WriteMask ==
    /\ Access /\ "PPUMASK" \in Registers
    /\ \E render_sprites \in BOOLEAN :
          /\ render_background' \in BOOLEAN
          /\ IF (render_background' \/ render_sprites) # rendering THEN SetMask
             ELSE UNCHANGED scrollVars
    /\ ForgetIf(render_background' # render_background)
    /\ UNCHANGED <<fine_x, pattern_background>>

\* $2002, $2006 and reads of $2007.
AccessAddress ==
    /\ Access
    /\ ReadStatus \/ SetAddressHigh \/ SetAddressLow \/ AccessData
    /\ ForgetIf(vram_addr' # vram_addr)
    /\ UNCHANGED <<fine_x, pattern_background, render_background>>

-----------------------------------------------------------------------------

\* The pre-render line, after a ROM has set its scroll position in vblank.
\* ppu_reset() leaves shifter_pattern_hi as it was: anything.
BgInit ==
    /\ line = PreRender /\ event = 1 /\ phase = 1
    /\ vram_addr = Decoded(0) /\ temp_addr \in {Decoded(n) : n \in Targets}
    /\ write_latch \in 0 .. 1
    /\ fine_x \in FineScrolls
    /\ pattern_background \in 0 .. 1
    /\ render_background \in BOOLEAN /\ rendering \in {TRUE, render_background}
    /\ next = [id |-> 0, attr |-> 0, lsb |-> [i \in 1 .. 8 |-> 0],
               msb |-> [i \in 1 .. 8 |-> 0]]
    /\ \E left \in {0, 2} : shifters = [i \in 1 .. 16 |-> left]
    /\ pixel = 0 /\ writes = 0
    /\ origin = Nowhere /\ originX = None /\ originY = None

BgNext ==
    \/ PipelineDot \/ BlankDots
    \/ WriteScroll \/ WriteCtrl \/ WriteMask \/ AccessAddress

BgSpec == BgInit /\ [][BgNext]_backgroundVars

-----------------------------------------------------------------------------
(* The picture, from memory alone.                                         *)

\* The tile k places to the right of the one at o; like increment_scroll_x(),
\* the walk goes on at the left edge of the left nametable.
TileAcross(o, k) ==
    LET c == o.coarse_x + k
    IN  IF c < Columns THEN [o EXCEPT !.coarse_x = c]
        ELSE [o EXCEPT !.coarse_x = c % Columns, !.nametable_x = 0]

\* The pixel in a column counted from the tile at o: the quarter of the
\* attribute byte and the bits of the two pattern bytes.
PixelAt(o, column) ==
    LET a == TileAcross(o, column \div 8)
        quarter == 1 + 2 * ((a.coarse_y \div 2) % 2) + ((a.coarse_x \div 2) % 2)
        row == TableSize * pattern_background + 2 * FineRows * TileByte(a) + a.fine_y
        value == Chr[row][1 + (column % 8)] + 2 * Chr[row + FineRows][1 + (column % 8)]
    IN  IF value = 0 THEN 0
        ELSE 4 * ((AttributeByte(a) \div <<1, 4, 16, 64>>[quarter]) % 4) + value

PixelStep == dot' # dot /\ event <= Columns /\ line < Lines

\* Every pixel of a line is the one memory names at the scrolled column, with
\* the palette of its own tile, from the tile fetched before the line began to
\* the one that slides in at the right for fine_x; whatever the lines before
\* left in the latches and shifters.  (The documentation calls this "accurate
\* PPU background rendering", README.md:8.)
PixelShown ==
    [][PixelStep /\ origin # Nowhere
         => pixel' = PixelAt(origin, dot - 1 + fine_x)]_backgroundVars

\* The tile at the left end of this line of the plane, for a picture whose
\* corner is at originX and originY.
Corner ==
    LET row == (originY + line) % (2 * Lines)
    IN  [coarse_x |-> originX % Columns, nametable_x |-> originX \div Columns,
         coarse_y |-> (row % Lines) \div FineRows, nametable_y |-> row \div Lines,
         fine_y |-> row % FineRows]

\* The whole picture is a rectangle of the plane of the four nametables: line n
\* is row n below the row last loaded from the scroll registers, from the
\* column loaded at the end of the line before, whatever the ROM writes in the
\* middle of lines and whatever the address went through meanwhile.  (Across
\* the seam of two nametables the walk goes where increment_scroll_x() takes
\* it: see ColumnsContinue.)
PictureShown ==
    [][PixelStep /\ origin # Nowhere /\ originX # None /\ originY # None
         => pixel' = PixelAt(Corner, dot - 1 + fine_x)]_backgroundVars
=============================================================================
