------------------------------ MODULE Sprites ------------------------------
(***************************************************************************)
(* The sprite unit of the PPU.  At the end of a line ppu_run_cycle()       *)
(* evaluates OAM against that line (dot 257) and fetches the patterns of   *)
(* the sprites it found (dot 340); while the next line is drawn,           *)
(* update_shifters() counts each sprite down to its column and shifts its  *)
(* pattern out, and draw_pixel() picks a pixel and detects the sprite-zero *)
(* hit.  The ROM may send a new OAM page, change $2001, or change the      *)
(* sprites' height and pattern table in $2000, at any dot.                 *)
(***************************************************************************)
EXTENDS Integers, Sequences, FiniteSets

CONSTANTS
    Width,      \* last visible dot, evaluation follows it: 256
    Tile,       \* width of a sprite, height of a tile: 8
    Table,      \* bytes of a pattern table: 4096
    MaxSprites, \* sprites on a line: 8
    Picture,    \* lines of the picture: 240
    PreRender,  \* 261
    LeftEdge,   \* first dot that can hit when the left columns are on: 9
    Chr,        \* PPU memory: the bits of each byte, leftmost first; those
                \*   below 0 are the palette's, at the end of the 64 KB
    Images,     \* OAM pages the ROM sends, as sequences of sprites
    Ctrls       \* values the ROM writes to $2000: <<sprite_size, pattern_sprite>>

\* One OAM entry.  The palette number is abstracted into id.
Sprite == [y : Nat, x : Nat, id : Nat,
           flip_x : BOOLEAN, flip_y : BOOLEAN, behind : BOOLEAN]

ASSUME SpriteAssumption ==
    /\ Width \in Nat \ {0} /\ Tile \in Nat \ {0} /\ MaxSprites \in Nat \ {0}
    /\ Picture \in Nat \ {0} /\ PreRender \in Nat /\ Picture < PreRender
    /\ LeftEdge \in Nat /\ Table \in Nat
    /\ Chr \in [-Tile - 1 .. 2 * Table -> [1 .. Tile -> 0 .. 1]]
    /\ \A page \in Images :
          /\ Len(page) \in Nat \ {0} /\ DOMAIN page = 1 .. Len(page)
          /\ \A k \in DOMAIN page :
                page[k] \in Sprite /\ (page[k].id + 2) * 2 * Tile <= Table
    /\ Ctrls \subseteq BOOLEAN \X (0 .. 1)

VARIABLES
    line,
    dot,        \* the dot to be processed; Width + 2 stands for dot 339
    oam,
    sprite_scanline,            \* the sprites found, with their x counters
    sprite_zero_hit_possible,
    shifters,                   \* pixels still to show, for every slot
    render_background, render_sprites,
    left_on,                    \* mask: both left-column bits
    ctrl,                       \* <<sprite_size, pattern_sprite>>
    sprite_zero_hit,
    shown,      \* history: the background and the outcome of the last pixel,
    seen        \*   the OAM and the ctrl of the last evaluation; empty when it
                \*   was below the picture, when render_sprites has changed
                \*   since, and when ctrl had changed at the fetch

beam == <<line, dot>>
unit == <<sprite_scanline, sprite_zero_hit_possible, shifters>>
mask == <<render_background, render_sprites, left_on>>
history == <<shown, seen>>
spriteVars == <<beam, oam, unit, mask, ctrl, sprite_zero_hit, history>>

oamSeen == seen[1]
ctrlSeen == seen[2]
Unless(forgotten) == IF forgotten THEN <<>> ELSE seen

\* The outcome of a pixel: <<where it comes from, sprite id, pixel value>>.
NoSprite(bg) == <<IF bg = 1 THEN "background" ELSE "backdrop", 0, 0>>

Blank == [c \in 1 .. Tile |-> 0]
Full == [c \in 1 .. Tile |-> 3]

SpritesTypeOK ==
    /\ line \in 0 .. PreRender /\ dot \in 1 .. Width + 2
    /\ oam \in Images
    /\ \E n \in 0 .. MaxSprites : DOMAIN sprite_scanline = 1 .. n
    /\ \A i \in DOMAIN sprite_scanline : sprite_scanline[i] \in Sprite
    /\ sprite_zero_hit_possible \in BOOLEAN
    /\ shifters \in [1 .. MaxSprites -> [1 .. Tile -> 0 .. 3]]
    /\ mask \in BOOLEAN \X BOOLEAN \X BOOLEAN
    /\ ctrl \in BOOLEAN \X (0 .. 1)
    /\ sprite_zero_hit \in BOOLEAN

\* ppu_reset(); the shifters are not initialised.
SpritesInit ==
    /\ line = 0 /\ dot = 1
    /\ oam \in Images
    /\ sprite_scanline = <<>> /\ sprite_zero_hit_possible = FALSE
    /\ \E any \in {Blank, Full} : shifters = [i \in 1 .. MaxSprites |-> any]
    /\ render_background = FALSE /\ render_sprites = FALSE /\ left_on = FALSE
    /\ ctrl = <<FALSE, 0>>
    /\ sprite_zero_hit = FALSE /\ seen = <<>>
    /\ shown = <<0, NoSprite(0)>>

-----------------------------------------------------------------------------
(***************************************************************************)
(* Evaluation and fetch.                                                   *)
(***************************************************************************)

Height(c) == IF c[1] THEN 2 * Tile ELSE Tile

InRange(s, l, c) == s.y <= l /\ l - s.y < Height(c)

\* The places of OAM whose sprites are in range, and the i-th of such places.
PlacesInRange(page, l, c) == {k \in DOMAIN page : InRange(page[k], l, c)}
Nth(S, i) == CHOOSE k \in S : Cardinality({j \in S : j < k}) = i - 1

\* Mutant: evaluation does not stop at MaxSprites.
FoundAll(page, l, c) ==
    LET S == PlacesInRange(page, l, c)
    IN  [i \in 1 .. Cardinality(S) |-> page[Nth(S, i)]]

\* The first MaxSprites sprites in range, in OAM order.
Found(page, l, c) ==
    LET S == PlacesInRange(page, l, c)
        n == IF Cardinality(S) <= MaxSprites THEN Cardinality(S) ELSE MaxSprites
    IN  [i \in 1 .. n |-> page[Nth(S, i)]]

\* Once dot Width has been processed, on every line but the last.
Evaluate ==
    /\ sprite_scanline' = Found(oam, line, ctrl)
    /\ sprite_zero_hit_possible' = InRange(oam[1], line, ctrl)
    /\ seen' = IF line < Picture THEN <<oam, ctrl>> ELSE <<>>

Odd(id) == 2 * (id \div 2) + 1
Even(id) == 2 * (id \div 2)

\* Where the row of an 8 pixel sprite starts.  It may lie below the sprite, when
\* the height was 16 at the evaluation or on the pre-render line: then the
\* first row of the next tile is or-ed to id, or a flipped one goes below zero
\* and leaves the 16 bits of the address all set.
ShortAddress(s, diff) ==
    LET row == IF s.flip_y THEN Tile - 1 - diff ELSE diff
        cell == IF row < 2 * Tile THEN s.id ELSE Odd(s.id)
    IN  IF row < 0 THEN row ELSE ctrl[2] * Table + cell * 2 * Tile + (row % (2 * Tile))

\* A 16 pixel sprite takes its table from id, and flips each half in place.
TallAddress(s, diff) ==
    LET cell == IF diff < Tile THEN Even(s.id) ELSE Odd(s.id)
        row == IF s.flip_y THEN Tile - 1 - (diff % Tile) ELSE diff % Tile
    IN  (s.id % 2) * Table + cell * 2 * Tile + row

\* The pattern of one sprite: the second plane is read one byte after the
\* first, 0 after the last.
Pattern(s) ==
    LET base == IF ctrl[1] THEN TallAddress(s, line - s.y) ELSE ShortAddress(s, line - s.y)
        pixels == [c \in 1 .. Tile |-> Chr[base][c] + 2 * Chr[base + 1][c]]
    IN  IF s.flip_x THEN [c \in 1 .. Tile |-> pixels[Tile + 1 - c]] ELSE pixels

\* Dot 340 of every line; on the pre-render line the sprites are those line
\* 260 found, already counted down.
Fetch ==
    shifters' = [i \in 1 .. MaxSprites |->
                    IF i \in DOMAIN sprite_scanline THEN Pattern(sprite_scanline[i])
                    ELSE shifters[i]]

-----------------------------------------------------------------------------
(***************************************************************************)
(* One dot: update_shifters(), then draw_pixel().                          *)
(***************************************************************************)

Counted ==
    [i \in DOMAIN sprite_scanline |->
        [sprite_scanline[i] EXCEPT !.x = IF @ > 0 THEN @ - 1 ELSE @]]

Shifted(pixels) == [c \in 1 .. Tile |-> IF c < Tile THEN pixels[c + 1] ELSE 0]

\* Mutant: sprites still waiting for their column shift too.
ShiftedAlways(from) ==
    [i \in 1 .. MaxSprites |->
        IF i \in DOMAIN sprite_scanline THEN Shifted(from[i]) ELSE from[i]]

\* The shifters after the sprites that have reached their column move on.
ShiftedOut(from) ==
    [i \in 1 .. MaxSprites |->
        IF i \in DOMAIN sprite_scanline /\ sprite_scanline[i].x = 0
        THEN Shifted(from[i]) ELSE from[i]]

\* sprite_scanline and shifters once update_shifters() is done, the shifters
\* holding what from holds when it starts.
MovedList == IF render_sprites THEN Counted ELSE sprite_scanline
MovedShifters(from) == IF render_sprites THEN ShiftedOut(from) ELSE from

\* The slots that have an opaque pixel at this dot.
Opaque(list, pixels) ==
    {i \in DOMAIN list : render_sprites /\ list[i].x = 0 /\ pixels[i][1] # 0}

FirstOf(S) == CHOOSE i \in S : \A j \in S : i <= j

\* draw_pixel(): the sprite of the first opaque slot, the background or the
\* backdrop.
Outcome(bg, list, pixels) ==
    LET S == Opaque(list, pixels)
        i == FirstOf(S)
    IN  IF S = {} THEN NoSprite(bg)
        ELSE IF bg = 1 /\ list[i].behind THEN NoSprite(bg)
        ELSE <<"sprite", list[i].id, pixels[i][1]>>

\* Mutant: any sprite in the first slot counts as sprite zero.
HitsAnyFirst(bg, list, pixels) ==
    /\ bg = 1
    /\ 1 \in Opaque(list, pixels)
    /\ left_on => LeftEdge <= dot

\* The sprite-zero hit; 1 is the slot of sprite zero when it is in range.
Hits(bg, list, pixels) ==
    /\ bg = 1 /\ sprite_zero_hit_possible
    /\ 1 \in Opaque(list, pixels)
    /\ left_on => LeftEdge <= dot

\* Dots 1 to 257 of a line of the picture.
DrawDot ==
    /\ line < Picture /\ dot <= Width + 1
    /\ shifters' = MovedShifters(shifters)
    /\ \E bg \in IF render_background THEN 0 .. 1 ELSE {0} :
          /\ shown' = <<bg, Outcome(bg, MovedList, shifters')>>
          /\ sprite_zero_hit' = (sprite_zero_hit \/ Hits(bg, MovedList, shifters'))
    /\ dot' = dot + 1
    /\ IF dot = Width THEN Evaluate
       ELSE /\ sprite_scanline' = MovedList
            /\ UNCHANGED <<sprite_zero_hit_possible, seen>>
    /\ UNCHANGED <<line, oam, mask, ctrl>>

\* Dots 1 to 257 of the pre-render line; the first clears flag and shifters.
PreRenderDot ==
    /\ line = PreRender /\ dot <= Width + 1
    /\ shifters' = MovedShifters(IF dot = 1 THEN [i \in 1 .. MaxSprites |-> Blank]
                                 ELSE shifters)
    /\ sprite_zero_hit' = (sprite_zero_hit /\ dot # 1)
    /\ sprite_scanline' = MovedList
    /\ dot' = dot + 1
    /\ UNCHANGED <<line, oam, sprite_zero_hit_possible, mask, ctrl, history>>

\* Lines 240 to 260 only evaluate.
IdleLine ==
    /\ line >= Picture /\ line < PreRender /\ dot = 1
    /\ Evaluate
    /\ dot' = Width + 2
    /\ UNCHANGED <<line, oam, shifters, mask, ctrl, sprite_zero_hit, shown>>

\* Dot 339 on; an odd frame that skips a dot skips the fetch of its last line.
EndLine ==
    /\ dot = Width + 2
    /\ \/ Fetch
       \/ line = PreRender /\ render_background /\ UNCHANGED shifters
    /\ dot' = 1 /\ line' = IF line = PreRender THEN 0 ELSE line + 1
    /\ UNCHANGED <<oam, sprite_scanline, sprite_zero_hit_possible, mask, ctrl>>
    /\ UNCHANGED <<sprite_zero_hit, history>>

\* The ROM: a DMA of a page, a write to $2001, a write to $2000.
SendPage ==
    /\ oam' \in Images
    /\ UNCHANGED <<beam, unit, mask, ctrl, sprite_zero_hit, history>>

SetMask ==
    /\ render_background' \in BOOLEAN
    /\ render_sprites' \in BOOLEAN
    /\ left_on' \in BOOLEAN
    /\ seen' = Unless(render_sprites' # render_sprites)
    /\ UNCHANGED <<beam, oam, unit, ctrl, sprite_zero_hit, shown>>

SetCtrl ==
    /\ ctrl' \in Ctrls
    /\ seen' = Unless(dot > Width /\ ctrl' # ctrl)
    /\ UNCHANGED <<beam, oam, unit, mask, sprite_zero_hit, shown>>

SpritesNext ==
    DrawDot \/ PreRenderDot \/ IdleLine \/ EndLine \/ SendPage \/ SetMask \/ SetCtrl

SpritesSpec == SpritesInit /\ [][SpritesNext]_spriteVars

-----------------------------------------------------------------------------
(***************************************************************************)
(* What the picture should hold, from OAM alone.                           *)
(***************************************************************************)

\* The dot of a sprite's leftmost pixel.  Dot 257 is processed after the
\* evaluation and counts the new sprites down once.
StartDot(s) == IF s.x > 0 THEN s.x - 1 ELSE 0

\* The tile of sprite s that line l crosses, and its first line: a tall sprite
\* is two tiles, one below the other.
TileAt(s, l, c) ==
    LET below == l - s.y >= Tile
    IN  IF ~c[1] THEN [table |-> c[2], id |-> s.id, y |-> s.y]
        ELSE [table |-> s.id % 2,
              id |-> Even(s.id) + IF below THEN 1 ELSE 0,
              y |-> s.y + IF below THEN Tile ELSE 0]

\* The pixel sprite s has at dot d when it was found on line l, with ctrl c.
SpritePixel(s, l, d, c) ==
    LET t == TileAt(s, l, c)
        row == IF s.flip_y THEN Tile - 1 - (l - t.y) ELSE l - t.y
        across == d - StartDot(s)
        column == IF s.flip_x THEN Tile - across ELSE across + 1
        base == t.table * Table + t.id * 2 * Tile + row
    IN  IF InRange(s, l, c) /\ across \in 0 .. Tile - 1
        THEN Chr[base][column] + 2 * Chr[base + 1][column] ELSE 0

\* The sprites of oamSeen that show at (l + 1, d): those with fewer than
\* MaxSprites before them in range of line l.
Showing(l, d) ==
    {k \in DOMAIN oamSeen :
        /\ SpritePixel(oamSeen[k], l, d, ctrlSeen) # 0
        /\ Cardinality({j \in 1 .. k - 1 : InRange(oamSeen[j], l, ctrlSeen)}) < MaxSprites}

\* Counters, shifters and slots together put each sprite where OAM says: on
\* every line but the first, the pixel is that of the first sprite in OAM
\* with an opaque pixel there, or the background in front of it.
PixelFromOam ==
    [][DrawDot /\ seen # <<>> /\ dot <= Width =>
          LET S == IF render_sprites THEN Showing(line - 1, dot) ELSE {}
              w == oamSeen[FirstOf(S)]
              bg == shown'[1]
          IN  shown'[2] = IF S = {} THEN NoSprite(bg)
                          ELSE IF bg = 1 /\ w.behind THEN NoSprite(bg)
                          ELSE <<"sprite", w.id, SpritePixel(w, line - 1, dot, ctrlSeen)>>
      ]_spriteVars

\* The sprite-zero hit is raised at the first dot where an opaque pixel of
\* OAM's sprite zero meets an opaque background, and at no other.
HitFromOam ==
    [][DrawDot /\ seen # <<>> /\ dot <= Width =>
          (sprite_zero_hit' <=>
              \/ sprite_zero_hit
              \/ /\ render_sprites /\ shown'[1] = 1
                 /\ 1 \in Showing(line - 1, dot)
                 /\ left_on => LeftEdge <= dot)
      ]_spriteVars
=============================================================================
