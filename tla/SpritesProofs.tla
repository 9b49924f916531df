--------------------------- MODULE SpritesProofs ---------------------------
(***************************************************************************)
(* Proofs about Sprites, for lines, tiles and lists of any size, any OAM   *)
(* pages and any patterns.                                                 *)
(***************************************************************************)
EXTENDS Sprites, Arithmetic, FiniteSetTheorems

-----------------------------------------------------------------------------
(* Counting places.                                                        *)

\* The places of S before k.
Rank(S, k) == Cardinality({j \in S : j < k})

\* A later place has a higher rank, and no rank exceeds the number of places.
LEMMA RankGrows ==
    ASSUME NEW S \in SUBSET Nat, IsFiniteSet(S), NEW k \in S
    PROVE  /\ Rank(S, k) \in Nat /\ Rank(S, k) < Cardinality(S)
           /\ \A m \in S : k < m => Rank(S, k) < Rank(S, m)
<1> DEFINE B(m) == {j \in S : j < m}
<1>1. ASSUME NEW m
      PROVE  IsFiniteSet(B(m)) /\ Cardinality(B(m)) \in Nat
  <2>1. B(m) \in SUBSET S
    OBVIOUS
  <2>2. IsFiniteSet(B(m))
    BY <2>1, FS_Subset
  <2> QED
    BY <2>2, FS_CardinalityType
<1>2. k \in Nat /\ k \notin B(k) /\ Cardinality(S) \in Nat
  BY FS_CardinalityType
<1>3. IsFiniteSet(B(k) \cup {k}) /\ Cardinality(B(k) \cup {k}) = Cardinality(B(k)) + 1
  <2> HIDE DEF B
  <2> QED
    BY <1>1, <1>2, FS_AddElement
<1>4. ASSUME NEW T, IsFiniteSet(T), B(k) \cup {k} \subseteq T
      PROVE  Cardinality(B(k)) < Cardinality(T)
  <2> HIDE DEF B
  <2>1. Cardinality(B(k) \cup {k}) <= Cardinality(T)
    BY <1>4, FS_Subset
  <2>2. Cardinality(T) \in Nat
    BY <1>4, FS_CardinalityType
  <2> QED
    BY <1>1, <1>3, <2>1, <2>2
<1>5. Cardinality(B(k)) < Cardinality(S)
  BY <1>4
<1>6. ASSUME NEW m \in S, k < m
      PROVE  Cardinality(B(k)) < Cardinality(B(m))
  <2>1. B(k) \cup {k} \subseteq B(m)
    <3>1. ASSUME NEW j \in S, j < k PROVE j < m
      BY <3>1, <1>2, <1>6
    <3> QED
      BY <1>6, <3>1
  <2> HIDE DEF B
  <2> QED
    BY <1>1, <1>4, <2>1
<1> QED
  BY <1>1, <1>5, <1>6 DEF Rank

\* The i-th place exists: ranks are different and there are no more numbers
\* below the cardinality than places.
LEMMA NthHasRank ==
    ASSUME NEW S \in SUBSET Nat, IsFiniteSet(S), NEW i \in 1 .. Cardinality(S)
    PROVE  Nth(S, i) \in S /\ Rank(S, Nth(S, i)) = i - 1
<1> DEFINE n == Cardinality(S)
           T == 0 .. n - 1
           f == [k \in S |-> Rank(S, k)]
<1>1. n \in Nat
  BY FS_CardinalityType
<1>2. \A k \in S : Rank(S, k) \in T
  BY <1>1, RankGrows
<1>3. f \in [S -> T]
  BY <1>2
<1>4. \A k, m \in S : f[k] = f[m] => k = m
  <2> SUFFICES ASSUME NEW k \in S, NEW m \in S, f[k] = f[m], k # m PROVE FALSE
    OBVIOUS
  <2>1. Rank(S, k) = Rank(S, m) /\ Rank(S, k) \in Nat
    BY RankGrows
  <2>2. k < m \/ m < k
    OBVIOUS
  <2> QED
    BY <2>1, <2>2, RankGrows
<1>5. f \in Injection(S, T)
  BY <1>3, <1>4 DEF Injection, IsInjective
<1>6. IsFiniteSet(T) /\ Cardinality(T) = n
  <2>1. IsFiniteSet(T) /\ Cardinality(T) = IF 0 > n - 1 THEN 0 ELSE (n - 1) - 0 + 1
    <3>1. n - 1 \in Int /\ 0 \in Int
      BY <1>1
    <3> HIDE DEF n
    <3> QED
      BY <3>1, FS_Interval
  <2> HIDE DEF n
  <2> QED
    BY <1>1, <2>1
<1> HIDE DEF f, T, n
<1>7. f \in Surjection(S, T)
  BY <1>5, <1>6, FS_Injection DEF n
<1>8. i - 1 \in T
  BY <1>1 DEF T, n
<1>9. \E k \in S : f[k] = i - 1
  BY <1>7, <1>8 DEF Surjection
<1>10. \E k \in S : Cardinality({j \in S : j < k}) = i - 1
  BY <1>9 DEF f, Rank
<1> QED
  BY <1>10 DEF Nth, Rank

-----------------------------------------------------------------------------
(* Types.                                                                  *)

\* What a fetch relies on: a listed sprite has a whole pattern in Chr, and the
\* line the sprites were found on is this one or, on the pre-render line, the
\* one before.
ListedInReach ==
    \A i \in DOMAIN sprite_scanline :
        LET s == sprite_scanline[i]
        IN  /\ (s.id + 2) * 2 * Tile <= Table
            /\ dot > Width \/ line = PreRender =>
                  s.y <= line /\ line - s.y <= 2 * Tile
            /\ dot > Width /\ line < PreRender => line - s.y < 2 * Tile

\* Lines below the picture are gone through in one step.
BeamKept == line >= Picture /\ line < PreRender => dot \in {1, Width + 2}

SpritesInv == SpritesTypeOK /\ ListedInReach /\ BeamKept

\* The parts of SpriteAssumption, for the provers.
LEMMA Sizes ==
    /\ Width \in Nat \ {0} /\ Tile \in Nat \ {0} /\ MaxSprites \in Nat \ {0}
    /\ Picture \in Nat \ {0} /\ PreRender \in Nat /\ Picture < PreRender
    /\ LeftEdge \in Nat /\ Table \in Nat
BY SpriteAssumption

LEMMA PageType ==
    ASSUME NEW page \in Images
    PROVE  /\ Len(page) \in Nat \ {0} /\ DOMAIN page = 1 .. Len(page)
           /\ \A k \in DOMAIN page :
                 page[k] \in Sprite /\ (page[k].id + 2) * 2 * Tile <= Table
BY SpriteAssumption

LEMMA ChrBits ==
    ASSUME NEW n \in -Tile - 1 .. 2 * Table
    PROVE  Chr[n] \in [1 .. Tile -> 0 .. 1]
BY SpriteAssumption

LEMMA CtrlType ==
    ASSUME NEW c \in BOOLEAN \X (0 .. 1)
    PROVE  c[1] \in BOOLEAN /\ c[2] \in 0 .. 1 /\ Height(c) \in Nat
           /\ Height(c) <= 2 * Tile
BY Sizes DEF Height

\* The list of a line: as many places in range as it has room for, in order.
Room(page, l, c) ==
    LET n == Cardinality(PlacesInRange(page, l, c))
    IN  IF n <= MaxSprites THEN n ELSE MaxSprites

LEMMA FoundInOrder ==
    ASSUME NEW page \in Images, NEW l, NEW c
    PROVE  LET S == PlacesInRange(page, l, c)
               n == Room(page, l, c)
           IN  /\ S \in SUBSET Nat /\ IsFiniteSet(S) /\ Cardinality(S) \in Nat
               /\ n \in 0 .. MaxSprites /\ n <= Cardinality(S)
               /\ DOMAIN Found(page, l, c) = 1 .. n
               /\ \A i \in 1 .. n :
                     /\ Nth(S, i) \in S /\ Rank(S, Nth(S, i)) = i - 1
                     /\ Found(page, l, c)[i] = page[Nth(S, i)]
<1> DEFINE S == PlacesInRange(page, l, c)
           n == Room(page, l, c)
<1>1. S \in SUBSET (1 .. Len(page)) /\ Len(page) \in Nat
  BY PageType DEF PlacesInRange
<1>2. IsFiniteSet(1 .. Len(page))
  BY <1>1, FS_Interval
<1>3. IsFiniteSet(S)
  <2> HIDE DEF S
  <2> QED
    BY <1>1, <1>2, FS_Subset
<1>4. Cardinality(S) \in Nat
  BY <1>3, FS_CardinalityType
<1>5. S \in SUBSET Nat
  BY <1>1
<1>6. n \in 0 .. MaxSprites /\ n <= Cardinality(S)
  BY <1>4, Sizes DEF Room
<1>7. Found(page, l, c) = [i \in 1 .. n |-> page[Nth(S, i)]]
  BY DEF Found, Room
<1> HIDE DEF S, n
<1>8. ASSUME NEW i \in 1 .. n
      PROVE  /\ Nth(S, i) \in S /\ Rank(S, Nth(S, i)) = i - 1
             /\ Found(page, l, c)[i] = page[Nth(S, i)]
  <2>1. i \in 1 .. Cardinality(S)
    BY <1>4, <1>6
  <2> QED
    BY <1>3, <1>5, <1>7, <2>1, NthHasRank
<1> QED
  BY <1>3, <1>4, <1>5, <1>6, <1>7, <1>8 DEF S, n

\* What is found is a list of sprites in range.
LEMMA FoundType ==
    ASSUME NEW page \in Images, NEW l, NEW c
    PROVE  /\ \E n \in 0 .. MaxSprites : DOMAIN Found(page, l, c) = 1 .. n
           /\ \A i \in DOMAIN Found(page, l, c) :
                 LET s == Found(page, l, c)[i]
                 IN  s \in Sprite /\ (s.id + 2) * 2 * Tile <= Table /\ InRange(s, l, c)
<1> DEFINE S == PlacesInRange(page, l, c)
           n == Room(page, l, c)
<1>1. n \in 0 .. MaxSprites /\ DOMAIN Found(page, l, c) = 1 .. n
  BY FoundInOrder
<1>2. ASSUME NEW i \in DOMAIN Found(page, l, c)
      PROVE  LET s == Found(page, l, c)[i]
             IN  s \in Sprite /\ (s.id + 2) * 2 * Tile <= Table /\ InRange(s, l, c)
  <2>1. Nth(S, i) \in S /\ Found(page, l, c)[i] = page[Nth(S, i)]
    BY <1>1, <1>2, FoundInOrder
  <2> DEFINE k == Nth(S, i)
             s == Found(page, l, c)[i]
  <2>2. k \in DOMAIN page /\ InRange(page[k], l, c)
    BY <2>1 DEF PlacesInRange
  <2> HIDE DEF k, s
  <2>3. s = page[k]
    BY <2>1 DEF k, s
  <2>4. s \in Sprite /\ (s.id + 2) * 2 * Tile <= Table /\ InRange(s, l, c)
    BY <2>2, <2>3, PageType
  <2> QED
    BY <2>4 DEF s
<1> QED
  BY <1>1, <1>2

\* The row of a short sprite lies in its tile or the next, or, flipped below
\* its last line, before the first.
LEMMA ShortInChr ==
    ASSUME NEW s \in Sprite, (s.id + 2) * 2 * Tile <= Table, NEW diff \in 0 .. 2 * Tile,
           ctrl \in BOOLEAN \X (0 .. 1)
    PROVE  ShortAddress(s, diff) \in -Tile - 1 .. 2 * Table - 1
<1> DEFINE row == IF s.flip_y THEN Tile - 1 - diff ELSE diff
           cell == IF row < 2 * Tile THEN s.id ELSE Odd(s.id)
           h == 2 * Tile
           u == h * cell
           r == row % h
           b == ctrl[2] * Table
<1>1. Tile \in Nat \ {0} /\ Table \in Nat /\ s.id \in Nat /\ ctrl[2] \in 0 .. 1
  BY Sizes, CtrlType DEF Sprite
<1>2. row \in -Tile - 1 .. 2 * Tile /\ h \in Nat \ {0}
  BY <1>1
<1>3. CASE row < 0
  <2>1. ShortAddress(s, diff) = row
    BY <1>3 DEF ShortAddress
  <2> HIDE DEF row
  <2> QED
    BY <1>1, <1>2, <1>3, <2>1
<1>4. CASE ~(row < 0)
  <2>1. ShortAddress(s, diff) = b + cell * 2 * Tile + r
    BY <1>4 DEF ShortAddress
  <2>2. cell \in Nat /\ cell <= s.id + 1
    BY <1>1 DEF Odd
  <2>3. r \in 0 .. h - 1
    <3> HIDE DEF row, h
    <3> QED
      BY <1>2, <1>4, DivMod DEF h
  <2>4. b \in {0, Table}
    BY <1>1
  <2>5. cell * 2 * Tile = u /\ (s.id + 2) * 2 * Tile = h * (s.id + 2)
    <3> HIDE DEF cell
    <3> QED
      BY <1>1, <2>2
  <2>6. u + h <= h * (s.id + 2) /\ u \in Nat
    <3> HIDE DEF cell, h
    <3>1. s.id + 2 \in Nat /\ cell < s.id + 2
      BY <1>1, <2>2
    <3> QED
      BY <1>2, <2>2, <3>1, ProductGap
  <2> HIDE DEF r, b, u, cell, h
  <2> QED
    BY <1>1, <1>2, <2>1, <2>3, <2>4, <2>5, <2>6
<1> QED
  BY <1>3, <1>4

\* A tall sprite's row always lies in one of its two tiles.
LEMMA TallInChr ==
    ASSUME NEW s \in Sprite, (s.id + 2) * 2 * Tile <= Table, NEW diff \in Nat
    PROVE  TallAddress(s, diff) \in 0 .. 2 * Table - 1
<1> DEFINE cell == IF diff < Tile THEN Even(s.id) ELSE Odd(s.id)
           row == IF s.flip_y THEN Tile - 1 - (diff % Tile) ELSE diff % Tile
           h == 2 * Tile
           u == h * cell
           b == (s.id % 2) * Table
<1>1. Tile \in Nat \ {0} /\ Table \in Nat /\ s.id \in Nat
  BY Sizes DEF Sprite
<1>2. diff % Tile \in 0 .. Tile - 1
  BY <1>1, DivMod
<1>3. row \in 0 .. Tile - 1
  <2> DEFINE m == diff % Tile
  <2> HIDE DEF m
  <2>1. m \in 0 .. Tile - 1 /\ row = IF s.flip_y THEN Tile - 1 - m ELSE m
    BY <1>2 DEF m
  <2> HIDE DEF row
  <2> QED
    BY <1>1, <2>1
<1>4. TallAddress(s, diff) = b + cell * 2 * Tile + row
  BY DEF TallAddress
<1>5. cell \in Nat /\ cell <= s.id + 1
  BY <1>1 DEF Odd, Even
<1>6. b \in {0, Table}
  <2>1. s.id % 2 \in 0 .. 1
    BY <1>1
  <2> QED
    BY <1>1, <2>1
<1>7. cell * 2 * Tile = u /\ (s.id + 2) * 2 * Tile = h * (s.id + 2)
  <2> HIDE DEF cell
  <2> QED
    BY <1>1, <1>5
<1>8. u + h <= h * (s.id + 2) /\ u \in Nat
  <2>1. h \in Nat \ {0}
    BY <1>1
  <2> HIDE DEF cell, h
  <2>2. s.id + 2 \in Nat /\ cell < s.id + 2
    BY <1>1, <1>5
  <2> QED
    BY <1>5, <2>1, <2>2, ProductGap
<1> HIDE DEF row, b, u, cell
<1> QED
  BY <1>1, <1>3, <1>4, <1>6, <1>7, <1>8

\* A fetch reads two bytes of Chr and makes pixels of two bits.
LEMMA PatternType ==
    ASSUME NEW s \in Sprite, (s.id + 2) * 2 * Tile <= Table,
           s.y <= line, line - s.y <= 2 * Tile, line \in Nat,
           ctrl \in BOOLEAN \X (0 .. 1)
    PROVE  Pattern(s) \in [1 .. Tile -> 0 .. 3]
<1> DEFINE base == IF ctrl[1] THEN TallAddress(s, line - s.y)
                   ELSE ShortAddress(s, line - s.y)
           pixels == [c \in 1 .. Tile |-> Chr[base][c] + 2 * Chr[base + 1][c]]
<1>1. line - s.y \in 0 .. 2 * Tile /\ line - s.y \in Nat /\ Table \in Nat /\ Tile \in Nat
  BY Sizes DEF Sprite
<1>2. base \in -Tile - 1 .. 2 * Table - 1
  BY <1>1, ShortInChr, TallInChr
<1>3. Pattern(s) = IF s.flip_x THEN [c \in 1 .. Tile |-> pixels[Tile + 1 - c]] ELSE pixels
  BY DEF Pattern
<1> HIDE DEF base
<1>4. Chr[base] \in [1 .. Tile -> 0 .. 1] /\ Chr[base + 1] \in [1 .. Tile -> 0 .. 1]
  BY <1>1, <1>2, ChrBits
<1>5. pixels \in [1 .. Tile -> 0 .. 3]
  <2>1. \A c \in 1 .. Tile : Chr[base][c] \in 0 .. 1 /\ Chr[base + 1][c] \in 0 .. 1
    BY <1>4
  <2> QED
    BY <2>1
<1> HIDE DEF pixels
<1>6. \A c \in 1 .. Tile : Tile + 1 - c \in 1 .. Tile
  BY <1>1
<1> QED
  BY <1>3, <1>5, <1>6

\* Counting down changes only how far a sprite is from its column.
LEMMA MovedListType ==
    ASSUME SpritesTypeOK
    PROVE  /\ DOMAIN MovedList = DOMAIN sprite_scanline
           /\ \A i \in DOMAIN sprite_scanline :
                 /\ MovedList[i] \in Sprite
                 /\ MovedList[i].y = sprite_scanline[i].y
                 /\ MovedList[i].id = sprite_scanline[i].id
<1>1. \A i \in DOMAIN sprite_scanline : sprite_scanline[i] \in Sprite
  BY DEF SpritesTypeOK
<1>2. ASSUME NEW s \in Sprite
      PROVE  LET m == [s EXCEPT !.x = IF @ > 0 THEN @ - 1 ELSE @]
             IN  m \in Sprite /\ m.y = s.y /\ m.id = s.id
  <2>1. s.x \in Nat
    BY DEF Sprite
  <2>2. ASSUME NEW x \in Nat
        PROVE  LET m == [s EXCEPT !.x = x] IN m \in Sprite /\ m.y = s.y /\ m.id = s.id
    BY DEF Sprite
  <2>3. (IF s.x > 0 THEN s.x - 1 ELSE s.x) \in Nat
    BY <2>1
  <2> QED
    BY <2>2, <2>3
<1>3. CASE render_sprites
  <2>1. MovedList = Counted
    BY <1>3 DEF MovedList
  <2>2. DOMAIN Counted = DOMAIN sprite_scanline
    BY DEF Counted
  <2>3. \A i \in DOMAIN sprite_scanline :
           Counted[i] = [sprite_scanline[i] EXCEPT !.x = IF @ > 0 THEN @ - 1 ELSE @]
    BY DEF Counted
  <2> QED
    BY <1>1, <1>2, <2>1, <2>2, <2>3
<1>4. CASE ~render_sprites
  BY <1>1, <1>4 DEF MovedList
<1> QED
  BY <1>3, <1>4

LEMMA MovedShiftersType ==
    ASSUME NEW from \in [1 .. MaxSprites -> [1 .. Tile -> 0 .. 3]]
    PROVE  MovedShifters(from) \in [1 .. MaxSprites -> [1 .. Tile -> 0 .. 3]]
<1>1. ASSUME NEW pixels \in [1 .. Tile -> 0 .. 3]
      PROVE  Shifted(pixels) \in [1 .. Tile -> 0 .. 3]
  <2>1. \A c \in 1 .. Tile : c < Tile => c + 1 \in 1 .. Tile
    BY Sizes
  <2> QED
    BY <2>1 DEF Shifted
<1> QED
  BY <1>1 DEF MovedShifters, ShiftedOut

-----------------------------------------------------------------------------
(* Each step keeps the types and what the next fetch relies on.            *)

ListType(list) ==
    /\ \E n \in 0 .. MaxSprites : DOMAIN list = 1 .. n
    /\ \A i \in DOMAIN list : list[i] \in Sprite

\* An evaluation, from any page.
LEMMA EvaluateInv ==
    ASSUME SpritesTypeOK, Evaluate, line < PreRender
    PROVE  /\ ListType(sprite_scanline')
           /\ sprite_zero_hit_possible' \in BOOLEAN
           /\ \A i \in DOMAIN sprite_scanline' :
                 LET s == sprite_scanline'[i]
                 IN  /\ (s.id + 2) * 2 * Tile <= Table
                     /\ s.y <= line /\ line - s.y < 2 * Tile /\ line - s.y <= 2 * Tile
<1>1. oam \in Images /\ line \in Nat /\ ctrl \in BOOLEAN \X (0 .. 1)
  BY Sizes DEF SpritesTypeOK
<1>2. sprite_scanline' = Found(oam, line, ctrl)
      /\ sprite_zero_hit_possible' = InRange(oam[1], line, ctrl)
  BY DEF Evaluate
<1>3. ASSUME NEW s \in Sprite, InRange(s, line, ctrl)
      PROVE  s.y <= line /\ line - s.y < 2 * Tile /\ line - s.y <= 2 * Tile
  <2>1. s.y \in Nat /\ Height(ctrl) \in Nat /\ Height(ctrl) <= 2 * Tile /\ Tile \in Nat
    BY <1>1, CtrlType, Sizes DEF Sprite
  <2> QED
    BY <1>1, <1>3, <2>1 DEF InRange
<1>4. ListType(Found(oam, line, ctrl))
  BY <1>1, FoundType DEF ListType
<1>5. \A i \in DOMAIN Found(oam, line, ctrl) :
         LET s == Found(oam, line, ctrl)[i]
         IN  s \in Sprite /\ (s.id + 2) * 2 * Tile <= Table /\ InRange(s, line, ctrl)
  BY <1>1, FoundType
<1> QED
  BY <1>2, <1>3, <1>4, <1>5 DEF InRange

LEMMA DrawDotInv ==
    ASSUME SpritesInv, DrawDot PROVE SpritesInv'
<1>1. /\ line \in Nat /\ dot \in 1 .. Width + 1 /\ dot' = dot + 1 /\ line' = line
      /\ UNCHANGED <<oam, mask, ctrl>> /\ line < Picture
  BY Sizes DEF SpritesInv, SpritesTypeOK, DrawDot
<1>2. shifters' \in [1 .. MaxSprites -> [1 .. Tile -> 0 .. 3]]
  BY MovedShiftersType DEF SpritesInv, SpritesTypeOK, DrawDot
<1>3. sprite_zero_hit' \in BOOLEAN
  BY DEF SpritesInv, SpritesTypeOK, DrawDot, Hits
<1>4. CASE dot = Width
  <2>1. Evaluate
    BY <1>4 DEF DrawDot
  <2>2. line < PreRender
    BY <1>1, Sizes
  <2>3. ListType(sprite_scanline') /\ sprite_zero_hit_possible' \in BOOLEAN
    BY <2>1, <2>2, EvaluateInv DEF SpritesInv
  <2>4. ListedInReach'
    BY <1>1, <2>1, <2>2, EvaluateInv, Zenon DEF SpritesInv, ListedInReach
  <2> QED
    BY <1>1, <1>2, <1>3, <2>3, <2>4, Sizes
    DEF SpritesInv, SpritesTypeOK, ListType, BeamKept, mask
<1>5. CASE dot # Width
  <2>1. sprite_scanline' = MovedList /\ sprite_zero_hit_possible' = sprite_zero_hit_possible
    BY <1>5 DEF DrawDot
  <2>2. ListType(sprite_scanline')
    BY <2>1, MovedListType DEF SpritesInv, SpritesTypeOK, ListType
  <2>3. ListedInReach'
    <3>1. (dot' > Width => dot > Width) /\ line # PreRender
      BY <1>1, <1>5, Sizes
    <3>2. \A i \in DOMAIN sprite_scanline :
             /\ MovedList[i].y = sprite_scanline[i].y
             /\ MovedList[i].id = sprite_scanline[i].id
      BY MovedListType DEF SpritesInv
    <3>3. DOMAIN sprite_scanline' = DOMAIN sprite_scanline
      BY <2>1, MovedListType DEF SpritesInv
    <3> QED
      BY <1>1, <2>1, <3>1, <3>2, <3>3 DEF SpritesInv, ListedInReach
  <2> QED
    BY <1>1, <1>2, <1>3, <2>1, <2>2, <2>3, Sizes
    DEF SpritesInv, SpritesTypeOK, ListType, BeamKept, mask
<1> QED
  BY <1>4, <1>5

LEMMA PreRenderDotInv ==
    ASSUME SpritesInv, PreRenderDot PROVE SpritesInv'
<1>1. /\ line = PreRender /\ dot \in 1 .. Width + 1 /\ dot' = dot + 1 /\ line' = line
      /\ UNCHANGED <<oam, sprite_zero_hit_possible, mask, ctrl>>
      /\ sprite_scanline' = MovedList
  BY Sizes DEF SpritesInv, SpritesTypeOK, PreRenderDot
<1>2. shifters' \in [1 .. MaxSprites -> [1 .. Tile -> 0 .. 3]]
  <2>1. [i \in 1 .. MaxSprites |-> Blank] \in [1 .. MaxSprites -> [1 .. Tile -> 0 .. 3]]
    BY DEF Blank
  <2> QED
    BY <2>1, MovedShiftersType DEF SpritesInv, SpritesTypeOK, PreRenderDot
<1>3. sprite_zero_hit' \in BOOLEAN
  BY DEF SpritesInv, SpritesTypeOK, PreRenderDot
<1>4. ListType(sprite_scanline')
  BY <1>1, MovedListType DEF SpritesInv, SpritesTypeOK, ListType
<1>5. ListedInReach'
  <2>1. \A i \in DOMAIN sprite_scanline :
           /\ MovedList[i].y = sprite_scanline[i].y
           /\ MovedList[i].id = sprite_scanline[i].id
    BY MovedListType DEF SpritesInv
  <2>2. DOMAIN sprite_scanline' = DOMAIN sprite_scanline
    BY <1>1, MovedListType DEF SpritesInv
  <2>3. ~(line < PreRender)
    BY <1>1, Sizes
  <2> QED
    BY <1>1, <2>1, <2>2, <2>3 DEF SpritesInv, ListedInReach
<1> QED
  BY <1>1, <1>2, <1>3, <1>4, <1>5, Sizes
  DEF SpritesInv, SpritesTypeOK, ListType, BeamKept, mask

LEMMA IdleLineInv ==
    ASSUME SpritesInv, IdleLine PROVE SpritesInv'
<1>1. /\ line \in Nat /\ line < PreRender /\ dot' = Width + 2 /\ line' = line
      /\ UNCHANGED <<oam, shifters, mask, ctrl, sprite_zero_hit>> /\ Evaluate
  BY Sizes DEF SpritesInv, SpritesTypeOK, IdleLine
<1>2. ListType(sprite_scanline') /\ sprite_zero_hit_possible' \in BOOLEAN
  BY <1>1, EvaluateInv DEF SpritesInv
<1>3. ListedInReach'
  BY <1>1, EvaluateInv, Zenon DEF SpritesInv, ListedInReach
<1> QED
  BY <1>1, <1>2, <1>3, Sizes
  DEF SpritesInv, SpritesTypeOK, ListType, BeamKept, mask

LEMMA EndLineInv ==
    ASSUME SpritesInv, EndLine PROVE SpritesInv'
<1>1. /\ line \in 0 .. PreRender /\ dot = Width + 2 /\ dot' = 1
      /\ line' = IF line = PreRender THEN 0 ELSE line + 1
      /\ UNCHANGED <<oam, sprite_scanline, sprite_zero_hit_possible, mask, ctrl,
                     sprite_zero_hit>>
      /\ Width \in Nat \ {0} /\ Tile \in Nat \ {0} /\ PreRender \in Nat
  BY Sizes DEF SpritesInv, SpritesTypeOK, EndLine
<1>2. shifters' \in [1 .. MaxSprites -> [1 .. Tile -> 0 .. 3]]
  <2>1. CASE Fetch
    <3>1. ASSUME NEW i \in DOMAIN sprite_scanline
          PROVE  Pattern(sprite_scanline[i]) \in [1 .. Tile -> 0 .. 3]
      <4> DEFINE s == sprite_scanline[i]
      <4>1. s \in Sprite /\ ctrl \in BOOLEAN \X (0 .. 1) /\ line \in Nat
        BY <1>1 DEF SpritesInv, SpritesTypeOK
      <4>2. (s.id + 2) * 2 * Tile <= Table /\ s.y <= line /\ line - s.y <= 2 * Tile
        BY <1>1 DEF SpritesInv, ListedInReach
      <4> QED
        BY <4>1, <4>2, PatternType
    <3> QED
      BY <2>1, <3>1 DEF Fetch, SpritesInv, SpritesTypeOK
  <2>2. CASE UNCHANGED shifters
    BY <2>2 DEF SpritesInv, SpritesTypeOK
  <2> QED
    BY <2>1, <2>2 DEF EndLine
<1>3. ListedInReach'
  <2>1. ASSUME NEW i \in DOMAIN sprite_scanline
        PROVE  LET s == sprite_scanline[i]
               IN  /\ (s.id + 2) * 2 * Tile <= Table
                   /\ line' = PreRender => s.y <= line' /\ line' - s.y <= 2 * Tile
    <3> DEFINE s == sprite_scanline[i]
    <3>1. s.y \in Nat
      BY DEF SpritesInv, SpritesTypeOK, Sprite
    <3>2. /\ (s.id + 2) * 2 * Tile <= Table /\ s.y <= line
          /\ line < PreRender => line - s.y < 2 * Tile
      BY <1>1 DEF SpritesInv, ListedInReach
    <3> HIDE DEF s
    <3>3. line' = PreRender => s.y <= line' /\ line' - s.y <= 2 * Tile
      <4>1. CASE line = PreRender
        <5>1. line' = 0 /\ PreRender # 0
          BY <1>1, <4>1, Sizes
        <5> QED
          BY <5>1
      <4>2. CASE line # PreRender
        <5>1. line' = line + 1 /\ line < PreRender
          BY <1>1, <4>2
        <5> QED
          BY <1>1, <3>1, <3>2, <5>1
      <4> QED
        BY <4>1, <4>2
    <3> QED
      BY <3>2, <3>3 DEF s
  <2>2. ~(dot' > Width)
    BY <1>1
  <2> QED
    BY <1>1, <2>1, <2>2 DEF ListedInReach
<1>4. line' \in 0 .. PreRender /\ dot' \in 1 .. Width + 2
  BY <1>1
<1>5. BeamKept'
  BY <1>1 DEF BeamKept
<1> QED
  BY <1>1, <1>2, <1>3, <1>4, <1>5 DEF SpritesInv, SpritesTypeOK, mask

\* Lines, lists, counters and shifters keep their ranges and every fetch reads
\* inside the memory of the PPU, whatever pages the ROM sends and whenever it
\* changes the mask or the height: also on the pre-render line, where the row
\* fetched may lie outside the sprite.
THEOREM SpritesTypes == SpritesSpec => []SpritesTypeOK
<1>1. SpritesInit => SpritesInv
  <2> SUFFICES ASSUME SpritesInit PROVE SpritesInv
    OBVIOUS
  <2>1. DOMAIN sprite_scanline = 1 .. 0 /\ 1 .. 0 = {} /\ 0 \in 0 .. MaxSprites
    BY Sizes DEF SpritesInit
  <2>2. shifters \in [1 .. MaxSprites -> [1 .. Tile -> 0 .. 3]]
    <3>1. Blank \in [1 .. Tile -> 0 .. 3] /\ Full \in [1 .. Tile -> 0 .. 3]
      BY DEF Blank, Full
    <3> QED
      BY <3>1 DEF SpritesInit
  <2>3. line \in 0 .. PreRender /\ dot \in 1 .. Width + 2
    BY Sizes DEF SpritesInit
  <2>4. mask \in BOOLEAN \X BOOLEAN \X BOOLEAN /\ ctrl \in BOOLEAN \X (0 .. 1)
    <3>1. render_background \in BOOLEAN /\ render_sprites \in BOOLEAN /\ left_on \in BOOLEAN
      BY DEF SpritesInit
    <3>2. 0 \in 0 .. 1 /\ FALSE \in BOOLEAN
      OBVIOUS
    <3>3. <<FALSE, 0>> \in BOOLEAN \X (0 .. 1)
      BY <3>2
    <3>4. ctrl = <<FALSE, 0>>
      BY Zenon DEF SpritesInit
    <3> QED
      BY <3>1, <3>3, <3>4 DEF mask
  <2>5. \E n \in 0 .. MaxSprites : DOMAIN sprite_scanline = 1 .. n
    BY <2>1
  <2>6. \A i \in DOMAIN sprite_scanline : sprite_scanline[i] \in Sprite
    BY <2>1
  <2>7. SpritesTypeOK
    BY <2>2, <2>3, <2>4, <2>5, <2>6 DEF SpritesInit, SpritesTypeOK
  <2>8. ListedInReach /\ BeamKept
    BY <2>1 DEF SpritesInit, ListedInReach, BeamKept
  <2> QED
    BY <2>7, <2>8 DEF SpritesInv
<1>2. SpritesInv /\ [SpritesNext]_spriteVars => SpritesInv'
  <2> SUFFICES ASSUME SpritesInv, [SpritesNext]_spriteVars PROVE SpritesInv'
    OBVIOUS
  <2>1. CASE SendPage
    BY <2>1 DEF SendPage, beam, unit, mask, SpritesInv, SpritesTypeOK, ListedInReach, BeamKept
  <2>2. CASE SetMask
    BY <2>2 DEF SetMask, beam, unit, mask, SpritesInv, SpritesTypeOK, ListedInReach, BeamKept
  <2>3. CASE SetCtrl
    BY <2>3, SpriteAssumption
    DEF SetCtrl, beam, unit, mask, SpritesInv, SpritesTypeOK, ListedInReach, BeamKept
  <2>4. CASE UNCHANGED spriteVars
    BY <2>4 DEF spriteVars, beam, unit, mask, SpritesInv, SpritesTypeOK, ListedInReach, BeamKept
  <2> QED
    BY <2>1, <2>2, <2>3, <2>4, DrawDotInv, PreRenderDotInv, IdleLineInv, EndLineInv
    DEF SpritesNext
<1>3. SpritesInv => SpritesTypeOK
  BY DEF SpritesInv
<1> QED
  BY <1>1, <1>2, <1>3, PTL DEF SpritesSpec

-----------------------------------------------------------------------------
(* The picture.  The i-th slot of the list is the i-th place of OAM in     *)
(* range; its counter and shifter say how far the beam is.                 *)

\* A set of places has a first one.
LEMMA FirstExists ==
    ASSUME NEW S \in SUBSET Nat, IsFiniteSet(S), S # {}
    PROVE  FirstOf(S) \in S /\ \A j \in S : FirstOf(S) <= j
<1>1. Cardinality(S) \in Nat /\ Cardinality(S) # 0
  BY FS_CardinalityType, FS_EmptySet
<1>2. 1 \in 1 .. Cardinality(S)
  BY <1>1
<1> DEFINE k == Nth(S, 1)
           B == {j \in S : j < k}
<1>3. k \in S /\ Rank(S, k) = 1 - 1
  BY <1>2, NthHasRank
<1>4. B = {}
  <2>1. IsFiniteSet(B)
    <3>1. B \in SUBSET S
      OBVIOUS
    <3> QED
      BY <3>1, FS_Subset
  <2>2. Cardinality(B) = 0
    BY <1>3 DEF Rank
  <2> HIDE DEF B
  <2> QED
    BY <2>1, <2>2, FS_EmptySet
<1>5. \A j \in S : k <= j
  <2> HIDE DEF k
  <2> QED
    BY <1>3, <1>4
<1> HIDE DEF k
<1> QED
  BY <1>3, <1>5 DEF FirstOf

\* Slots and places correspond, in order.
LEMMA SlotsInOrder ==
    ASSUME NEW page \in Images, NEW l, NEW c
    PROVE  LET S == PlacesInRange(page, l, c)
               n == Room(page, l, c)
           IN  /\ \A i \in 1 .. n : Nth(S, i) \in S /\ Rank(S, Nth(S, i)) < MaxSprites
               /\ \A k \in S : Rank(S, k) < MaxSprites =>
                     Rank(S, k) + 1 \in 1 .. n /\ Nth(S, Rank(S, k) + 1) = k
               /\ \A i, j \in 1 .. n : i <= j => Nth(S, i) <= Nth(S, j)
<1> DEFINE S == PlacesInRange(page, l, c)
           n == Room(page, l, c)
<1>1. /\ S \in SUBSET Nat /\ IsFiniteSet(S) /\ Cardinality(S) \in Nat
      /\ n \in 0 .. MaxSprites /\ n <= Cardinality(S)
      /\ \A i \in 1 .. n : Nth(S, i) \in S /\ Rank(S, Nth(S, i)) = i - 1
  BY FoundInOrder
<1>2. n = IF Cardinality(S) <= MaxSprites THEN Cardinality(S) ELSE MaxSprites
  BY DEF Room
<1>3. MaxSprites \in Nat
  BY Sizes
<1> HIDE DEF S, n
<1>4. \A i \in 1 .. n : Nth(S, i) \in S /\ Rank(S, Nth(S, i)) < MaxSprites
  BY <1>1, <1>3
<1>5. ASSUME NEW k \in S, NEW m \in S, Rank(S, k) = Rank(S, m)
      PROVE  k = m
  <2>1. k \in Nat /\ m \in Nat /\ Rank(S, k) \in Nat
    BY <1>1, RankGrows
  <2>2. ~(k < m) /\ ~(m < k)
    BY <1>1, <1>5, <2>1, RankGrows
  <2> QED
    BY <2>1, <2>2
<1>6. ASSUME NEW k \in S, Rank(S, k) < MaxSprites
      PROVE  Rank(S, k) + 1 \in 1 .. n /\ Nth(S, Rank(S, k) + 1) = k
  <2>1. Rank(S, k) \in Nat /\ Rank(S, k) < Cardinality(S)
    BY <1>1, RankGrows
  <2>2. Rank(S, k) + 1 \in 1 .. n /\ (Rank(S, k) + 1) - 1 = Rank(S, k)
    BY <1>1, <1>2, <1>3, <1>6, <2>1
  <2>3. Nth(S, Rank(S, k) + 1) \in S /\ Rank(S, Nth(S, Rank(S, k) + 1)) = Rank(S, k)
    BY <1>1, <2>2
  <2> QED
    BY <1>5, <2>2, <2>3
<1>7. ASSUME NEW i \in 1 .. n, NEW j \in 1 .. n, i <= j
      PROVE  Nth(S, i) <= Nth(S, j)
  <2> DEFINE a == Nth(S, i)
             b == Nth(S, j)
  <2>1. a \in S /\ b \in S /\ Rank(S, a) = i - 1 /\ Rank(S, b) = j - 1
    BY <1>1
  <2> HIDE DEF a, b
  <2>2. a \in Nat /\ b \in Nat
    BY <1>1, <2>1
  <2>3. ~(b < a)
    <3>1. SUFFICES ASSUME b < a PROVE FALSE
      OBVIOUS
    <3>2. Rank(S, b) < Rank(S, a)
      BY <1>1, <2>1, <3>1, RankGrows
    <3> QED
      BY <1>1, <1>7, <2>1, <3>2
  <2>4. a <= b
    BY <2>2, <2>3
  <2> QED
    BY <2>4 DEF a, b
<1> QED
  BY <1>4, <1>6, <1>7 DEF S, n

\* The slots that show at a dot stand for the places that do, and the first
\* slot for the first place.
LEMMA FirstSlotFirstPlace ==
    ASSUME NEW l, NEW d, oamSeen \in Images
    PROVE  LET F == Found(oamSeen, l, ctrlSeen)
               O == {i \in DOMAIN F : SpritePixel(F[i], l, d, ctrlSeen) # 0}
               P == Showing(l, d)
           IN  /\ O = {} <=> P = {}
               /\ O # {} => /\ FirstOf(O) \in O
                            /\ F[FirstOf(O)] = oamSeen[FirstOf(P)]
<1> DEFINE c == ctrlSeen
           page == oamSeen
           F == Found(page, l, c)
           S == PlacesInRange(page, l, c)
           n == Room(page, l, c)
           O == {i \in DOMAIN F : SpritePixel(F[i], l, d, c) # 0}
           P == Showing(l, d)
<1>1. /\ S \in SUBSET Nat /\ IsFiniteSet(S) /\ n \in 0 .. MaxSprites /\ DOMAIN F = 1 .. n
      /\ \A i \in 1 .. n : F[i] = page[Nth(S, i)]
  BY FoundInOrder
<1>2. /\ \A i \in 1 .. n : Nth(S, i) \in S /\ Rank(S, Nth(S, i)) < MaxSprites
      /\ \A k \in S : Rank(S, k) < MaxSprites =>
            Rank(S, k) + 1 \in 1 .. n /\ Nth(S, Rank(S, k) + 1) = k
      /\ \A i, j \in 1 .. n : i <= j => Nth(S, i) <= Nth(S, j)
  BY SlotsInOrder
<1>3. P = {k \in S : SpritePixel(page[k], l, d, c) # 0 /\ Rank(S, k) < MaxSprites}
  <2>1. \A k \in DOMAIN page : SpritePixel(page[k], l, d, c) # 0 => k \in S
    BY DEF SpritePixel, PlacesInRange
  <2>2. S \subseteq DOMAIN page
    BY DEF PlacesInRange
  <2>3. ASSUME NEW k \in DOMAIN page
        PROVE  Cardinality({j \in 1 .. k - 1 : InRange(oamSeen[j], l, ctrlSeen)}) = Rank(S, k)
    <3>1. {j \in 1 .. k - 1 : InRange(oamSeen[j], l, ctrlSeen)} = {j \in S : j < k}
      <4>1. DOMAIN page = 1 .. Len(page) /\ Len(page) \in Nat
        BY PageType
      <4>2. \A j : j \in 1 .. k - 1 <=> j \in DOMAIN page /\ j < k
        <5> HIDE DEF page
        <5> QED
          BY <4>1, <2>3
      <4> QED
        BY <4>2 DEF PlacesInRange
    <3> QED
      BY <3>1 DEF Rank
  <2>4. P = {k \in DOMAIN page : SpritePixel(page[k], l, d, c) # 0 /\ Rank(S, k) < MaxSprites}
    BY <2>3 DEF Showing
  <2> HIDE DEF P, S
  <2> QED
    BY <2>1, <2>2, <2>4
<1> HIDE DEF F, S, n, c, page, P
<1>4. \A i \in O : Nth(S, i) \in P
  BY <1>1, <1>2, <1>3
<1>5. \A k \in P : Rank(S, k) + 1 \in O /\ Nth(S, Rank(S, k) + 1) = k
  BY <1>1, <1>2, <1>3
<1>6. O = {} <=> P = {}
  <2> HIDE DEF O
  <2> QED
    BY <1>4, <1>5
<1>7. ASSUME O # {}
      PROVE  FirstOf(O) \in O /\ F[FirstOf(O)] = page[FirstOf(P)]
  <2>1. O \in SUBSET (1 .. n) /\ O \in SUBSET Nat
    BY <1>1
  <2>2. IsFiniteSet(O)
    <3>1. IsFiniteSet(1 .. n)
      BY <1>1, FS_Interval
    <3> HIDE DEF O
    <3> QED
      BY <2>1, <3>1, FS_Subset
  <2>3. FirstOf(O) \in O /\ \A j \in O : FirstOf(O) <= j
    <3> HIDE DEF O
    <3> QED
      BY <1>7, <2>1, <2>2, FirstExists
  <2> DEFINE k == Nth(S, FirstOf(O))
  <2>4. FirstOf(O) \in 1 .. n /\ k \in P
    BY <2>1, <2>3, <1>4
  <2>5. \A m \in P : k <= m
    <3> SUFFICES ASSUME NEW m \in P PROVE k <= m
      OBVIOUS
    <3> DEFINE j == Rank(S, m) + 1
    <3>1. j \in O /\ Nth(S, j) = m
      BY <1>5
    <3>2. FirstOf(O) <= j /\ j \in 1 .. n
      BY <2>1, <2>3, <3>1
    <3> HIDE DEF j
    <3> QED
      BY <1>2, <2>4, <3>1, <3>2
  <2>6. P \in SUBSET Nat
    BY <1>1, <1>3
  <2> HIDE DEF k, O
  <2>7. FirstOf(P) = k
    <3>1. \A m \in P : (\A j \in P : m <= j) => m = k
      <4>1. k \in Nat
        BY <2>4, <2>6
      <4> QED
        BY <2>4, <2>5, <2>6, <4>1
    <3> QED
      BY <2>4, <2>5, <3>1 DEF FirstOf
  <2> QED
    BY <1>1, <2>3, <2>4, <2>7 DEF k
<1> QED
  BY <1>6, <1>7 DEF F, c, page, P

\* A sprite after n counts.
CountedDown(s, n) == [s EXCEPT !.x = IF @ > n THEN @ - n ELSE 0]

LEMMA CountsAdd ==
    ASSUME NEW s \in Sprite, NEW n \in Nat
    PROVE  LET m == CountedDown(s, n)
           IN  /\ m.y = s.y /\ m.id = s.id /\ m.flip_x = s.flip_x /\ m.flip_y = s.flip_y
               /\ m.behind = s.behind /\ (m.x = 0 <=> s.x <= n)
               /\ [m EXCEPT !.x = IF @ > 0 THEN @ - 1 ELSE @] = CountedDown(s, n + 1)
               /\ CountedDown(s, 0) = s
<1> DEFINE m == CountedDown(s, n)
           x == IF s.x > n THEN s.x - n ELSE 0
           y == IF s.x > n + 1 THEN s.x - (n + 1) ELSE 0
<1>1. s.x \in Nat
  BY DEF Sprite
<1>2. m = [s EXCEPT !.x = x] /\ CountedDown(s, n + 1) = [s EXCEPT !.x = y]
  BY DEF CountedDown
<1>3. x \in Nat /\ y \in Nat /\ (x = 0 <=> s.x <= n) /\ y = (IF x > 0 THEN x - 1 ELSE x)
  BY <1>1
<1> HIDE DEF m, x, y
<1>4. /\ m.y = s.y /\ m.id = s.id /\ m.flip_x = s.flip_x /\ m.flip_y = s.flip_y
      /\ m.behind = s.behind /\ m.x = x
  BY <1>2 DEF Sprite
<1>5. [m EXCEPT !.x = IF @ > 0 THEN @ - 1 ELSE @] = [m EXCEPT !.x = y]
  BY <1>3, <1>4
<1>6. [m EXCEPT !.x = y] = [s EXCEPT !.x = y]
  BY <1>2 DEF Sprite
<1>7. CountedDown(s, 0) = s
  <2>1. CountedDown(s, 0) = [s EXCEPT !.x = IF s.x > 0 THEN s.x - 0 ELSE 0]
    BY DEF CountedDown
  <2>2. (IF s.x > 0 THEN s.x - 0 ELSE 0) = s.x
    BY <1>1
  <2> QED
    BY <2>1, <2>2 DEF Sprite
<1> QED
  BY <1>2, <1>3, <1>4, <1>5, <1>6, <1>7 DEF m

\* Where a sprite starts is where its counter runs out.
LEMMA StartsWhenCounted ==
    ASSUME NEW s \in Sprite, NEW d \in Nat
    PROVE  StartDot(s) \in Nat /\ (s.x <= d + 1 <=> StartDot(s) <= d)
BY DEF StartDot, Sprite

\* The column of a row a sprite shows in, and none beside it.
LEMMA BesideIsEmpty ==
    ASSUME NEW s \in Sprite, NEW l \in Int, NEW c, NEW d \in Int,
           d < StartDot(s) \/ d >= StartDot(s) + Tile
    PROVE  SpritePixel(s, l, d, c) = 0
<1>1. StartDot(s) \in Nat /\ Tile \in Nat
  BY Sizes DEF StartDot, Sprite
<1>2. ~(d - StartDot(s) \in 0 .. Tile - 1)
  BY <1>1
<1> QED
  BY <1>2 DEF SpritePixel

\* What the fetch leaves in a slot is the row of the sprite, a pixel for each
\* dot from its first on; in a tall sprite, the row of one of its two tiles.
LEMMA PatternIsRow ==
    ASSUME NEW s \in Sprite, line \in Nat, ctrl \in BOOLEAN \X (0 .. 1),
           InRange(s, line, ctrl), NEW col \in 1 .. Tile
    PROVE  Pattern(s)[col] = SpritePixel(s, line, StartDot(s) + col - 1, ctrl)
<1> DEFINE diff == line - s.y
           base == IF ctrl[1] THEN TallAddress(s, diff) ELSE ShortAddress(s, diff)
           pixels == [x \in 1 .. Tile |-> Chr[base][x] + 2 * Chr[base + 1][x]]
           d == StartDot(s) + col - 1
           tt == TileAt(s, line, ctrl)
           row == IF s.flip_y THEN Tile - 1 - (line - tt.y) ELSE line - tt.y
           across == d - StartDot(s)
           column == IF s.flip_x THEN Tile - across ELSE across + 1
           place == tt.table * Table + tt.id * 2 * Tile + row
<1>1. Tile \in Nat \ {0} /\ Table \in Nat /\ s.y \in Nat /\ s.id \in Nat /\ col \in Nat
  BY Sizes DEF Sprite
<1>2. ctrl[1] \in BOOLEAN /\ ctrl[2] \in 0 .. 1
  BY CtrlType
<1>3. diff \in Nat /\ diff < (IF ctrl[1] THEN 2 * Tile ELSE Tile)
  BY <1>1 DEF InRange, Height
<1>4. across = col - 1 /\ across \in 0 .. Tile - 1
  <2>1. StartDot(s) \in Nat
    BY DEF StartDot, Sprite
  <2> QED
    BY <1>1, <2>1
<1>5. base = place
  <2>1. CASE ~ctrl[1]
    <3> DEFINE r == IF s.flip_y THEN Tile - 1 - diff ELSE diff
    <3>1. tt.table = ctrl[2] /\ tt.id = s.id /\ tt.y = s.y
      BY <2>1 DEF TileAt
    <3>2. r \in 0 .. Tile - 1
      BY <1>1, <1>3, <2>1
    <3>3. row = r
      BY <3>1
    <3>4. r % (2 * Tile) = r /\ ~(r < 0) /\ r < 2 * Tile
      <4> HIDE DEF r
      <4> QED
        BY <1>1, <3>2
    <3>5. base = ctrl[2] * Table + s.id * 2 * Tile + r
      BY <2>1, <3>4 DEF ShortAddress
    <3> HIDE DEF r, base, row
    <3> QED
      BY <3>1, <3>3, <3>5
  <2>2. CASE ctrl[1] /\ diff < Tile
    <3> DEFINE m == diff % Tile
    <3>1. tt.table = s.id % 2 /\ tt.id = Even(s.id) + 0 /\ tt.y = s.y + 0
      BY <1>1, <2>2 DEF TileAt
    <3>2. m = diff
      <4>1. diff = Tile * 0 + diff /\ diff \in 0 .. Tile - 1
        BY <1>1, <1>3, <2>2
      <4> HIDE DEF diff
      <4> QED
        BY <1>1, <1>3, <4>1, DivModUnique
    <3>3. tt.id = Even(s.id) /\ tt.y = s.y
      BY <1>1, <3>1 DEF Even
    <3>4. base = (s.id % 2) * Table + Even(s.id) * 2 * Tile
                   + (IF s.flip_y THEN Tile - 1 - m ELSE m)
      BY <2>2 DEF TallAddress
    <3> HIDE DEF m, base
    <3> QED
      BY <3>1, <3>2, <3>3, <3>4
  <2>3. CASE ctrl[1] /\ ~(diff < Tile)
    <3> DEFINE m == diff % Tile
    <3>1. tt.table = s.id % 2 /\ tt.id = Even(s.id) + 1 /\ tt.y = s.y + Tile
      BY <1>1, <1>3, <2>3 DEF TileAt
    <3>2. m = diff - Tile
      <4>1. diff = Tile * 1 + (diff - Tile) /\ diff - Tile \in 0 .. Tile - 1
        BY <1>1, <1>3, <2>3
      <4> HIDE DEF diff
      <4> QED
        BY <1>1, <1>3, <4>1, DivModUnique
    <3>3. line - tt.y = diff - Tile /\ tt.id = Odd(s.id)
      BY <1>1, <3>1 DEF Even, Odd
    <3>4. base = (s.id % 2) * Table + Odd(s.id) * 2 * Tile
                   + (IF s.flip_y THEN Tile - 1 - m ELSE m)
      BY <2>3 DEF TallAddress
    <3> HIDE DEF m, base, diff
    <3> QED
      BY <3>1, <3>2, <3>3, <3>4
  <2> QED
    BY <1>2, <2>1, <2>2, <2>3
<1>6. SpritePixel(s, line, d, ctrl) = Chr[place][column] + 2 * Chr[place + 1][column]
  <2> HIDE DEF d
  <2> QED
    BY <1>4 DEF SpritePixel
<1>7. Pattern(s)[col] = Chr[base][column] + 2 * Chr[base + 1][column]
  <2>1. Pattern(s) = IF s.flip_x THEN [x \in 1 .. Tile |-> pixels[Tile + 1 - x]] ELSE pixels
    BY DEF Pattern
  <2> HIDE DEF base
  <2>2. \A x \in 1 .. Tile : pixels[x] = Chr[base][x] + 2 * Chr[base + 1][x]
    OBVIOUS
  <2>3. CASE s.flip_x
    <3>1. Pattern(s)[col] = pixels[Tile + 1 - col]
      BY <2>1, <2>3
    <3>2. Tile + 1 - col \in 1 .. Tile /\ column = Tile + 1 - col
      BY <1>1, <1>4, <2>3
    <3> HIDE DEF pixels, column
    <3> QED
      BY <2>2, <3>1, <3>2
  <2>4. CASE ~s.flip_x
    <3>1. Pattern(s)[col] = pixels[col]
      BY <2>1, <2>4
    <3>2. column = col
      BY <1>1, <1>4, <2>4
    <3> HIDE DEF pixels, column
    <3> QED
      BY <2>2, <3>1, <3>2
  <2> QED
    BY <2>3, <2>4
<1> QED
  BY <1>5, <1>6, <1>7

-----------------------------------------------------------------------------
(* List and shifters from one dot to the next, F being what was found.     *)

\* The list holds F, counted down n times.
ListIs(list, F, n) ==
    /\ DOMAIN list = DOMAIN F
    /\ \A i \in DOMAIN F : list[i] = CountedDown(F[i], n)

\* After dot d the first pixel in a shifter is that of d, or that of the first
\* dot of its sprite if the beam has not come there.
Later(d, e) == IF e <= d THEN d ELSE e
ShiftersAt(from, F, l, c, d) ==
    \A i \in DOMAIN F, x \in 1 .. Tile :
        from[i][x] = SpritePixel(F[i], l, Later(d, StartDot(F[i])) + x - 1, c)

SpriteList(F) == DOMAIN F \subseteq 1 .. MaxSprites /\ \A i \in DOMAIN F : F[i] \in Sprite

LEMMA ListMoves ==
    ASSUME NEW F, SpriteList(F), NEW n \in Nat, ListIs(sprite_scanline, F, n),
           render_sprites
    PROVE  ListIs(MovedList, F, n + 1)
<1>1. /\ DOMAIN sprite_scanline = DOMAIN F
      /\ \A i \in DOMAIN F : sprite_scanline[i] = CountedDown(F[i], n)
  BY DEF ListIs
<1>2. MovedList = Counted
  BY DEF MovedList
<1>3. DOMAIN Counted = DOMAIN F
  BY <1>1 DEF Counted
<1>4. ASSUME NEW i \in DOMAIN F
      PROVE  Counted[i] = CountedDown(F[i], n + 1)
  <2> DEFINE m == sprite_scanline[i]
  <2>1. Counted[i] = [m EXCEPT !.x = IF @ > 0 THEN @ - 1 ELSE @]
    BY <1>1 DEF Counted
  <2>2. m = CountedDown(F[i], n) /\ F[i] \in Sprite
    BY <1>1 DEF SpriteList
  <2>3. [CountedDown(F[i], n) EXCEPT !.x = IF @ > 0 THEN @ - 1 ELSE @] = CountedDown(F[i], n + 1)
    BY <2>2, CountsAdd
  <2> HIDE DEF m
  <2> QED
    BY <2>1, <2>2, <2>3
<1> QED
  BY <1>2, <1>3, <1>4 DEF ListIs

\* A shifter moves on from the dot its sprite starts at.
LEMMA ShiftersMove ==
    ASSUME NEW F, SpriteList(F), NEW l \in Int, NEW c, NEW d \in Nat \ {0},
           ListIs(sprite_scanline, F, d), ShiftersAt(shifters, F, l, c, d - 1),
           render_sprites
    PROVE  ShiftersAt(MovedShifters(shifters), F, l, c, d)
<1> SUFFICES ASSUME NEW i \in DOMAIN F, NEW x \in 1 .. Tile
             PROVE  MovedShifters(shifters)[i][x]
                      = SpritePixel(F[i], l, Later(d, StartDot(F[i])) + x - 1, c)
  BY DEF ShiftersAt
<1> DEFINE e == StartDot(F[i])
<1>1. F[i] \in Sprite /\ i \in 1 .. MaxSprites /\ Tile \in Nat
  BY Sizes DEF SpriteList
<1>2. /\ i \in DOMAIN sprite_scanline
      /\ sprite_scanline[i].x = 0 <=> F[i].x <= d
  <2>1. i \in DOMAIN sprite_scanline /\ sprite_scanline[i] = CountedDown(F[i], d)
    BY DEF ListIs
  <2>2. d \in Nat
    OBVIOUS
  <2>3. CountedDown(F[i], d).x = 0 <=> F[i].x <= d
    BY <1>1, <2>2, CountsAdd
  <2> QED
    BY <2>1, <2>3
<1>3. e \in Nat /\ (F[i].x <= d <=> e <= d - 1)
  <2>1. d - 1 \in Nat /\ (d - 1) + 1 = d
    OBVIOUS
  <2> QED
    BY <1>1, <2>1, StartsWhenCounted
<1>4. \A y \in 1 .. Tile : shifters[i][y] = SpritePixel(F[i], l, Later(d - 1, e) + y - 1, c)
  BY DEF ShiftersAt
<1>5. MovedShifters(shifters)[i]
        = IF sprite_scanline[i].x = 0 THEN Shifted(shifters[i]) ELSE shifters[i]
  BY <1>1, <1>2 DEF MovedShifters, ShiftedOut
<1> HIDE DEF e
<1>6. CASE e <= d - 1
  <2>1. Later(d, e) = d /\ Later(d - 1, e) = d - 1
    BY <1>3, <1>6 DEF Later
  <2>2. MovedShifters(shifters)[i][x] = IF x < Tile THEN shifters[i][x + 1] ELSE 0
    BY <1>2, <1>3, <1>5, <1>6 DEF Shifted
  <2>3. CASE x < Tile
    <3>1. x + 1 \in 1 .. Tile /\ (d - 1) + (x + 1) - 1 = d + x - 1
      BY <1>1, <2>3
    <3>2. shifters[i][x + 1] = SpritePixel(F[i], l, (d - 1) + (x + 1) - 1, c)
      BY <1>4, <2>1, <3>1
    <3> QED
      BY <2>1, <2>2, <2>3, <3>1, <3>2 DEF e
  <2>4. CASE ~(x < Tile)
    <3>1. d + x - 1 \in Int /\ d + x - 1 >= e + Tile
      BY <1>1, <1>3, <1>6, <2>4
    <3>2. SpritePixel(F[i], l, d + x - 1, c) = 0
      BY <1>1, <3>1, BesideIsEmpty DEF e
    <3> QED
      BY <2>1, <2>2, <2>4, <3>2 DEF e
  <2> QED
    BY <2>3, <2>4
<1>7. CASE ~(e <= d - 1)
  <2>1. Later(d, e) = e /\ Later(d - 1, e) = e
    BY <1>3, <1>7 DEF Later
  <2>2. MovedShifters(shifters)[i][x] = shifters[i][x]
    BY <1>2, <1>3, <1>5, <1>7
  <2> QED
    BY <1>4, <2>1, <2>2 DEF e
<1> QED
  BY <1>6, <1>7

\* The slots opaque at a dot are those whose sprite has a pixel there.
LEMMA SlotsShown ==
    ASSUME NEW F, SpriteList(F), NEW l \in Int, NEW c, NEW d \in Nat,
           NEW list, NEW pixels,
           ListIs(list, F, d + 1), ShiftersAt(pixels, F, l, c, d), render_sprites
    PROVE  /\ Opaque(list, pixels) = {i \in DOMAIN F : SpritePixel(F[i], l, d, c) # 0}
           /\ \A i \in Opaque(list, pixels) :
                 /\ pixels[i][1] = SpritePixel(F[i], l, d, c)
                 /\ list[i].id = F[i].id /\ list[i].behind = F[i].behind
<1>1. ASSUME NEW i \in DOMAIN F
      PROVE  /\ list[i].id = F[i].id /\ list[i].behind = F[i].behind
             /\ list[i].x = 0 => pixels[i][1] = SpritePixel(F[i], l, d, c)
             /\ list[i].x # 0 => SpritePixel(F[i], l, d, c) = 0
  <2> DEFINE e == StartDot(F[i])
  <2>1. F[i] \in Sprite /\ d + 1 \in Nat /\ list[i] = CountedDown(F[i], d + 1)
    BY DEF SpriteList, ListIs
  <2>2. /\ list[i].id = F[i].id /\ list[i].behind = F[i].behind
        /\ list[i].x = 0 <=> F[i].x <= d + 1
    <3> DEFINE s == F[i]
               m == CountedDown(s, d + 1)
    <3>1. m.id = s.id /\ m.behind = s.behind /\ (m.x = 0 <=> s.x <= d + 1)
      BY <2>1, CountsAdd
    <3> HIDE DEF m
    <3> QED
      BY <2>1, <3>1 DEF m
  <2>3. e \in Nat /\ (F[i].x <= d + 1 <=> e <= d)
    BY <2>1, StartsWhenCounted
  <2>4. 1 \in 1 .. Tile
    BY Sizes
  <2>5. pixels[i][1] = SpritePixel(F[i], l, Later(d, e) + 1 - 1, c)
    BY <2>4 DEF ShiftersAt
  <2>6. ASSUME e <= d PROVE pixels[i][1] = SpritePixel(F[i], l, d, c)
    <3>1. Later(d, e) + 1 - 1 = d
      BY <2>3, <2>6 DEF Later
    <3> QED
      BY <2>5, <3>1
  <2>7. ASSUME ~(e <= d) PROVE SpritePixel(F[i], l, d, c) = 0
    <3>1. d \in Int /\ d < StartDot(F[i])
      BY <2>3, <2>7
    <3> QED
      BY <2>1, <3>1, BesideIsEmpty
  <2> HIDE DEF e
  <2> QED
    BY <2>2, <2>3, <2>6, <2>7
<1>2. Opaque(list, pixels) = {i \in DOMAIN F : list[i].x = 0 /\ pixels[i][1] # 0}
  BY DEF Opaque, ListIs
<1> QED
  BY <1>1, <1>2

-----------------------------------------------------------------------------
(* The history.                                                            *)

\* The line the sprites were found on, and how often dots have counted since.
SeenLine == IF dot > Width THEN line ELSE line - 1
Counts == IF dot > Width THEN dot - (Width + 1) ELSE dot

\* The sprites a history says were found.
Seen == Found(oamSeen, SeenLine, ctrlSeen)

\* With the history kept and sprites rendered, list and shifters are what OAM
\* held at the evaluation, moved on by the dots since.
SeenFollows ==
    seen # <<>> /\ render_sprites =>
        /\ oamSeen \in Images /\ ctrlSeen \in BOOLEAN \X (0 .. 1)
        /\ SeenLine \in 0 .. Picture - 1
        /\ dot > Width => ctrl = ctrlSeen
        /\ sprite_zero_hit_possible = InRange(oamSeen[1], SeenLine, ctrlSeen)
        /\ ListIs(sprite_scanline, Seen, Counts)
        /\ dot <= Width => ShiftersAt(shifters, Seen, SeenLine, ctrlSeen, dot - 1)

LEMMA SeenIsList ==
    ASSUME oamSeen \in Images
    PROVE  /\ SpriteList(Seen)
           /\ \A i \in DOMAIN Seen : InRange(Seen[i], SeenLine, ctrlSeen)
<1>1. PICK n \in 0 .. MaxSprites : DOMAIN Seen = 1 .. n
  BY FoundType DEF Seen
<1>2. 1 .. n \subseteq 1 .. MaxSprites
  BY Sizes
<1>3. \A i \in DOMAIN Seen : Seen[i] \in Sprite /\ InRange(Seen[i], SeenLine, ctrlSeen)
  BY FoundType DEF Seen
<1> QED
  BY <1>1, <1>2, <1>3 DEF SpriteList

\* The evaluation begins a history.
LEMMA EvaluateSeen ==
    ASSUME SpritesTypeOK, DrawDot, dot = Width
    PROVE  SeenFollows'
<1> SUFFICES ASSUME seen' # <<>> PROVE SeenFollows'
  BY DEF SeenFollows
<1>1. /\ oam \in Images /\ ctrl \in BOOLEAN \X (0 .. 1) /\ line \in Nat /\ line < Picture
      /\ Evaluate /\ dot' = Width + 1 /\ line' = line /\ ctrl' = ctrl
      /\ Width \in Nat \ {0} /\ Picture \in Nat
  BY Sizes DEF SpritesTypeOK, DrawDot
<1>2. seen' = <<oam, ctrl>> /\ sprite_scanline' = Found(oam, line, ctrl)
      /\ sprite_zero_hit_possible' = InRange(oam[1], line, ctrl)
  BY <1>1 DEF Evaluate
<1>3. oamSeen' = oam /\ ctrlSeen' = ctrl
  BY <1>2 DEF oamSeen, ctrlSeen
<1>4. SeenLine' = line /\ Counts' = 0 /\ dot' > Width /\ ~(dot' <= Width)
  BY <1>1 DEF SeenLine, Counts
<1>5. Seen' = Found(oam, line, ctrl)
  BY <1>3, <1>4 DEF Seen, Found, PlacesInRange, InRange, Height
<1>6. ListIs(sprite_scanline', Seen', Counts')
  <2>1. \A i \in DOMAIN Found(oam, line, ctrl) : Found(oam, line, ctrl)[i] \in Sprite
    BY <1>1, FoundType
  <2>2. \A i \in DOMAIN Found(oam, line, ctrl) :
           Found(oam, line, ctrl)[i] = CountedDown(Found(oam, line, ctrl)[i], 0)
    <3> SUFFICES ASSUME NEW i \in DOMAIN Found(oam, line, ctrl)
                 PROVE  Found(oam, line, ctrl)[i] = CountedDown(Found(oam, line, ctrl)[i], 0)
      OBVIOUS
    <3> DEFINE s == Found(oam, line, ctrl)[i]
    <3>1. s \in Sprite /\ 0 \in Nat
      BY <2>1
    <3> HIDE DEF s
    <3>2. CountedDown(s, 0) = s
      BY <3>1, CountsAdd
    <3> QED
      BY <3>2 DEF s
  <2> QED
    BY <1>2, <1>4, <1>5, <2>2, Zenon DEF ListIs
<1>7. SeenLine' \in 0 .. Picture - 1
  BY <1>1, <1>4
<1>8. sprite_zero_hit_possible' = InRange(oamSeen[1], SeenLine, ctrlSeen)'
  BY <1>2, <1>3, <1>4, Zenon DEF InRange, Height
<1> QED
  BY <1>1, <1>3, <1>4, <1>6, <1>7, <1>8 DEF SeenFollows

\* Where the history and what was found stay the same.
LEMMA SeenStays ==
    ASSUME seen' = seen, SeenLine' = SeenLine
    PROVE  /\ oamSeen' = oamSeen /\ ctrlSeen' = ctrlSeen /\ Seen' = Seen
           /\ InRange(oamSeen[1], SeenLine, ctrlSeen)' = InRange(oamSeen[1], SeenLine, ctrlSeen)
BY DEF oamSeen, ctrlSeen, Seen, Found, PlacesInRange, InRange, Height

\* What a dot of the picture leaves of a history, with what it draws from.
LEMMA DrawDotSeen ==
    ASSUME SpritesTypeOK, SeenFollows, DrawDot, seen # <<>>, render_sprites
    PROVE  /\ oamSeen \in Images /\ ctrlSeen \in BOOLEAN \X (0 .. 1) /\ SeenLine \in Int
           /\ SpriteList(Seen) /\ dot \in Nat \ {0}
           /\ ListIs(MovedList, Seen, Counts + 1)
           /\ dot <= Width =>
                 ShiftersAt(shifters', Seen, SeenLine, ctrlSeen, dot)
<1>1. /\ oamSeen \in Images /\ ctrlSeen \in BOOLEAN \X (0 .. 1) /\ SeenLine \in 0 .. Picture - 1
      /\ ListIs(sprite_scanline, Seen, Counts)
      /\ dot <= Width => ShiftersAt(shifters, Seen, SeenLine, ctrlSeen, dot - 1)
  BY DEF SeenFollows
<1>2. SpriteList(Seen)
  BY <1>1, SeenIsList
<1>3. /\ dot \in Nat \ {0} /\ Counts \in Nat /\ SeenLine \in Int
      /\ dot <= Width => Counts = dot
  BY <1>1, Sizes DEF SpritesTypeOK, Counts
<1>4. ListIs(MovedList, Seen, Counts + 1)
  BY <1>1, <1>2, <1>3, ListMoves
<1>5. ASSUME dot <= Width
      PROVE  ShiftersAt(shifters', Seen, SeenLine, ctrlSeen, dot)
  <2>1. ListIs(sprite_scanline, Seen, dot)
    BY <1>1, <1>3, <1>5
  <2>2. ShiftersAt(MovedShifters(shifters), Seen, SeenLine, ctrlSeen, dot)
    BY <1>1, <1>2, <1>3, <1>5, <2>1, ShiftersMove
  <2>3. shifters' = MovedShifters(shifters)
    BY DEF DrawDot
  <2> QED
    BY <2>2, <2>3
<1> QED
  BY <1>1, <1>2, <1>3, <1>4, <1>5

LEMMA DrawDotKeepsSeen ==
    ASSUME SpritesTypeOK, SeenFollows, DrawDot
    PROVE  SeenFollows'
<1>1. CASE dot = Width
  BY <1>1, EvaluateSeen
<1>2. CASE dot # Width
  <2> SUFFICES ASSUME seen' # <<>>, render_sprites' PROVE SeenFollows'
    BY DEF SeenFollows
  <2>1. /\ dot' = dot + 1 /\ line' = line /\ ctrl' = ctrl /\ seen' = seen
        /\ sprite_scanline' = MovedList /\ render_sprites' = render_sprites
        /\ sprite_zero_hit_possible' = sprite_zero_hit_possible
    BY <1>2 DEF DrawDot, mask
  <2>2. dot \in 1 .. Width + 1 /\ Width \in Nat
    BY Sizes DEF SpritesTypeOK, DrawDot
  <2>3. /\ SeenLine' = SeenLine /\ Counts' = Counts + 1
        /\ dot' > Width => dot > Width
        /\ dot' <= Width => dot <= Width /\ dot' - 1 = dot
    BY <1>2, <2>1, <2>2 DEF SeenLine, Counts
  <2>4. /\ oamSeen' = oamSeen /\ ctrlSeen' = ctrlSeen /\ Seen' = Seen
        /\ InRange(oamSeen[1], SeenLine, ctrlSeen)' = InRange(oamSeen[1], SeenLine, ctrlSeen)
    BY <2>1, <2>3, SeenStays
  <2>5. seen # <<>> /\ render_sprites
    BY <2>1
  <2>6. /\ ListIs(MovedList, Seen, Counts + 1)
        /\ dot <= Width => ShiftersAt(shifters', Seen, SeenLine, ctrlSeen, dot)
    BY <2>5, DrawDotSeen
  <2>7. ListIs(sprite_scanline', Seen', Counts')
    BY <2>1, <2>3, <2>4, <2>6
  <2>8. dot' <= Width => ShiftersAt(shifters', Seen', SeenLine', ctrlSeen', dot' - 1)
    BY <2>3, <2>4, <2>6
  <2>9. /\ oamSeen \in Images /\ ctrlSeen \in BOOLEAN \X (0 .. 1)
        /\ SeenLine \in 0 .. Picture - 1
        /\ dot > Width => ctrl = ctrlSeen
        /\ sprite_zero_hit_possible = InRange(oamSeen[1], SeenLine, ctrlSeen)
    BY <2>5 DEF SeenFollows
  <2> QED
    BY <2>1, <2>3, <2>4, <2>7, <2>8, <2>9 DEF SeenFollows
<1> QED
  BY <1>1, <1>2

\* The fetch puts the rows of the sprites found into the shifters.
LEMMA EndLineKeepsSeen ==
    ASSUME SpritesTypeOK, SeenFollows, EndLine
    PROVE  SeenFollows'
<1> SUFFICES ASSUME seen' # <<>>, render_sprites' PROVE SeenFollows'
  BY DEF SeenFollows
<1>1. /\ dot = Width + 2 /\ dot' = 1 /\ line' = (IF line = PreRender THEN 0 ELSE line + 1)
      /\ line \in Nat /\ Width \in Nat \ {0} /\ Picture \in Nat /\ PreRender \in Nat
      /\ Picture < PreRender
      /\ UNCHANGED <<sprite_scanline, sprite_zero_hit_possible, ctrl, seen, render_sprites>>
  BY Sizes DEF SpritesTypeOK, EndLine, mask, history
<1>2. /\ oamSeen \in Images /\ ctrlSeen \in BOOLEAN \X (0 .. 1)
      /\ SeenLine \in 0 .. Picture - 1 /\ (dot > Width => ctrl = ctrlSeen)
      /\ sprite_zero_hit_possible = InRange(oamSeen[1], SeenLine, ctrlSeen)
      /\ ListIs(sprite_scanline, Seen, Counts)
  BY <1>1 DEF SeenFollows
<1>3. /\ SeenLine = line /\ ctrl = ctrlSeen /\ Counts = 1 /\ line' = line + 1
      /\ SeenLine' = line /\ Counts' = 1 /\ dot' - 1 = 0 /\ ~(dot' > Width)
      /\ line # PreRender
  BY <1>1, <1>2 DEF SeenLine, Counts
<1>4. /\ oamSeen' = oamSeen /\ ctrlSeen' = ctrlSeen /\ Seen' = Seen
      /\ InRange(oamSeen[1], SeenLine, ctrlSeen)' = InRange(oamSeen[1], SeenLine, ctrlSeen)
  BY <1>1, <1>3, SeenStays
<1>5. SpriteList(Seen) /\ \A i \in DOMAIN Seen : InRange(Seen[i], line, ctrl)
  BY <1>2, <1>3, SeenIsList
<1>6. Fetch
  BY <1>3 DEF EndLine
<1>7. ShiftersAt(shifters', Seen, line, ctrl, 0)
  <2> SUFFICES ASSUME NEW i \in DOMAIN Seen, NEW x \in 1 .. Tile
               PROVE  shifters'[i][x]
                        = SpritePixel(Seen[i], line, Later(0, StartDot(Seen[i])) + x - 1, ctrl)
    BY DEF ShiftersAt
  <2> DEFINE s == Seen[i]
             m == sprite_scanline[i]
  <2>1. s \in Sprite /\ InRange(s, line, ctrl) /\ i \in 1 .. MaxSprites
    BY <1>5 DEF SpriteList
  <2>2. i \in DOMAIN sprite_scanline /\ m = CountedDown(s, 1)
    BY <1>2, <1>3 DEF ListIs
  <2>3. shifters'[i] = Pattern(m)
    BY <1>6, <2>1, <2>2 DEF Fetch
  <2> HIDE DEF s, m
  <2>4. m.y = s.y /\ m.id = s.id /\ m.flip_x = s.flip_x /\ m.flip_y = s.flip_y
    BY <2>1, <2>2, CountsAdd
  <2>5. Pattern(m) = Pattern(s)
    BY <2>4 DEF Pattern, TallAddress, ShortAddress
  <2>6. Pattern(s)[x] = SpritePixel(s, line, StartDot(s) + x - 1, ctrl)
    BY <1>1, <1>2, <1>3, <2>1, PatternIsRow
  <2>7. Later(0, StartDot(s)) = StartDot(s)
    BY <2>1 DEF Later, StartDot, Sprite
  <2> QED
    BY <2>3, <2>5, <2>6, <2>7 DEF s
<1>8. ShiftersAt(shifters', Seen', SeenLine', ctrlSeen', dot' - 1)
  BY <1>3, <1>4, <1>7
<1>9. ListIs(sprite_scanline', Seen', Counts')
  BY <1>1, <1>2, <1>3, <1>4
<1>10. SeenLine' \in 0 .. Picture - 1
  BY <1>2, <1>3
<1>11. sprite_zero_hit_possible' = InRange(oamSeen[1], SeenLine, ctrlSeen)'
  BY <1>1, <1>2, <1>4
<1> QED
  BY <1>2, <1>3, <1>4, <1>8, <1>9, <1>10, <1>11 DEF SeenFollows

\* On the lines that draw nothing no history is kept.
LEMMA IdleKeepsSeen ==
    ASSUME SpritesTypeOK, SeenFollows, PreRenderDot \/ IdleLine
    PROVE  SeenFollows'
<1>1. CASE IdleLine
  <2>1. seen' = <<>>
    BY <1>1, Sizes DEF IdleLine, Evaluate, SpritesTypeOK
  <2> QED
    BY <2>1 DEF SeenFollows
<1>2. CASE PreRenderDot
  <2>1. seen' = seen /\ render_sprites' = render_sprites
    BY <1>2 DEF PreRenderDot, history, mask
  <2>2. ~(SeenLine \in 0 .. Picture - 1)
    BY <1>2, Sizes DEF PreRenderDot, SeenLine
  <2>3. ~(seen # <<>> /\ render_sprites)
    BY <2>2 DEF SeenFollows
  <2> QED
    BY <2>1, <2>3 DEF SeenFollows
<1> QED
  BY <1>1, <1>2

\* What the ROM does between dots.
LEMMA RomKeepsSeen ==
    ASSUME SpritesTypeOK, SeenFollows, SendPage \/ SetMask \/ SetCtrl \/ UNCHANGED spriteVars
    PROVE  SeenFollows'
<1> SUFFICES ASSUME seen' # <<>>, render_sprites' PROVE SeenFollows'
  BY DEF SeenFollows
<1>1. /\ UNCHANGED <<line, dot, sprite_scanline, sprite_zero_hit_possible, shifters>>
      /\ seen' = seen /\ render_sprites' = render_sprites
      /\ dot > Width => ctrl' = ctrl
  BY DEF SendPage, SetMask, SetCtrl, Unless, spriteVars, beam, unit, mask, history
<1>2. SeenLine' = SeenLine /\ Counts' = Counts
  BY <1>1 DEF SeenLine, Counts
<1>3. /\ oamSeen' = oamSeen /\ ctrlSeen' = ctrlSeen /\ Seen' = Seen
      /\ InRange(oamSeen[1], SeenLine, ctrlSeen)' = InRange(oamSeen[1], SeenLine, ctrlSeen)
  BY <1>1, <1>2, SeenStays
<1>4. /\ oamSeen \in Images /\ ctrlSeen \in BOOLEAN \X (0 .. 1)
      /\ SeenLine \in 0 .. Picture - 1
      /\ dot > Width => ctrl = ctrlSeen
      /\ sprite_zero_hit_possible = InRange(oamSeen[1], SeenLine, ctrlSeen)
      /\ ListIs(sprite_scanline, Seen, Counts)
      /\ dot <= Width => ShiftersAt(shifters, Seen, SeenLine, ctrlSeen, dot - 1)
  BY <1>1 DEF SeenFollows
<1> QED
  BY <1>1, <1>2, <1>3, <1>4 DEF SeenFollows

LEMMA SeenFollowsStep ==
    SpritesTypeOK /\ SeenFollows /\ [SpritesNext]_spriteVars => SeenFollows'
BY DrawDotKeepsSeen, EndLineKeepsSeen, IdleKeepsSeen, RomKeepsSeen DEF SpritesNext
\* The slots opaque at a dot of the picture are those of the sprites OAM shows
\* there, and the first slot holds what the first of these sprites shows.
LEMMA OpaqueShows ==
    ASSUME SpritesTypeOK, SeenFollows, DrawDot, seen # <<>>, dot <= Width, render_sprites
    PROVE  LET O == Opaque(MovedList, shifters')
               P == Showing(line - 1, dot)
               w == oamSeen[FirstOf(P)]
           IN  /\ oamSeen \in Images
               /\ sprite_zero_hit_possible = InRange(oamSeen[1], line - 1, ctrlSeen)
               /\ O = {i \in DOMAIN Found(oamSeen, line - 1, ctrlSeen) :
                          SpritePixel(Found(oamSeen, line - 1, ctrlSeen)[i],
                                      line - 1, dot, ctrlSeen) # 0}
               /\ O = {} <=> P = {}
               /\ O # {} => /\ MovedList[FirstOf(O)].id = w.id
                            /\ MovedList[FirstOf(O)].behind = w.behind
                            /\ shifters'[FirstOf(O)][1] = SpritePixel(w, line - 1, dot, ctrlSeen)
<1> DEFINE l == line - 1
           F == Found(oamSeen, l, ctrlSeen)
           O == Opaque(MovedList, shifters')
           P == Showing(l, dot)
<1>1. dot \in Nat /\ Width \in Nat /\ ~(dot > Width)
  BY Sizes DEF SpritesTypeOK
<1>2. SeenLine = l /\ Counts = dot /\ Seen = F
  BY <1>1 DEF SeenLine, Counts, Seen
<1>3. /\ oamSeen \in Images /\ l \in Int /\ SpriteList(F)
      /\ ListIs(MovedList, F, dot + 1)
      /\ ShiftersAt(shifters', F, l, ctrlSeen, dot)
  BY <1>2, DrawDotSeen
<1>4. sprite_zero_hit_possible = InRange(oamSeen[1], l, ctrlSeen)
  BY <1>2 DEF SeenFollows
<1> HIDE DEF l, F
<1>5. /\ O = {i \in DOMAIN F : SpritePixel(F[i], l, dot, ctrlSeen) # 0}
      /\ \A i \in O :
            /\ shifters'[i][1] = SpritePixel(F[i], l, dot, ctrlSeen)
            /\ MovedList[i].id = F[i].id /\ MovedList[i].behind = F[i].behind
  BY <1>1, <1>3, SlotsShown
<1>6. /\ O = {} <=> P = {}
      /\ O # {} => FirstOf(O) \in O /\ F[FirstOf(O)] = oamSeen[FirstOf(P)]
  <2> DEFINE T == {i \in DOMAIN F : SpritePixel(F[i], l, dot, ctrlSeen) # 0}
  <2>1. /\ T = {} <=> P = {}
        /\ T # {} => FirstOf(T) \in T /\ F[FirstOf(T)] = oamSeen[FirstOf(P)]
    BY <1>3, FirstSlotFirstPlace, Zenon DEF F
  <2>2. O = T
    BY <1>5
  <2> HIDE DEF O, T, P
  <2> QED
    BY <2>1, <2>2
<1> HIDE DEF O, P
<1>7. O # {} => /\ MovedList[FirstOf(O)].id = oamSeen[FirstOf(P)].id
                /\ MovedList[FirstOf(O)].behind = oamSeen[FirstOf(P)].behind
                /\ shifters'[FirstOf(O)][1] = SpritePixel(oamSeen[FirstOf(P)], l, dot, ctrlSeen)
  BY <1>5, <1>6
<1> QED
  BY <1>3, <1>4, <1>5, <1>6, <1>7 DEF l, F, O, P

\* The pixel of a dot is the one OAM asks for.
LEMMA DotFromOam ==
    ASSUME SpritesTypeOK, SeenFollows, DrawDot, seen # <<>>, dot <= Width
    PROVE  LET S == IF render_sprites THEN Showing(line - 1, dot) ELSE {}
               w == oamSeen[FirstOf(S)]
               bg == shown'[1]
           IN  shown'[2] = IF S = {} THEN NoSprite(bg)
                           ELSE IF bg = 1 /\ w.behind THEN NoSprite(bg)
                           ELSE <<"sprite", w.id, SpritePixel(w, line - 1, dot, ctrlSeen)>>
<1> DEFINE O == Opaque(MovedList, shifters')
<1>1. shown'[2] = Outcome(shown'[1], MovedList, shifters')
  BY DEF DrawDot
<1>2. CASE render_sprites
  <2> DEFINE P == Showing(line - 1, dot)
             w == oamSeen[FirstOf(P)]
  <2>1. /\ O = {} <=> P = {}
        /\ O # {} => /\ MovedList[FirstOf(O)].id = w.id
                     /\ MovedList[FirstOf(O)].behind = w.behind
                     /\ shifters'[FirstOf(O)][1] = SpritePixel(w, line - 1, dot, ctrlSeen)
    BY <1>2, OpaqueShows
  <2>2. shown'[2] = IF O = {} THEN NoSprite(shown'[1])
                    ELSE IF shown'[1] = 1 /\ MovedList[FirstOf(O)].behind
                         THEN NoSprite(shown'[1])
                    ELSE <<"sprite", MovedList[FirstOf(O)].id, shifters'[FirstOf(O)][1]>>
    BY <1>1 DEF Outcome
  <2> HIDE DEF O, P, w
  <2>3. shown'[2] = IF P = {} THEN NoSprite(shown'[1])
                    ELSE IF shown'[1] = 1 /\ w.behind THEN NoSprite(shown'[1])
                    ELSE <<"sprite", w.id, SpritePixel(w, line - 1, dot, ctrlSeen)>>
    BY <2>1, <2>2
  <2> QED
    BY <1>2, <2>3 DEF P, w
<1>3. CASE ~render_sprites
  <2>1. O = {}
    BY <1>3 DEF Opaque
  <2>2. shown'[2] = NoSprite(shown'[1])
    BY <1>1, <2>1 DEF Outcome
  <2> QED
    BY <1>3, <2>2
<1> QED
  BY <1>2, <1>3

\* Sprite zero keeps the first slot: with the flag of the evaluation, slot 1 is
\* opaque exactly where OAM's first sprite shows.
LEMMA SlotOneIsSpriteZero ==
    ASSUME SpritesTypeOK, SeenFollows, DrawDot, seen # <<>>, dot <= Width, render_sprites
    PROVE  sprite_zero_hit_possible /\ 1 \in Opaque(MovedList, shifters')
              <=> 1 \in Showing(line - 1, dot)
<1> DEFINE l == line - 1
           page == oamSeen
           c == ctrlSeen
           S == PlacesInRange(page, l, c)
           n == Room(page, l, c)
           F == Found(page, l, c)
<1>1. /\ page \in Images
      /\ sprite_zero_hit_possible = InRange(page[1], l, c)
      /\ Opaque(MovedList, shifters') = {i \in DOMAIN F : SpritePixel(F[i], l, dot, c) # 0}
  BY OpaqueShows
<1>2. 1 \in DOMAIN page
  <2>1. DOMAIN page = 1 .. Len(page) /\ Len(page) \in Nat \ {0}
    BY <1>1, SpriteAssumption
  <2> HIDE DEF page
  <2> QED
    BY <2>1
<1>3. {j \in 1 .. 1 - 1 : InRange(page[j], l, c)} = {} /\ 0 < MaxSprites
  BY Sizes
<1>4. 1 \in Showing(l, dot) <=> SpritePixel(page[1], l, dot, c) # 0
  BY <1>2, <1>3, FS_EmptySet DEF Showing
<1>5. SpritePixel(page[1], l, dot, c) # 0 => InRange(page[1], l, c)
  BY DEF SpritePixel
<1>6. ASSUME InRange(page[1], l, c) PROVE 1 \in DOMAIN F /\ F[1] = page[1]
  <2>1. 1 \in S
    BY <1>2, <1>6 DEF PlacesInRange
  <2>2. Rank(S, 1) = 0
    <3>1. {j \in S : j < 1} = {}
      <4>1. DOMAIN page = 1 .. Len(page)
        BY <1>1, SpriteAssumption
      <4>2. \A j \in S : j \in 1 .. Len(page)
        BY <4>1 DEF PlacesInRange
      <4> QED
        BY <4>2
    <3> HIDE DEF S
    <3> QED
      BY <3>1, FS_EmptySet DEF Rank
  <2>3. Rank(S, 1) + 1 \in 1 .. n /\ Nth(S, Rank(S, 1) + 1) = 1
    BY <1>1, <1>3, <2>1, <2>2, SlotsInOrder
  <2>4. DOMAIN F = 1 .. n /\ \A i \in 1 .. n : F[i] = page[Nth(S, i)]
    BY <1>1, FoundInOrder
  <2>5. 1 \in 1 .. n /\ Nth(S, 1) = 1
    BY <2>2, <2>3
  <2> HIDE DEF F, S, n
  <2> QED
    BY <2>4, <2>5
<1> HIDE DEF l, page, c, F
<1>7. CASE InRange(page[1], l, c)
  BY <1>1, <1>4, <1>6, <1>7 DEF l
<1>8. CASE ~InRange(page[1], l, c)
  BY <1>1, <1>4, <1>5, <1>8 DEF l
<1> QED
  BY <1>7, <1>8

\* The hit of a dot is the one OAM asks for.
LEMMA DotHitFromOam ==
    ASSUME SpritesTypeOK, SeenFollows, DrawDot, seen # <<>>, dot <= Width
    PROVE  sprite_zero_hit' <=>
              \/ sprite_zero_hit
              \/ /\ render_sprites /\ shown'[1] = 1
                 /\ 1 \in Showing(line - 1, dot)
                 /\ left_on => LeftEdge <= dot
<1>1. PICK bg : /\ shown' = <<bg, Outcome(bg, MovedList, shifters')>>
                /\ sprite_zero_hit' = (sprite_zero_hit \/ Hits(bg, MovedList, shifters'))
  BY DEF DrawDot
<1>2. shown'[1] = bg
  BY <1>1
<1>3. 1 \in Opaque(MovedList, shifters') => render_sprites
  BY DEF Opaque
<1>4. render_sprites =>
         (sprite_zero_hit_possible /\ 1 \in Opaque(MovedList, shifters')
             <=> 1 \in Showing(line - 1, dot))
  BY SlotOneIsSpriteZero
<1>5. Hits(bg, MovedList, shifters') <=>
         /\ shown'[1] = 1 /\ sprite_zero_hit_possible
         /\ 1 \in Opaque(MovedList, shifters')
         /\ left_on => LeftEdge <= dot
  BY <1>2 DEF Hits
<1>6. sprite_zero_hit' <=> sprite_zero_hit \/ Hits(bg, MovedList, shifters')
  BY <1>1, Zenon
<1> QED
  BY <1>3, <1>4, <1>5, <1>6, Zenon

\* On every line but the first, each pixel of the picture is that of the first
\* sprite of OAM with an opaque pixel there, among the first MaxSprites in
\* range, or the background or backdrop in front of it: whatever page the ROM
\* sends at whatever dot, and whatever it changes in $2000 and $2001.
THEOREM SpritePixels == SpritesSpec => PixelFromOam
<1>1. SpritesInit => SeenFollows
  BY DEF SpritesInit, SeenFollows
<1>2. /\ SpritesTypeOK /\ SeenFollows /\ [SpritesNext]_spriteVars
      => [DrawDot /\ seen # <<>> /\ dot <= Width =>
            LET S == IF render_sprites THEN Showing(line - 1, dot) ELSE {}
                w == oamSeen[FirstOf(S)]
                bg == shown'[1]
            IN  shown'[2] = IF S = {} THEN NoSprite(bg)
                            ELSE IF bg = 1 /\ w.behind THEN NoSprite(bg)
                            ELSE <<"sprite", w.id, SpritePixel(w, line - 1, dot, ctrlSeen)>>
         ]_spriteVars
  BY DotFromOam
<1> QED
  BY <1>1, <1>2, SeenFollowsStep, SpritesTypes, PTL DEF SpritesSpec, PixelFromOam

\* The sprite-zero hit is raised at the first dot where an opaque pixel of
\* OAM's first sprite meets an opaque background, and at no other, for every
\* page and every timing of the writes of the ROM.
THEOREM SpriteHits == SpritesSpec => HitFromOam
<1>1. SpritesInit => SeenFollows
  BY DEF SpritesInit, SeenFollows
<1>2. /\ SpritesTypeOK /\ SeenFollows /\ [SpritesNext]_spriteVars
      => [DrawDot /\ seen # <<>> /\ dot <= Width =>
            (sprite_zero_hit' <=>
               \/ sprite_zero_hit
               \/ /\ render_sprites /\ shown'[1] = 1
                  /\ 1 \in Showing(line - 1, dot)
                  /\ left_on => LeftEdge <= dot)
         ]_spriteVars
  BY DotHitFromOam
<1> QED
  BY <1>1, <1>2, SeenFollowsStep, SpritesTypes, PTL DEF SpritesSpec, HitFromOam
=============================================================================
