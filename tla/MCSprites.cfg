SPECIFICATION SpritesSpec
CONSTANTS
    Width = 5
    Tile = 2
    Table = 16
    MaxSprites = 2
    Picture = 4
    PreRender = 6
    LeftEdge = 3
    Chr <- MCChr
    Images <- MCImages
    Ctrls <- MCCtrls
INVARIANTS
    SpritesTypeOK
PROPERTIES
    PixelFromOam
    HitFromOam
