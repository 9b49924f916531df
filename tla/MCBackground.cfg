SPECIFICATION BgSpec
CONSTANTS
    Columns = 4
    Rows = 3
    CoarseRows = 4
    FineRows = 2
    LowRows = 2
    Copies = 1
    XScrolls = {3}
    YScrolls = {7}
    Targets <- MCTargets
    Registers = {"PPUCTRL", "PPUMASK", "PPUSTATUS", "PPUSCROLL", "PPUADDR", "PPUDATA"}
    Vram <- MCVram
    Chr <- MCChr
    TableSize = 1024
    FineScrolls = {0, 7}
    MaxWrites = 1
INVARIANTS
    BgTypeOK
PROPERTIES
    PixelShown
    PictureShown
