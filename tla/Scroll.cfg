SPECIFICATION ScrollSpec
CONSTANTS
    Columns = 4
    Rows = 3
    CoarseRows = 4
    FineRows = 2
    LowRows = 2
    Copies = 2
    XScrolls = {3}
    YScrolls = {0, 5, 7}
    Targets = {37}
    Registers = {"PPUCTRL", "PPUMASK", "PPUSTATUS", "PPUSCROLL", "PPUADDR", "PPUDATA"}
INVARIANTS
    ScrollTypeOK
    RowShown
    ColumnShown
