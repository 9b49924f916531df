SPECIFICATION ScrollSpec
CONSTANTS
    Columns = 32
    Rows = 30
    CoarseRows = 32
    FineRows = 8
    LowRows = 8
    Copies = 25
    XScrolls = {31}
    YScrolls = {0}
    Targets = {}
    Registers = {"PPUMASK", "PPUSCROLL"}
INVARIANTS
    ColumnsContinue
