SPECIFICATION PortSpec
CONSTANTS
    CtrlBytes = {}
    ScrollBytes = {}
    HighBytes = {32, 35}
    LowBytes = {0, 255}
    DataBytes = {1, 2}
    IsNes = TRUE
    PrgRomSize = 1
    ChrRomSize = 0
    Flags6 = 1
    Flags7 = 0
    ChrByte = 3
    MaxAccesses = 3
INVARIANTS
    VramCoherent
