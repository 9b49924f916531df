SPECIFICATION PortSpec
CONSTANTS
    CtrlBytes = {6}
    ScrollBytes = {125}
    HighBytes = {35, 39, 127}
    LowBytes = {16}
    DataBytes = {1, 2}
    IsNes = TRUE
    PrgRomSize = 1
    ChrRomSize = 0
    Flags6 = 1
    Flags7 = 0
    ChrByte = 3
    MaxAccesses = 3
INVARIANTS
    PortTypeOK
    PaletteMirrored
    VramCoherent
