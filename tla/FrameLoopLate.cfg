SPECIFICATION Spec
CONSTANTS
    DotsPerLine = 7
    VblankLine = 2
    PreRenderLine = 8
    FrameRate = 2
    NmiCycles = 2
    DmaCycles = 3
    MinInstr = 2
    MaxInstr = 3
    Registers = {"PPUCTRL", "PPUMASK", "PPUSTATUS", "OAMDMA"}
PROPERTIES
    NmiOnLateEnable
