SPECIFICATION CpuSpec
CONSTANTS
    Half = 128
    Programs <- MCPrograms
    IsNes = TRUE
    PrgRomSize = 1
    ChrRomSize = 0
    Flags6 = 5
    Flags7 = 0
    instruction_lookup <- MCLookup
    Inputs = {0, 255}
    MaxNmis = 2
INVARIANTS
    CpuTypeOK
    FramesOnStack
    ReturnsToCaller
    CostsAgree
    ProgramsCompute
PROPERTIES
    StackDiscipline
CHECK_DEADLOCK FALSE
