SPECIFICATION IoSpec
CONSTANTS
    OamSize = 3
    Bytes = {0, 255}
    Keys = {"A", "RIGHT"}
    MaxEvents = 2
    MaxReads = 9
    FrameRate = 2
    Accesses = {"strobe", "dma", "read"}
INVARIANTS
    OamTypeOK
    InputTypeOK
    SerialReads
PROPERTIES
    DmaWraps
    OnlyPollsEatQuit
    QuitTaken
CHECK_DEADLOCK FALSE
