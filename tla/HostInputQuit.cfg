SPECIFICATION InputSpec
CONSTANTS
    Keys = {"A"}
    MaxEvents = 2
    MaxReads = 1
    FrameRate = 2
    Accesses = {"strobe", "read"}
PROPERTIES
    QuitHonoured
CHECK_DEADLOCK FALSE
