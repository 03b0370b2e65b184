CONSTANTS
    Modems = {0, 1, 2}
    Transmitters = {0, 1}
    MaxPackets = 1
    MaxBuffers = 3
    MaxQuiet = 1
    MaxLag <- Lag
    Headless = TRUE
SPECIFICATION LoggerSpec
INVARIANTS
    FilesFaithful
    NothingLeftOpen
    AllClosedAnnounced
CHECK_DEADLOCK FALSE
