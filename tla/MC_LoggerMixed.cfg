CONSTANTS
    Modems = {0, 1, 2}
    Transmitters = {0, 1}
    MaxPackets = 1
    MaxBuffers = 3
    MaxQuiet = 1
    MaxLag <- Lag
    Headless = FALSE
SPECIFICATION LoggerSpec
INVARIANTS
    ReceptionsApart
CHECK_DEADLOCK FALSE
