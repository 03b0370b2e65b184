SPECIFICATION FairSpec
CONSTANTS
    Hosts = {"A", "B"}
    Bridged = TRUE
    First <- MCFirst
    Local <- MCLocal
    NumberOfModems = 3
    MaxModems = 3
    Talkers = {0, 2}
    MaxBuffers = 2
    MaxSizes = 1
INVARIANTS EverySizeSeen LocalStreamsWhole RemoteStreamsInOrder
PROPERTY StartupCompletes
CHECK_DEADLOCK FALSE
