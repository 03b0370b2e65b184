SPECIFICATION FairSpec
CONSTANTS
    RMin = 1
    RMax = 3
    DR = 2
    ZMin = 2
    ZMax = 5
    DZ = 2
    LoopHz = 2
    SlotSeconds = 2
    MaxLatency = 7
INVARIANTS GridCovered StatsBelongToPoint
PROPERTY RunCompletes
CHECK_DEADLOCK FALSE
