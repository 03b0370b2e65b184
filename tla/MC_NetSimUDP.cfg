CONSTANTS
    Modems = {1, 2}
    Broadcast = 0
    Stranger = 99
    Method = "MPP"
    SendAll = FALSE
    Stamps = {0, 1}
    RayTraces <- Rays
    Outliers = {0}
    Garbage <- Uninitialised
    MaxMsgs = 2
    MaxSendTime = 1
    MaxTime = 3
    MaxOthers = 1
SPECIFICATION FairSpec
INVARIANTS
    ExactlyOnce
    NeverOrphaned
    NeverEarly
    OrderKept
PROPERTIES
    EveryDatagramLeaves
CHECK_DEADLOCK FALSE
