CONSTANTS
    NFrames = 2
    Sizes = {0, 2, 3}
    MinPlayback = 2
    Calibration = 2
    MaxLead = 6
    MaxSamples = 7
    MaxBuffers = 4
SPECIFICATION FairPlaybackSpec
PROPERTIES
    StartsOnTime
    GaplessPlayback
    NeverReplayed
    CompletePacketPlays
