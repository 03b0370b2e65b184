CONSTANTS
    Samples <- TwoSamples
    BufferSizes = {2, 4}
    PrebufferSamples = 8
    SilentSamples = 3
    Modes = {FALSE, TRUE}
    MaxHeard = 7
    MaxResizes = 2
SPECIFICATION Spec
INVARIANTS
    SentAtMostOnce
    WellBracketed
    EndsAtFirstSilence
    ContinuousIsGapless
PROPERTIES
    CleanStart
CHECK_DEADLOCK FALSE
