CONSTANTS
    MaxBufferSize = 3
    MaxCaptured = 8
SPECIFICATION FairSpec
INVARIANTS
    PopsWhatWasPublished
PROPERTIES
    ImplementsLossyFifo
    EveryBufferLeaves
