CONSTANTS
    ClientEventBufferSize = 3
    GameBufferSize = 2
    RequestBufferSize = 2
    PingSamples = 2
SPECIFICATION FairSpec
INVARIANT OnlyKnownPanics
PROPERTIES SessionEnds
CHECK_DEADLOCK FALSE
