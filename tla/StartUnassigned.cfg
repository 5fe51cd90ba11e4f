CONSTANTS
    ClientEventBufferSize = 2
    GameBufferSize = 2
    RequestBufferSize = 2
    PingSamples = 2
SPECIFICATION Spec
INVARIANT StartHasPlayerId
CHECK_DEADLOCK FALSE
