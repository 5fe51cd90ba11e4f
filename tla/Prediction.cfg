CONSTANTS
    Item = {silver}
    Hand = {left}
    Empty = Empty
    MaxTick = 3
    MaxFrameTicks = 2
    MaxActions = 2
SPECIFICATION Spec
INVARIANTS TypeOK DropsAreSound PredictionIsReplay TicksAreCommittedOnce
CHECK_DEADLOCK FALSE
