CONSTANTS
    Addr = {a1, a2}
    EventBufferSize = 2
    MaxPlayers = 2
    Item = {silver}
    Hand = {left}
    Vacant = Vacant
    Empty = Empty
    MaxTick = 2
    Lookahead = 1
    MaxActions = 1
SPECIFICATION Spec
INVARIANT PendingClientsAreNew
CHECK_DEADLOCK FALSE
