CONSTANTS
    Addr = {a1, a2, a3}
    EventBufferSize = 1
    MaxPlayers = 2
    Item = {silver}
    Hand = {left, right}
    Vacant = Vacant
    Empty = Empty
    MaxTick = 2
    Lookahead = 1
    MaxActions = 2
SPECIFICATION Spec
SYMMETRY Symmetry
INVARIANTS OnlyKnownPanics SlotsMatchClients HeldItemsAreOwned AuthorityIsHeld
PROPERTIES FirstCommitWins OnlyOwnEventsVacate
CHECK_DEADLOCK FALSE
