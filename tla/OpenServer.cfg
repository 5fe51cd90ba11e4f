CONSTANTS
    Addr = {a1, a2}
    DisconnectPacketCount = 2
    EventBufferSize = 1
    MaxGen = 2
    ClientKey = {1}
SPECIFICATION FairServerSpec
INVARIANTS TimersMatchVariant KeysApart
PROPERTIES ImplementsConnectionEvents SilentClientsAreForgotten CancelledTaskStops
CHECK_DEADLOCK FALSE
