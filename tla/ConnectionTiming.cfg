CONSTANTS
    SendInterval = 1
    KeepaliveInterval = 2
    TimeoutInterval = 13
    DisconnectPacketCount = 2
    MaxDelay = 1
    MaxLoss = 1
SPECIFICATION Spec
INVARIANTS TypeOK NobodyGivesUp ConnectedInTime StoppedClientIsForgotten StoppedServerIsNoticed
CHECK_DEADLOCK FALSE
