CONSTANTS
    Addr = {a1}
    DisconnectPacketCount = 1
    EventBufferSize = 1
    MaxGen = 2
    ClientEventBufferSize = 2
    MaxKey = 2
SPECIFICATION Spec
INVARIANTS TypeOK NoSplitBrain ChallengeAnswered ServerHeardResponse KeepaliveConfirms
PROPERTIES EntriesAreStable
CHECK_DEADLOCK FALSE
