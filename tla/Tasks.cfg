CONSTANTS
    Task = {c, t}
    ConnectionTask = c
    Guard = {g1, g2}
    EventBufferSize = 3
    RequestBufferSize = 6
    MaxEvents = 1
    MaxRequests = 2
    MaxConnections = 2
SPECIFICATION FairTasksSpec
INVARIANTS PipesTypeOK NoDeadlock TypeOK NoLostWakeup
PROPERTIES HandlersFinish EveryTaskStops
CHECK_DEADLOCK FALSE
