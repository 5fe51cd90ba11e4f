CONSTANTS
    Addr = {a1}
    ClientEventBufferSize = 3
    MaxKey = 2
    ServerKey = {1, 2}
SPECIFICATION FairClientSpec
INVARIANT OneResponsePerProcess
PROPERTIES ImplementsClientEventStream SilentServerIsNoticed
CHECK_DEADLOCK FALSE
