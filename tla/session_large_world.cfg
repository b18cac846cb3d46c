SPECIFICATION FairSpec
CONSTANTS
    c1 = c1
    c2 = c2
    Clients <- OneClient
    WorldSize = 3
    MaxCommandsPerPacket = 2
    GarbageValues <- NoGarbage
    NetworkRepeats = FALSE
    SocketFailures <- NoFailures
    MaxSends = 1
    MaxDispatched = 3
    MaxObjects = 4
    SeqMod = 16
    MaxAckRun = 4
    kAckTimeoutMs = 1
    ClockMod = 16
PROPERTIES
    EveryClientGetsTheWorld
\* Processes may end, a client stops sending, and the network may be empty.
CHECK_DEADLOCK FALSE
