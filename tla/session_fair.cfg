SPECIFICATION FairSpec
CONSTANTS
    c1 = c1
    c2 = c2
    Clients <- TwoClients
    WorldSize = 2
    MaxCommandsPerPacket = 2
    GarbageValues <- NoGarbage
    NetworkRepeats = FALSE
    SocketFailures <- NoFailures
    MaxSends = 2
    MaxDispatched = 3
    MaxObjects = 4
    SeqMod = 16
    MaxAckRun = 4
    kAckTimeoutMs = 1
    ClockMod = 16
INVARIANTS
    NoObjectIsMadeTwice
    CreatesTravelOnce
    OnlyTheNetworkLosesCreates
PROPERTIES
    EveryClientGetsTheWorld
\* Processes may end, a client stops sending, and the network may be empty.
CHECK_DEADLOCK FALSE
