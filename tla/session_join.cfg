SPECIFICATION Spec
CONSTANTS
    c1 = c1
    c2 = c2
    Clients <- TwoClients
    WorldSize = 3
    MaxCommandsPerPacket = 2
    GarbageValues <- SomeGarbage
    NetworkRepeats = TRUE
    SocketFailures <- AnyFailure
    MaxSends = 2
    MaxDispatched = 3
    MaxObjects = 3
    SeqMod = 16
    MaxAckRun = 4
    kAckTimeoutMs = 1
    ClockMod = 16
INVARIANTS
    TypeOK
    PlayersAreDistinct
    CreatesAreWrittenOnce
    SessionInvariant
SYMMETRY Symmetry
\* Processes may end, a client stops sending, and the network may be empty.
CHECK_DEADLOCK FALSE
