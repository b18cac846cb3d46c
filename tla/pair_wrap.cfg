SPECIFICATION FairSpec
CONSTANTS
    A = A
    B = B
    SeqMod = 3
    MaxAckRun = 2
    kAckTimeoutMs = 1
    ClockMod = 16
    MaxDispatched = 3
    MaxAccepted = 3
    BootTime = 1
    MaxTime = 3
    GarbageValues <- Initialized
    Sweepers <- OnlyA
INVARIANTS
    EveryPacketHasOneFate
    AckRangesDoNotWrap
PROPERTIES
    EveryPacketIsReported
