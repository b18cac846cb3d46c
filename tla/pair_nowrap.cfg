SPECIFICATION Spec
CONSTANTS
    A = A
    B = B
    SeqMod = 6
    MaxAckRun = 3
    kAckTimeoutMs = 1
    ClockMod = 16
    MaxDispatched = 3
    MaxAccepted = 3
    BootTime = 1
    MaxTime = 4
    GarbageValues <- AnyGarbage
    Sweepers <- OnlyA
INVARIANTS
    TypeOK
    DeliveredWasAccepted
    AcceptedInOrder
    DeliveryInvariant
    OnlyOldPacketsAreIgnored
    EveryAcceptedPacketIsAcked
    BookkeepingInvariant
PROPERTIES
    PromiseIsKept
    SweepIsExact
