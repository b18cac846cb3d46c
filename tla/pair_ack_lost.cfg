SPECIFICATION Spec
CONSTANTS
    A = A
    B = B
    SeqMod = 6
    MaxAckRun = 3
    kAckTimeoutMs = 1
    ClockMod = 16
    MaxDispatched = 3
    MaxAccepted = 3
    BootTime = 1
    MaxTime = 3
    GarbageValues <- Initialized
    Sweepers <- OnlyA
PROPERTIES
    AcksAreAllProcessed
