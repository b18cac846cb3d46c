SPECIFICATION Spec
CONSTANTS
    SeqMod = 5
    MaxAckRun = 5
    kAckTimeoutMs = 1
    ClockMod = 16
    MaxInFlight = 7
INVARIANTS
    LoopDoesWhatProcessAcksSays
    LoopInvariant
PROPERTY
    LoopTerminates
\* The loop stops when it is done.
CHECK_DEADLOCK FALSE
