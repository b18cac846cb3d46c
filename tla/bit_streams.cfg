SPECIFICATION Spec
CONSTANTS
    ByteBits = 3
    InitialBytes = 2
    IntBytes = 2
    Ints <- TwoInts
    Strings <- ThreeStrings
    BufferBytes = 6
    MaxFields = 3
INVARIANTS
    StreamInvariant
    TypeOK
    OnlyWrittenBitsAreSent
    StreamHoldsWhatWasWritten
    ReadsReturnWhatWasWritten
    ThrowsExactlyWhenCut
\* The program ends when the message has been read.
CHECK_DEADLOCK FALSE
