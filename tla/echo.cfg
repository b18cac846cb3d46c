SPECIFICATION FairSpec
CONSTANTS
    c1 = c1
    c2 = c2
    c3 = c3
    listenSocket = listenSocket
    Clients <- ThreeClients
    BufferSize = 2
    ToServer = 3
    ToClient = 1
    MaxDescriptors = 3
    MaxBacklog = 2
    SelectMayFail = TRUE
    LeavesEarly <- First
    NeverReads <- None
    MaxSent <- TwoThreeOne
INVARIANTS
    TypeOK
    EchoesAreFaithful
    NoReadyCallWaits
    EchoInvariant
PROPERTIES
    EveryMessageIsEchoed
\* All clients may have left, or the server may have ended.
CHECK_DEADLOCK FALSE
