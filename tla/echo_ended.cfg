SPECIFICATION Spec
CONSTANTS
    c1 = c1
    c2 = c2
    c3 = c3
    listenSocket = listenSocket
    Clients <- TwoClients
    BufferSize = 2
    ToServer = 3
    ToClient = 1
    MaxDescriptors = 3
    MaxBacklog = 2
    SelectMayFail = FALSE
    LeavesEarly <- First
    NeverReads <- None
    MaxSent <- ThreeAndOne
INVARIANTS
    ServerOutlivesClients
CHECK_DEADLOCK FALSE
