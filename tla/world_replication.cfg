SPECIFICATION Spec
CONSTANTS
    GameObjects = {o1, o2}
    Values = {v1, v2}
    MaxMessages = 4
INVARIANTS
    TypeOK
    ContextsAreConsistent
    QuietReceiverShowsTheWorld
    NoDestroyedObjectIsReached
    NothingIsThrown
    ReplicationInvariant
SYMMETRY Symmetry
