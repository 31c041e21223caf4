CONSTANTS
    Containers <- MCContainers
    ExtType <- MCExtType
    Items <- MCItems
    ItemType <- MCItemType
    Synced <- MCSynced
    Strings = {brb, lunch}
    Ptrs = {p1, p2, p3}
    NullPtr = NullPtr
    MaxInFlight = 2
    ReSetLive = FALSE
SYMMETRY PtrSymmetry
SPECIFICATION Spec
INVARIANTS DeleterOnce ReplicaAgrees
PROPERTY ImplementsStore
