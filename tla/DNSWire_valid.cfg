CONSTANTS
    Names <- ValidNames
    Replies <- ValidReplies
    QTypes <- MCQTypes
    PtrAddrs <- MCPtrAddrs
    QueryIds <- MCQueryIds
SPECIFICATION Spec
INVARIANT QueryAsksForName
INVARIANT PtrQueryAsksForName
INVARIANT DatagramCarriesId
CHECK_DEADLOCK FALSE
