CONSTANTS
    Names <- FQDNames
    Replies <- ErrorReplies
    QTypes <- MCQTypes
    PtrAddrs <- MCPtrAddrs
    QueryIds <- MCQueryIds
SPECIFICATION Spec
INVARIANT QueryAsksForName
CHECK_DEADLOCK FALSE
