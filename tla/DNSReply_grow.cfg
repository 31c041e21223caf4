CONSTANTS
    Replies <- GrowReplies
    QTypes <- MCQTypeCNAME
SPECIFICATION Spec
INVARIANT ResInBounds
CHECK_DEADLOCK FALSE
