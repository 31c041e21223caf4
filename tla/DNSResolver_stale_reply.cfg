\* One query type, two names: only a reply for an earlier query can carry the wrong name.
CONSTANTS
    MaxId = 1
    a1 = a1
    a2 = a2
    c1 = c1
    c2 = c2
    n1 = n1
    n2 = n2
    m1 = m1
    Addrs <- MCAddrs
    Consumers <- MCConsumers
    Names = {n1, n2}
    Modules = {m1}
    QTypes = {"A"}
    NULL = NULL
SPECIFICATION Spec
INVARIANT AnswerMatchesQuery
