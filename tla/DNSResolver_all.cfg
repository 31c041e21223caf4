\* Two ids, two addresses, two Resolvers, two names, two query types; no
\* symmetry reduction, so that liveness is checked too.
CONSTANTS
    MaxId = 1
    a1 = a1
    a2 = a2
    c1 = c1
    c2 = c2
    n1 = n1
    n2 = n2
    m1 = m1
    Addrs <- MCAddrs
    Consumers <- MCConsumers
    Names <- MCNames
    Modules = {m1}
    QTypes = {"A", "AAAA"}
    NULL = NULL

SPECIFICATION Spec
INVARIANT TypeOK
INVARIANT SlotsConsistent
INVARIANT RequestTableIsHeap
INVARIANT AtMostOneCallback
PROPERTY EveryLookupAnswered
