CONSTANTS
    h1 = h1
    h2 = h2
    h3 = h3
    NULL = NULL
    Handlers <- MCHandlersTwo
    Masks <- MCMasks
    MaxFd = 2
SPECIFICATION Spec
PROPERTY ReadsDelivered
 
