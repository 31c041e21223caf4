CONSTANTS
    h1 = h1
    h2 = h2
    h3 = h3
    NULL = NULL
    Handlers <- MCHandlers
    Masks <- MCMasks
    MaxFd = 1
SPECIFICATION Spec
PROPERTY NoCallbackToRemoved
