CONSTANTS
    c1 = c1
    c2 = c2
    u1 = u1
    u2 = u2
    n1 = n1
    n2 = n2
    NoDev = NoDev
    Containers <- MCOneContainer
    Idents <- MCIdents
    VidPid <- MCVidPid
    Serial <- MCSerial
    DevNums <- MCDevNums
    MaxMappings = 1
    MaxEvents = 2
    MaxPlugs = 3
    MaxRegs = 1
    TokenRetries = 2
SPECIFICATION Spec
PROPERTY TokenTimerTerminates
PROPERTY MappedAddAllowed
CHECK_DEADLOCK FALSE
