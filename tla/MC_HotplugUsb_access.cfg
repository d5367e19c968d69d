CONSTANTS
    c1 = c1
    c2 = c2
    u1 = u1
    u2 = u2
    n1 = n1
    n2 = n2
    NoDev = NoDev
    Containers <- MCContainers
    Idents <- MCIdents
    VidPid <- MCVidPid
    Serial <- MCSerial
    DevNums <- MCDevNums
    MaxMappings = 2
    MaxEvents = 2
    MaxPlugs = 2
    MaxRegs = 2
    TokenRetries = 2
SPECIFICATION Spec
INVARIANT UsbAccessFollowsMappings
CHECK_DEADLOCK FALSE
