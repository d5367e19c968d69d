CONSTANTS
    c0 = c0  c1 = c1  e1 = e1  e2 = e2  w1 = w1  m1 = m1  k1 = k1  k2 = k2
    Containers <- MCContainers
    C0 = c0
    Ifaces <- MCIfaces
    MappedMacs <- MCMappedWired
    KernelNames <- MCKernelNames
    Devtype <- MCDevtype
    InitName <- MCInitName
    InitPhys <- MCInitPhys
    HostedMode = FALSE
    KernelFaults = FALSE
    Shutdown = FALSE
    MaxMappings = 3
    MaxEvents = 2
    MaxPlugs = 1
    MaxRegs = 3
    MaxStarts = 1
    MaxRestarts = 1
SPECIFICATION Spec
INVARIANT TypeOK
INVARIANT PhysListKnowsHostIfaces
PROPERTY FirstRegistrationWins
CHECK_DEADLOCK FALSE
