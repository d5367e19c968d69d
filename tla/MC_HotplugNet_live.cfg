CONSTANTS
    c0 = c0  c1 = c1  e1 = e1  e2 = e2  w1 = w1  m1 = m1  k1 = k1  k2 = k2
    Containers <- MCContainers
    C0 = c0
    Ifaces <- MCIfaces
    MappedMacs <- MCIfaces
    KernelNames <- MCKernelNames
    Devtype <- MCDevtype
    InitName <- MCInitName
    InitPhys <- MCInitPhys
    HostedMode = FALSE
    KernelFaults = FALSE
    Shutdown = TRUE
    MaxMappings = 1
    MaxEvents = 1
    MaxPlugs = 2
    MaxRegs = 1
    MaxStarts = 1
    MaxRestarts = 0
SPECIFICATION Spec
PROPERTY EthTimerTerminates
PROPERTY NetIfaceReachesTarget
PROPERTY NameAllocation
CHECK_DEADLOCK FALSE
