CONSTANTS
    c0 = c0  c1 = c1  e1 = e1  e2 = e2  w1 = w1  m1 = m1  k1 = k1  k2 = k2
    Containers <- MCContainers
    C0 = c0
    Ifaces <- MCIfaces4
    MappedMacs <- MCIfaces4
    KernelNames <- MCKernelNames
    Devtype <- MCDevtype4
    InitName <- MCInitName4
    InitPhys <- MCInitPhys
    HostedMode = TRUE
    KernelFaults = FALSE
    Shutdown = FALSE
    MaxMappings = 1
    MaxEvents = 2
    MaxPlugs = 2
    MaxRegs = 1
    MaxStarts = 2
    MaxRestarts = 1
SPECIFICATION Spec
INVARIANT MovedIfaceRenamed
CHECK_DEADLOCK FALSE
