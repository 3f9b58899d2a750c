SPECIFICATION WaitingSpec
CONSTANTS
    k1 = k1
    k2 = k2
    g1 = g1
    c1 = c1
    c2 = c2
    n1 = n1
    n2 = n2
    w1 = w1
    w2 = w2
    Key <- OneKey
    GpuSlot <- OneGpuSlot
    CpuSlot <- OneCpuSlot
    NvmeSlot <- OneNvmeSlot
    NoReplica = NoReplica
    MaxGeneration = 1
    MaxHolds = 0
    Worker <- OneWorker
    Priority = {0}
    MaxTasks = 1
    Fault = {}
    OwnerCall = {"wait"}
    NoTask = NoTask
    Junk = Junk
    NoFile = NoFile
CHECK_DEADLOCK FALSE
PROPERTY
    WaitReturns
