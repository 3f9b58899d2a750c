SPECIFICATION Spec
CONSTANTS
    k1 = k1
    k2 = k2
    g1 = g1
    c1 = c1
    c2 = c2
    n1 = n1
    n2 = n2
    w1 = w1
    w2 = w2
    Key <- TwoKeys
    GpuSlot <- OneGpuSlot
    CpuSlot <- TwoCpuSlots
    NvmeSlot <- OneNvmeSlot
    NoReplica = NoReplica
    MaxGeneration = 2
    MaxHolds = 0
    Worker <- OneWorker
    Priority = {0}
    MaxTasks = 2
    Fault = {"dma", "sync", "unlink"}
    OwnerCall = {"wait", "destroy"}
    NoTask = NoTask
    Junk = Junk
    NoFile = NoFile
SYMMETRY KeysWorkersAndSlots
CHECK_DEADLOCK FALSE
INVARIANTS
    NothingOutlivesManager
