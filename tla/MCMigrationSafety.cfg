SPECIFICATION Spec
CONSTANTS
    k1 = k1
    k2 = k2
    g1 = g1
    c1 = c1
    c2 = c2
    n1 = n1
    n2 = n2
    w1 = w1
    w2 = w2
    Key <- TwoKeys
    GpuSlot <- OneGpuSlot
    CpuSlot <- TwoCpuSlots
    NvmeSlot <- OneNvmeSlot
    NoReplica = NoReplica
    MaxGeneration = 2
    MaxHolds = 0
    Worker <- TwoWorkers
    Priority = {0}
    MaxTasks = 2
    Fault = {"dma", "io", "unlink"}
    OwnerCall = {"wait", "cancel"}
    NoTask = NoTask
    Junk = Junk
    NoFile = NoFile
SYMMETRY KeysWorkersAndSlots
CHECK_DEADLOCK FALSE
INVARIANTS
    TransfersProtected
    OneTaskPerChunk
    OperationsOwnTheirSlots
    SettledChunksReady
    CancelHonoured
    ReadyHoldsItsBytes
PROPERTY
    FinalStaysFinal
