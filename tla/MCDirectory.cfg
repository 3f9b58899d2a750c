SPECIFICATION Spec
CONSTANTS
    k1 = k1
    k2 = k2
    Key <- MCKey
    GpuSlot = {1}
    CpuSlot = {11, 12}
    NvmeSlot = {21}
    NoSlot = NoSlot
    NoReplica = NoReplica
    NoTransfer = NoTransfer
    Junk = Junk
    NoFile = NoFile
    Still = Still
    MaxGeneration = 2
    MaxHolds = 1
    Fault = {"cuda", "sync", "io", "unlink", "lost"}
SYMMETRY MCSymmetry
CHECK_DEADLOCK FALSE
INVARIANTS
    FreeListExact
    SlotsAccountedOrLost
    TransfersOwnTheirSlots
    NothingHalfRegistered
    ReadyHoldsItsBytes
PROPERTIES
    StaleStaysStale
    ResidencyImplemented
