SPECIFICATION Spec
CONSTANTS
    b1 = b1
    b2 = b2
    b3 = b3
    b4 = b4
    g1 = g1
    g2 = g2
    GpuSlot <- TwoSlots
    Buffer <- FourBlocks
    Block <- FourBlocks
    Content <- FourBlocks
    Junk = Junk
    MaxRefs = 2
    MaxWindow = 2
    NoSlot = NoSlot
SYMMETRY TieredSymmetry
INVARIANTS
    LeasedIsResident
    CandidatesExact
    SlotsExact
    ContentKept
    RoomForQueued
    TransfersTracked
    PrefetchCountedOnce
PROPERTY
    LeasedAddressStable
