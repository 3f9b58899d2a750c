SPECIFICATION Spec
CONSTANTS
    x = x
    y = y
    h1 = h1
    h2 = h2
    h3 = h3
    Block <- ThreeBlocks
    Holder <- ThreeHolders
    Prefix <- MCPrefix
    HashOf <- CollidingHash
    MaxGeneration = 3
    MaxRefs = 2
    NoPrefix = NoPrefix
    NoCall = NoCall
SYMMETRY HolderSymmetry
INVARIANTS
    RefsCountHolders
    BlocksPartitioned
    IndexExact
    HeldBlocksKeepContent
PROPERTIES
    RevokedStaysRevoked
    PoolImplemented
CHECK_DEADLOCK FALSE
