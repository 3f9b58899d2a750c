SPECIFICATION Spec
CONSTANTS
    p1 = p1
    p2 = p2
    p3 = p3
    r1 = r1
    r2 = r2
    r3 = r3
    a = a
    b = b
    Page <- ThreePages
    Request <- ThreeRequests
    Token <- TwoTokens
    Prefix <- FullPrefixes
    NoPrefix = NoPrefix
    BlockSize = 2
    MaxTokens = 4
    Fault <- AllFaults
    InvalidBlock = InvalidBlock
    Junk = Junk
    NoCall = NoCall
    SizeMax = 63
    Overflow = Overflow
    Geometry <- SmallGeometries
    Budget <- SmallBudgets
SYMMETRY SequenceSymmetry
INVARIANTS
    RefsCountTables
    TokensIntact
    TablesCoverTokens
    CachedTrue
    ReservedIsPrivate
    AttentionSeesItsTokens
    LayoutsExact
