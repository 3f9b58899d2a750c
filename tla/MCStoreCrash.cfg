SPECIFICATION Spec
CONSTANTS
    s1 = s1
    s2 = s2
    s3 = s3
    small = small
    large = large
    t1 = t1
    t2 = t2
    owner = owner
    Slot <- ThreeSlots
    Content <- Chunks
    Size <- ChunkSize
    Quota = 3
    Modulus = 16
    Writer <- OneThread
    Eraser <- OneThread
    Fault <- AllFaults
    MayCrash = TRUE
    NoFile = NoFile
    NoCall = NoCall
SYMMETRY SlotSymmetry
INVARIANTS
    CrashKeepsPromise
    QuotaExact
PROPERTY
    QuotaRespected
