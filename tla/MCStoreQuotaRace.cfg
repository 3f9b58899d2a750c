SPECIFICATION Spec
CONSTANTS
    s1 = s1
    s2 = s2
    s3 = s3
    small = small
    large = large
    t1 = t1
    t2 = t2
    owner = owner
    Slot <- TwoSlots
    Content <- Chunks
    Size <- ChunkSize
    Quota = 3
    Modulus = 16
    Writer <- TwoWorkers
    Eraser <- OneThread
    Fault <- NoFault
    MayCrash = FALSE
    NoFile = NoFile
    NoCall = NoCall
SYMMETRY SlotSymmetry
PROPERTY
    QuotaRespected
