SPECIFICATION FairSpec
CONSTANTS
    f1 = f1  f2 = f2  f3 = f3  f4 = f4  A = A  B = B
    Fetch = {f1, f2, f3, f4}
    Way = {0}
    Sector = {0, 1}
    Block = {A, B}
    NoBlock = NoBlock
    kindOf <- MixedKind
    blockOf <- MixedBlock
    sectorOf <- MixedSector
    bytesOf <- MixedBytes
    MissQ = 2
    MshrEntries = 2
    MaxMerged = 2
    IcntL2Size = 1
    Reserve = 1
    L2DramSize = 1
    DramL2Size = 1
    L2IcntSize = 1
    DirtyWidth = 4
    RopBound = 1
INVARIANTS MshrExact DirtyCount
PROPERTIES DirtyKept ImplementsService EventuallyAnswered
