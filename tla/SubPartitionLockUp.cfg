SPECIFICATION FairSpec
CONSTANTS
    f1 = f1  f2 = f2  f3 = f3  f4 = f4  A = A  B = B
    Fetch = {f1, f2, f3, f4}
    Way = {0}
    Sector = {0, 1}
    Block = {A, B}
    NoBlock = NoBlock
    kindOf <- MergeKind
    blockOf <- MergeBlock
    sectorOf <- FirstSector
    bytesOf <- AllBytes
    MissQ = 2
    MshrEntries = 2
    MaxMerged = 2
    IcntL2Size = 2
    Reserve = 1
    L2DramSize = 1
    DramL2Size = 1
    L2IcntSize = 2
    DirtyWidth = 4
    RopBound = 1
PROPERTIES NoLockUp
