SPECIFICATION FairSpec
CONSTANTS
    f1 = f1  f2 = f2  f3 = f3  f4 = f4  f5 = f5  p0 = p0  p1 = p1
    Fetch = {f1, f2, f3, f4, f5}
    Plane = {p0, p1}
    kindOf <- MCKindOf
    planeOf <- MCPlaneOf
    TRead = 2
    TProg = 3
    Subpage = 3
    Bandwidth = 2
    AckLatency = 1
    MaxReads = 2
    WriteEntries = 2
    RetQ = 1
INVARIANTS SlotsExact OneProgramAtATime
PROPERTIES PushOrder ImplementsService EventuallyCompleted BufferDrains
