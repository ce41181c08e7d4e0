SPECIFICATION FairSpec
CONSTANTS
    f1 = f1  f2 = f2  f3 = f3  f4 = f4
    Fetch = {f1, f3, f4}
    NSub = 2
    subOf <- MCSubOf
    kindOf <- MCKindOf
    backendOf <- MCHbmOfSub0
    SchedQ = 1
    WriteQ = 0
    RetQ = 1
    L2DramSize = 2
    DramL2Size = 2
    Latency <- MCLatency
    Slots <- MCSlots
PROPERTIES EventuallyServed
