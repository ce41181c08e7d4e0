SPECIFICATION Spec
CONSTANTS
    f1 = f1  f2 = f2  f3 = f3  f4 = f4
    Fetch = {f1, f2, f3, f4}
    NSub = 2
    subOf <- MCSubOf
    kindOf <- MCKindOf
    backendOf <- MCBackendOf
    SchedQ = 1
    WriteQ = 0
    RetQ = 1
    L2DramSize = 2
    DramL2Size = 1
    Latency <- MCLatency
    Slots <- MCSlots
INVARIANTS Placement CreditsAccounted InFlightBounded
PROPERTIES ImplementsService
