SPECIFICATION FairSpec
CONSTANTS
    f1 = f1  f2 = f2  f3 = f3  f4 = f4  none = none
    Fetch = {f1, f2, f3, f4}
    None = none
    kindOf <- MCKindOf
    bankOf <- MCBankOf
    rowOf <- MCRowOf
    atomsOf <- MCAtomsOf
    NBank = 2
    NGroup = 1
    CL = 2
    WL = 1
    Delay <- MCDelay
    SchedQ = 2
    WriteQ = 2
    High = 2
    Low = 1
    RetQ = 1
    Configs <- MCConfigs
INVARIANTS SchedulerExact AtomsConserved
PROPERTIES ColumnLatency ImplementsService Drains
