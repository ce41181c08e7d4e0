SPECIFICATION Spec
CONSTANTS
    NKernel = 3
    streamOf <- OneEach
    ctasOf <- OneEach
    threadsOf <- OneEach
    maxCta <- OneEach
    latencyOf <- OneEach
    MaxConcurrent = 3
    NCore = 2
    NThread = 2
    NCtaSlot = 2
    MaxPending = 1
    Configs <- ConcurrentOnly
PROPERTIES OnlyFinishedCleaned
