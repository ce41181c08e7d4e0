SPECIFICATION FairSpec
CONSTANTS
    NKernel = 4
    streamOf <- MCStreamOf
    ctasOf <- MCCtasOf
    threadsOf <- MCThreadsOf
    maxCta <- MCMaxCta
    latencyOf <- MCLatencyOf
    MaxConcurrent = 2
    NCore = 2
    NThread = 4
    NCtaSlot = 3
    MaxPending = 2
    Configs <- MCConfigs
INVARIANTS CtasExact ThreadsExclusive 
PROPERTIES ImplementsStreams AllRetired
