SPECIFICATION FairSpec
CONSTANTS
    w0 = w0  w1 = w1  r1 = r1  r2 = r2  k1 = k1  k2 = k2
    Warp = {w0, w1}
    Cta = {0}
    warpsOf <- MCWarpsOf
    Reg = {r1, r2}
    Key = {k1, k2}
    programs <- MCPrograms
    NoWarp = none
    MemOut = 1
    Configs <- MCConfigs
INVARIANTS PipelineExact BarrierOrder ExitsDrained CopiesAwaited
PROPERTIES CtasComplete
