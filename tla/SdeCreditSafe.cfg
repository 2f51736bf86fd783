CONSTANTS
    Depth = 3
    W = 8
    Entry = {0, 1, 2}
    None = None
    NumDesc = 3
    MaxBatch = 3
    WcCnt = 2
    ReqCntMod = 6
    BrespDepth = 1
    MaxFlight = 2
    MaxChan = 2
    PokeFails = TRUE
    ReCfg = FALSE
SPECIFICATION Spec
INVARIANTS
    NoOverflow
    WaitMeansCredit
    HostNeverAhead
PROPERTIES
    HostLimitForward
