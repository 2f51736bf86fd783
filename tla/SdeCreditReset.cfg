CONSTANTS
    Depth = 2
    W = 6
    Entry = {0, 1}
    None = None
    NumDesc = 2
    MaxBatch = 2
    WcCnt = 2
    ReqCntMod = 4
    BrespDepth = 2
    MaxFlight = 1
    MaxChan = 2
    PokeFails = FALSE
    ReCfg = TRUE
SPECIFICATION Spec
INVARIANTS
    WaitMeansCredit
