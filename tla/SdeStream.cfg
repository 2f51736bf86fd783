SPECIFICATION FairSpec
CONSTANTS
    NumDesc = 3
    Layouts <- MCLayouts
    MaxBatch = 2
    LoopCap = 2
    Ids = 7
INVARIANTS
    InOrder
PROPERTIES
    RingNotOverrun
    InFlightIntact
    ReadCompletes
