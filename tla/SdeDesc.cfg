CONSTANTS
    Depth = 4
    W = 16
    Entry = {a, b}
    None = None
SPECIFICATION DescFairSpec
INVARIANTS
    CreditsExact
    NoOverflow
PROPERTIES
    ImplementsFifo
    HeadBecomesValid
