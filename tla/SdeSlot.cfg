SPECIFICATION Spec
CONSTANTS
    NumDesc = 2
    MaxRes = 24
    MaxInits = 2
    MaxApp = 2
INVARIANTS
    LacksOnlyBars
    CloseFrees
    CardKnowsOurs
PROPERTIES
    AppIntact
\* The bounds on calls and regions end every behaviour.
CHECK_DEADLOCK FALSE
