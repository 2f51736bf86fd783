SPECIFICATION Spec
CONSTANTS
  Afi = {a1, a2}
  None = None
  MaxRetries = 1
  ReloadRetries = 0
  SyncTimeout = 1
  MaxCmd = 5
  PciFails = TRUE
  Restarts = FALSE
INVARIANTS
    TypeOK
    OwnAnswer
    SeenIsTrue
PROPERTIES
    ReloadWhenAsked
CHECK_DEADLOCK FALSE
