SPECIFICATION Spec
CONSTANTS
  Afi = {a1, a2}
  None = None
  MaxRetries = 1
  ReloadRetries = 0
  SyncTimeout = 1
  MaxCmd = 4
  PciFails = FALSE
  Restarts = FALSE
INVARIANTS
    SyncTruth
CHECK_DEADLOCK FALSE
