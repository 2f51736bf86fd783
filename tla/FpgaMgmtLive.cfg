SPECIFICATION FairSpec
CONSTANTS
  Afi = {a1, a2}
  None = None
  MaxRetries = 1
  ReloadRetries = 0
  SyncTimeout = 1
  MaxCmd = 4
  PciFails = TRUE
  Restarts = TRUE
PROPERTIES
    CallRunsDown
    CallReturns
CHECK_DEADLOCK FALSE
