SPECIFICATION Spec
CONSTANTS
  r1 = r1
  r2 = r2
  None = None
  Threads = {t1, t2, t3}
  Res <- MCRes
  Size <- MCSize
  Burstable <- MCBurstable
  Addr = {a1, a2, a3}
  BarsMax = 2
  Accesses <- MCAccesses
  LedAccess <- MCLed
  Wrap = 16
INVARIANTS
  TypeOK NoLeak
PROPERTIES
  HandlesIsolate
