SPECIFICATION FairLockSpec
CONSTANTS
  Proc = {p1, p2, p3}
  Nobody = Nobody
  ATTEMPTS = 2
  MaxFaults = 1
  Slow = FALSE
INVARIANTS OneWriterUntilStale NoLostUpdateUntilStale
PROPERTIES CrashNeverWedges
