SPECIFICATION Spec
CONSTANTS
  Caller = {c1, c2, c3}
  Remote = {r1, r2}
  None = None
  Interactive = {}
  Parks = TRUE
  Learns = TRUE
  Overlap = FALSE
  MaxCrashes = 0
SYMMETRY Symmetry
CHECK_DEADLOCK FALSE
INVARIANTS EachOnceRunsOneCall RecordDecides
