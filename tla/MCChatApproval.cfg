SPECIFICATION Spec
CONSTANTS
  Call = {c1, c2, c3}
  Pause = {p1, p2}
  Remote = {r1}
  None = None
  Serial = TRUE
  MaxMs = 2
  MaxFaults = 1
CHECK_DEADLOCK FALSE
INVARIANTS OneOpenQuestion ToldOnce
SYMMETRY Symmetry
PROPERTIES ImplementsConsent
