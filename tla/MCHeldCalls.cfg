SPECIFICATION FairSpec
CONSTANTS
  Caller = {c1, c2}
  Remote = {r1}
  None = None
  Interactive = {c1}
  Parks = TRUE
  Learns = FALSE
  Overlap = TRUE
  MaxCrashes = 1
CHECK_DEADLOCK FALSE
INVARIANTS OneAnswerWhileHeld RunsOnlyOnAYes EachOncePassesOneBoundary
PROPERTIES EveryHoldEnds
