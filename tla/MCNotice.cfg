SPECIFICATION NoticeSpec
CONSTANTS
  Seam = {s1, s2}
  Act = {"look", "change", "take", "send"}
  Considered <- MCConsidered
  Key = {"secret", "host"}
  Nothing = Nothing
  TURN_AFTER_READS = 1
  TAINT_WINDOW = 1
  CHAIN_WINDOW = 1
  MOST_ASKED_KEPT = 2
  MaxTime = 3
  MaxFails = 1
  MaxBegun = 3
CHECK_DEADLOCK FALSE
SYMMETRY Symmetry
PROPERTIES TaintHolds ChainIsNoticed NewNeedsAYes
