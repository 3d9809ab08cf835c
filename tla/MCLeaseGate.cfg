SPECIFICATION FairSpec
CONSTANTS
  h1 = h1
  h2 = h2
  l1 = l1
  l2 = l2
  Holder = {h1, h2}
  Id = {i1, i2}
  dir = dir
  file = file
  Path <- MCPath
  Under <- MCUnder
  Line = {l1, l2}
  Name = {}
  SameCode = {}
  Place <- MCPlace
  Asks <- MCAsks
  MaxMinutes = 1
  Elsewhere = {file}
  Reachable = TRUE
  Attempts = 2
  None = None
CHECK_DEADLOCK FALSE
INVARIANT WritersApart
PROPERTIES EveryClaimEnds RefusedLeavesNothing
