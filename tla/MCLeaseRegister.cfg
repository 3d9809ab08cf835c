SPECIFICATION LeasesSpec
CONSTANTS
  Holder = {h1, h2}
  Id = {i1, i2, i3}
  dir = dir
  file = file
  charge = charge
  refund = refund
  Path <- MCPath
  Under <- MCUnder
  Line <- MCLine
  Name <- MCName
  SameCode <- Separate
  Place <- StillPlace
  MaxMinutes = 1
  None = None
SYMMETRY Symmetry
INVARIANTS OnlyForceOverlaps
PROPERTIES OverStaysOver
