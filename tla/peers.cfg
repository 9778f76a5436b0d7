\* Two boats, two records, a start; callback and Core 1 meet once in mid-work.
CONSTANTS
  b1 = b1
  b2 = b2
  Boats = {b1, b2}
  Sides <- MCSides
  MaxPeers = 2
  MaxStarts = 1
  MaxRaces = 1
  None = None
SPECIFICATION Spec
INVARIANTS TableTrue
PROPERTIES RecallJustified Heals Noticed
CHECK_DEADLOCK FALSE
