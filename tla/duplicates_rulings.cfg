SPECIFICATION ReviewSpec
CONSTANTS
  Candidates = {1, 2, 3}
  Windows = {w1, w2}
  None = none
  TimelineMax = 5
  MaxRulings = 4
  SameInstant = FALSE
SYMMETRY WindowSymmetry
CHECK_DEADLOCK FALSE
INVARIANTS TimelineIsWhole
PROPERTY DecisionsStand
