SPECIFICATION Spec
CONSTANTS
  Sessions = {s1, s2}
  Captures <- MCCaptures
  Requests <- MCRequests
  Providers = {p, q}
  Exts = {e1, e2}
  Urls = {u1, u2, w}
  SiteOf <- MCSiteOf
  FieldNames = {f, g}
  Values = {x, y}
  None = none
  MaxItems = 2
  MaxFaults = 1
  p = p
  q = q
  e1 = e1
  e2 = e2
  u1 = u1
  u2 = u2
  w = w
  f = f
  g = g
  x = x
  y = y
SYMMETRY SessionSymmetry
CHECK_DEADLOCK FALSE
INVARIANTS IInv EligibleNamesItsFacts TierTwoIsUnique SnapshotsMatchCommit
