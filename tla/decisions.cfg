SPECIFICATION Spec
CONSTANTS
  Candidates = {1, 2}
  MaxVersion <- MCFirstChanges
  Contexts = {k1, k2}
  Verdicts = {"apply_now", "verify"}
  Families = {"ignore", "appliedPending"}
  HitVersions <- MCSecondHit
  MaxRecommendations = 1
  Limits <- MCAll
  SameInstant = FALSE
SYMMETRY ContextSymmetry
CHECK_DEADLOCK FALSE
INVARIANTS LogIsLastWish ReuseIsFresh DecisionsHonoured ScopeIsAccounted
