SPECIFICATION Spec
CONSTANTS
  Keys = {k1, k2}
  Facts = {f1, f2}
  Payloads = {a, b}
  Contents = {x}
  Levels = {"insufficient", "directional"}
  FactsLevel <- MCFactsLevel
  PayloadLevel <- MCPayloadLevel
  Permitted <- MCPermitted
  None = none
  Limits <- MCLimits
  MaxEvidence = 2
  MaxFactChanges = 1
  f1 = f1
  f2 = f2
  a = a
  b = b
SYMMETRY MCSymmetry
CHECK_DEADLOCK FALSE
INVARIANTS ProfilesAreSound OneOpenPerInput
PROPERTY AdviceIsFresh
