SPECIFICATION FairSpec
CONSTANTS
  Inputs = {i1, i2, i3}
  Server = server
  Clis = {}
  Calls = {c1, c2}
  None = none
  DefaultMaxAttempts = 1
  Ceiling = 2
  MaxGeneration = 0
  MaxCrashes = 1
  RecoveryWired = TRUE
CHECK_DEADLOCK FALSE
INVARIANTS LiveRunIsCancellable HistoryIsWhole
PROPERTY AttemptsSettle
