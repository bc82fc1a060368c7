SPECIFICATION Spec
CONSTANTS
  Inputs = {i1}
  Server = server
  Clis = {cli}
  Calls = {c1, c2, c3}
  None = none
  DefaultMaxAttempts = 1
  Ceiling = 3
  MaxGeneration = 1
  MaxCrashes = 1
  RecoveryWired = FALSE
CHECK_DEADLOCK FALSE
SYMMETRY CallSymmetry
INVARIANTS IInv CallsAreBudgeted
PROPERTIES ImplementsLifecycle SettledByOwner
