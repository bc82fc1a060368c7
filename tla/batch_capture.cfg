SPECIFICATION Spec
CONSTANTS
  j1 = j1
  j2 = j2
  j3 = j3
  Jobs = {j1, j2, j3}
  Look <- MCLook
  Linked = {j1, j3}
  Overlays = {1, 2}
  MaxBatch = 2
  MaxIterations = 4
  None = None
  Limits <- MCAll
CHECK_DEADLOCK FALSE
INVARIANTS IInv CompleteUnlessMoved
PROPERTIES CancelledIsSilent BatchEnds
