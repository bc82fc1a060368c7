SPECIFICATION FairSpec
CONSTANTS
  Runs = {r1, r2}
  Commands = {1, 2, 3}
  Calls = {1, 2, 3, 4, 5, 6, 7, 8, 9, 10, 11, 12, 13, 14}
  Free = Free
  Torn = Torn
  None = None
  ByModelName = 0
  Limits <- MCAll
  ResumeLive = FALSE
  MaxRepairCycles = 1
  MaxOpusCalls = 1
CHECK_DEADLOCK FALSE
INVARIANTS LeaseHolds CallsAreAccounted
PROPERTIES LedgerGrows DrivenRunEnds
