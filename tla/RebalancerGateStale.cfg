SPECIFICATION Spec
CONSTANTS
  Symbols <- TwoSymbols
  None = None
  MaxShares = 1
  MaxRuns = 3
  MaxDay = 1
  MaxManual = 0
  Scenarios <- FlattenFailsMidrun
INVARIANTS
  NextRunCatchesFlatten
CHECK_DEADLOCK FALSE
