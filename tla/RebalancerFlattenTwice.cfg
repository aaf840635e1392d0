SPECIFICATION Spec
CONSTANTS
  Symbols <- OneSymbol
  None = None
  MaxShares = 1
  MaxRuns = 2
  MaxDay = 1
  MaxManual = 0
  Scenarios <- PartialCancelOnly
INVARIANTS
  FlattenIsIdempotent
CHECK_DEADLOCK FALSE
