SPECIFICATION Spec
CONSTANTS
  None = None
  Spaces <- SmallSpaces
  Searchable = {"trend", "grid", "value"}
  CoreFamilies = {}
  FactorFamilies = {"value"}
  PruneMin = 2
  Required = 60
  MetaGrid = 2
  Gap = 20
  Scenarios <- Twice
INVARIANT ValidatedOnce
CHECK_DEADLOCK FALSE
