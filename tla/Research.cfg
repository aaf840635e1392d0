SPECIFICATION FairSpec
CONSTANTS
  None = None
  Spaces <- SmallSpaces
  Searchable = {"trend", "grid", "value"}
  CoreFamilies = {}
  FactorFamilies = {"value"}
  PruneMin = 2
  Required = 60
  MetaGrid = 2
  Gap = 20
  Scenarios <- Stories
INVARIANTS
  OneRulebook
  TriedOnce
  GivesUpDeadRegions
  NeighbourhoodHeld
  JudgedAgainstAll
  Replayed
PROPERTIES
  LooksAreJudged
CHECK_DEADLOCK FALSE
