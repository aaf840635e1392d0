SPECIFICATION FairSpec
CONSTANTS
  Procs <- TwoProcs
  Configs <- TwoConfigs
  MaxRuns = 5
  Scenarios <- EveryWay
INVARIANTS
  OneResult
  PreRegistered
PROPERTIES
  KeepsSeal
  EventsEnd
CHECK_DEADLOCK FALSE
