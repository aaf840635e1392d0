SPECIFICATION FairSpec
CONSTANTS
  Symbols <- TwoSymbols
  None = None
  MaxShares = 1
  MaxRuns = 3
  MaxDay = 2
  MaxManual = 1
  Scenarios <- MixedScenarios
INVARIANTS
  TypeOK
  SizedOnReconciledAccount
  NoOversell
  NoFalseAlarm
PROPERTIES
  LeavesTrace
  NoSecondTrade
  KeepsPromise
  Converges
CHECK_DEADLOCK FALSE
