SPECIFICATION Spec
CONSTANTS
  Procs <- OneProc
  Sets <- TwoSets
  Rules <- TwoRules
  Tests <- ThreeTests
  RuleOf <- Rule123
  Passed <- AlsoPassed
  Configs <- OneConfig
  Data <- TwoPanels
  MaxRuns = 2
  Overlap = FALSE
  Kills = TRUE
  None = None
  Torn = Torn
INVARIANTS
  LabelStays
CHECK_DEADLOCK FALSE
