SPECIFICATION Spec
CONSTANTS
  Procs <- OneProc
  Sets <- TwoSets
  Rules <- TwoRules
  Tests <- TwoTests
  RuleOf <- Rule12
  Passed <- OnlyPassed
  Configs <- ThreeConfigs
  Data <- TwoPanels
  MaxRuns = 4
  Overlap = FALSE
  Kills = TRUE
  None = None
  Torn = Torn
INVARIANTS
  CanBeFinished
  ScoredOnRecord
  LabelsAreEarned
PROPERTIES
  KeepsOrder
CHECK_DEADLOCK FALSE
