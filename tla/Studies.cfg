SPECIFICATION Spec
CONSTANTS
  NaN = NaN
  Unit = 12
  Tickers <- MCTickers
  Volatility <- MCVolatility
  MonthsAYear <- MCMonthsAYear
  Sharpe <- MCSharpe
  TrueQuarter <- MCTrueQuarter
  Subjects <- MCSubjects
  Days <- MCDays
INVARIANTS
  Tradable
  MatchesAccount
PROPERTIES
  NeverOverInvested
  KeptUntilExit
  HealthyMeansWhole
  TrueData
  NoHindsight
  DropsAreFinal
