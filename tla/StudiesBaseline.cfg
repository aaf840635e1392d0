SPECIFICATION Spec
CONSTANTS
  NaN = NaN
  Unit = 12
  Tickers <- MCTickers
  Volatility <- MCVolatility
  MonthsAYear <- MCMonthsAYear
  Sharpe <- MCSharpe
  TrueQuarter <- MCTrueQuarter
  Subjects <- WalkOnly
  Days <- MCDays
INVARIANT BaselineStartsHeld
