SPECIFICATION Spec
CONSTANTS
  NaN = NaN
  Unit = 16
  MonthsAYear = 2
  YieldDays = 2
  NoSignal = NoSignal
  DataEnds = DataEnds
  CloselyMoves <- CloseTogether
  Depleted <- MCDepleted
  Tickers = {8, 9}
  Volatility <- MCVolatility
  Subjects <- MCSubjects
  Days <- MCDays
PROPERTIES
  RunnersAgree
  MoneyAddsUp
  FullyFunded
  MoneyNeverHurts
  FallsAreMeasured
  SaysTheSame
