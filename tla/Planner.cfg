SPECIFICATION Spec
CONSTANTS
  Symbols <- AllSymbols
  Universe <- InUniverse
  Unit = 10
  Buffer = 1
  Deadband = 2
  MaxGross = 10
  Holdings <- StartHoldings
  Cash <- StartCash
  Closes <- CloseVectors
  Weights <- WeightVectors
  MaxMoves = 1
INVARIANTS
  BuyingKeepsBuffer
  TowardsTargets
PROPERTIES
  Settles
CHECK_DEADLOCK FALSE
