SPECIFICATION Spec
CONSTANTS
  Groups <- FiveEach
  Answer = {"right", "a", "b", "c", "none"}
  NoAnswer = "none"
  Gradings <- Checkers
  K = 3
  ConfiguredG = 5
  Smoothing = 1
  LambdaNum = 8
  LambdaDen = 5
  Kappa = 2
INVARIANTS SignsKept RiskDecidesOrder ZeroSum RiskIsProbability
CHECK_DEADLOCK FALSE
